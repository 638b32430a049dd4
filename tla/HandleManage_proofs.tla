-------------------------- MODULE HandleManage_proofs --------------------------
(***************************************************************************)
(* The linked list of HandleManage, for every number of nodes, handles and *)
(* threads: it stays one chain, and it is the list of HandleList.  Then    *)
(* UsrManage, which keeps the users in such a list, for every number of    *)
(* users, threads, calls and deaths of the process: list and table agree.  *)
(***************************************************************************)
EXTENDS HandleManage, UsrManage, FiniteSetTheorems, SequenceTheorems, WellFoundedInduction, TLAPS

\* The least element, for a well-founded relation that contains <.
LEMMA LeastByRelation ==
    ASSUME NEW S, NEW R, S \subseteq Nat, S # {},
           IsWellFoundedOn(R, Nat),
           \A x, y \in Nat : y < x => <<y, x>> \in R
    PROVE  \E x \in S : \A y \in S : x <= y
<1>1. PICK x \in S : \A y \in S : ~(<<y, x>> \in R)
  BY WFMin, Zenon
<1>2. \A y \in S : ~(y < x)
  BY <1>1, Zenon
<1>3. \A y \in S : x <= y
  BY <1>2, SMT
<1> QED
  BY <1>3, Zenon

\* Every non-empty set of naturals has a least element.
LEMMA LeastExists ==
    ASSUME NEW S, S \subseteq Nat, S # {}
    PROVE  \E x \in S : \A y \in S : x <= y
<1>1. \A x, y \in Nat : y < x => <<y, x>> \in OpToRel(<, Nat)
  BY Zenon DEF OpToRel
<1> QED
  BY <1>1, LeastByRelation, NatLessThanWellFounded, Zenon
-----------------------------------------------------------------------------
(***************************************************************************)
(* The n nodes of chain c are those in use, and are linked in this order,  *)
(* from the head to NULL and back.                                         *)
(***************************************************************************)
Chain(n, c) ==
    /\ n \in Nat
    /\ c \in [1 .. n -> Nodes]
    /\ \A i, j \in 1 .. n : c[i] = c[j] => i = j
    /\ \A x \in Nodes : x \in allocated <=> \E i \in 1 .. n : x = c[i]
    /\ next[head] = IF n = 0 THEN NULL ELSE c[1]
    /\ \A i \in 1 .. n : /\ next[c[i]] = IF i = n THEN NULL ELSE c[i + 1]
                         /\ pre[c[i]] = IF i = 1 THEN head ELSE c[i - 1]

\* A chain of different nodes is not longer than there are nodes.
LEMMA ChainFits ==
    ASSUME NEW n \in Nat, NEW c \in [1 .. n -> Nodes],
           \A i, j \in 1 .. n : c[i] = c[j] => i = j
    PROVE  /\ Cardinality(Nodes) \in Nat
           /\ n <= Cardinality(Nodes)
<1>1. IsFiniteSet(Nodes) /\ Cardinality(Nodes) \in Nat
  BY HandleAssumption, FS_CardinalityType
<1>2. c \in Injection(1 .. n, Nodes)
  BY DEF Injection, IsInjective
<1>3. Cardinality(1 .. n) = n
  BY FS_Interval
<1> QED
  BY <1>1, <1>2, <1>3, FS_Injection

\* The walk along next follows the chain.
LEMMA WalkIsChain ==
    ASSUME NEW n, NEW c, Chain(n, c)
    PROVE  Walk = [k \in 0 .. Cardinality(Nodes) |-> IF k < n THEN c[k + 1] ELSE NULL]
<1> DEFINE N == Cardinality(Nodes)
           w == [k \in 0 .. N |-> IF k < n THEN c[k + 1] ELSE NULL]
           Walks(f) == f = [k \in 0 .. N |->
                              IF k = 0 THEN next[head]
                              ELSE IF f[k - 1] = NULL THEN NULL ELSE next[f[k - 1]]]
<1>1. /\ n \in Nat /\ N \in Nat /\ n <= N
      /\ \A i \in 1 .. n : c[i] \in Nodes /\ c[i] # NULL
  BY ChainFits, HandleAssumption DEF Chain
<1>2. /\ next[head] = IF n = 0 THEN NULL ELSE c[1]
      /\ \A i \in 1 .. n : next[c[i]] = IF i = n THEN NULL ELSE c[i + 1]
  BY DEF Chain
<1> HIDE DEF N
<1>3. Walks(w)
  <2>1. \A k \in 0 .. N : w[k] = IF k = 0 THEN next[head]
                                 ELSE IF w[k - 1] = NULL THEN NULL ELSE next[w[k - 1]]
    <3> TAKE k \in 0 .. N
    <3>1. CASE k = 0
      BY <1>1, <1>2, <3>1
    <3>2. CASE k # 0
      <4>1. k - 1 \in 0 .. N /\ w[k] = (IF k < n THEN c[k + 1] ELSE NULL)
            /\ w[k - 1] = (IF k - 1 < n THEN c[k] ELSE NULL)
        BY <1>1, <3>2
      <4> HIDE DEF w
      <4>2. CASE k - 1 < n
        <5>1. k \in 1 .. n
          BY <1>1, <3>2, <4>2
        <5> QED
          BY <1>1, <1>2, <3>2, <4>1, <4>2, <5>1
      <4>3. CASE ~(k - 1 < n)
        BY <1>1, <3>2, <4>1, <4>3
      <4> QED
        BY <4>2, <4>3
    <3> QED
      BY <3>1, <3>2
  <2> QED
    BY <2>1
<1>4. ASSUME NEW f, Walks(f)
      PROVE  f = w
  <2> DEFINE D == {k \in 0 .. N : f[k] # w[k]}
  <2>1. f = [k \in 0 .. N |-> f[k]]
    BY <1>4
  <2>2. \A k \in 0 .. N : f[k] = IF k = 0 THEN next[head]
                                 ELSE IF f[k - 1] = NULL THEN NULL ELSE next[f[k - 1]]
    BY <1>4
  <2>3. \A k \in 0 .. N : w[k] = IF k = 0 THEN next[head]
                                 ELSE IF w[k - 1] = NULL THEN NULL ELSE next[w[k - 1]]
    BY <1>3
  <2>4. w = [k \in 0 .. N |-> w[k]]
    OBVIOUS
  <2> HIDE DEF w, Walks
  <2>5. D = {}
    <3> SUFFICES ASSUME D # {} PROVE FALSE
      OBVIOUS
    <3>1. D \subseteq Nat
      BY <1>1
    <3>2. PICK k \in D : \A m \in D : k <= m
      BY <3>1, LeastExists
    <3>3. k \in 0 .. N /\ f[k] # w[k] /\ k \in Nat
      BY <1>1, <3>2
    <3>4. k # 0
      BY <2>2, <2>3, <3>3
    <3>5. k - 1 \in 0 .. N /\ k - 1 \notin D
      BY <1>1, <3>2, <3>3, <3>4
    <3>6. f[k - 1] = w[k - 1]
      BY <3>5
    <3> QED
      BY <2>2, <2>3, <3>3, <3>4, <3>6
  <2> QED
    BY <2>1, <2>4, <2>5
<1>5. Walk = CHOOSE f : Walks(f)
  BY DEF Walk, N
<1> HIDE DEF w, Walks
<1>6. Walk = w
  BY <1>3, <1>4, <1>5
<1> QED
  BY <1>6 DEF w, N


\* What the loops of the module see of a chain.
SeenAs(n, c) ==
    /\ Length = n
    /\ Order = c
    /\ LastCell = IF n = 0 THEN head ELSE c[n]

LEMMA OrderIsChain ==
    ASSUME NEW n, NEW c, Chain(n, c)
    PROVE  SeenAs(n, c)
<1> DEFINE N == Cardinality(Nodes)
<1>1. n \in Nat /\ c \in [1 .. n -> Nodes]
  BY DEF Chain
<1>2. N \in Nat /\ n <= N
  BY ChainFits DEF Chain
<1>3. \A i \in 1 .. n : c[i] # NULL
  BY <1>1, HandleAssumption
<1>4. Walk = [k \in 0 .. N |-> IF k < n THEN c[k + 1] ELSE NULL]
  BY WalkIsChain
<1> HIDE DEF N
<1>5. {k \in DOMAIN Walk : Walk[k] # NULL} = 0 .. n - 1
  BY <1>1, <1>2, <1>3, <1>4
<1>6. Cardinality(0 .. n - 1) = n
  <2>1. 0 \in Int /\ n - 1 \in Int
    BY <1>1
  <2>2. Cardinality(0 .. n - 1) = IF 0 > n - 1 THEN 0 ELSE n - 1 - 0 + 1
    BY <2>1, FS_Interval
  <2> QED
    BY <1>1, <2>2
<1>7. Length = n
  BY <1>5, <1>6 DEF Length
<1>8. \A i \in 1 .. n : Walk[i - 1] = c[i]
  BY <1>1, <1>2, <1>4
<1>9. Order = c
  BY <1>1, <1>7, <1>8 DEF Order
<1> QED
  BY <1>7, <1>9 DEF LastCell, SeenAs

\* The same after a step: the loops find the chain that the step has made.
LEMMA ChainIsSeen == \A n, c : Chain(n, c) => SeenAs(n, c) /\ Chain(Length, Order)
  BY OrderIsChain DEF SeenAs

LEMMA ChainIsSeenNext == (\A n, c : Chain(n, c) => SeenAs(n, c) /\ Chain(Length, Order))'
  BY ChainIsSeen, PTL

LEMMA NewChain ==
    ASSUME NEW n, NEW c, Chain(n, c)'
    PROVE  SeenAs(n, c)' /\ Chain(Length, Order)'
  BY ChainIsSeenNext

-----------------------------------------------------------------------------
(***************************************************************************)
(* The inductive invariant: the loops find a chain.  Every node in use     *)
(* holds the handle of a caller; a loop runs only while the mutex is held, *)
(* and stands on a node of the chain.                                      *)
(***************************************************************************)
ListInv ==
    /\ TypeOK
    /\ Chain(Length, Order)
    /\ \A x \in allocated : handle[x] \in Handles
    /\ selfMutex = NULL => cur = NULL
    /\ cur # NULL => cur \in allocated

\* The chain with a node after its last one, before its first one, and
\* without its k-th node.
AtEnd(n, c, x) == [i \in 1 .. n + 1 |-> IF i = n + 1 THEN x ELSE c[i]]
AtFront(n, c, x) == [i \in 1 .. n + 1 |-> IF i = 1 THEN x ELSE c[i - 1]]
Without(n, c, k) == [i \in 1 .. n - 1 |-> IF i < k THEN c[i] ELSE c[i + 1]]

\* The invariant speaks of one chain, which the loops see.
LEMMA TheChain ==
    ASSUME ListInv
    PROVE  \E n \in Nat : \E c \in [1 .. n -> Nodes] : Chain(n, c) /\ SeenAs(n, c)
<1>1. Chain(Length, Order)
  BY DEF ListInv
<1>2. SeenAs(Length, Order)
  BY <1>1, OrderIsChain
<1> QED
  BY <1>1, <1>2 DEF Chain

\* What a step has to leave so that there is a chain again.
LEMMA MakesChain ==
    ASSUME NEW n \in Nat, NEW c \in [1 .. n -> Nodes],
           \A i, j \in 1 .. n : c[i] = c[j] => i = j,
           \A x \in Nodes : x \in allocated' <=> \E i \in 1 .. n : x = c[i],
           next'[head] = IF n = 0 THEN NULL ELSE c[1],
           \A i \in 1 .. n : /\ next'[c[i]] = IF i = n THEN NULL ELSE c[i + 1]
                             /\ pre'[c[i]] = IF i = 1 THEN head ELSE c[i - 1]
    PROVE  Chain(n, c)'
  BY DEF Chain

\* HandleManageAddHandle puts a node that is not in use at the end of the chain.
LEMMA AddedAtEnd ==
    ASSUME ListInv, NEW n \in Nat, NEW c \in [1 .. n -> Nodes], Chain(n, c),
           NEW h \in Handles, HandleManageAddHandle(h)
    PROVE  \E x \in Nodes \ allocated : /\ allocated' = allocated \cup {x}
                                        /\ handle' = [handle EXCEPT ![x] = h]
                                        /\ next' \in [Cells -> Nodes \cup {NULL}]
                                        /\ pre' \in [Cells -> Cells \cup {NULL}]
                                        /\ Chain(n + 1, AtEnd(n, c, x))'
<1>1. PICK x \in Nodes \ allocated :
          /\ next' = [next EXCEPT ![LastCell] = x, ![x] = NULL]
          /\ pre' = [pre EXCEPT ![x] = LastCell]
          /\ handle' = [handle EXCEPT ![x] = h]
          /\ allocated' = allocated \cup {x}
  BY DEF HandleManageAddHandle
<1>2. LastCell = IF n = 0 THEN head ELSE c[n]
  BY OrderIsChain DEF SeenAs
<1>3. /\ next \in [Cells -> Nodes \cup {NULL}] /\ pre \in [Cells -> Cells \cup {NULL}]
      /\ allocated \subseteq Nodes /\ x \in Nodes /\ x \in Cells /\ head \in Cells /\ x # head
      /\ NULL \notin Nodes /\ \A y \in Nodes : y \in Cells
  BY HandleAssumption DEF ListInv, TypeOK, Cells
<1>4. /\ \A i, j \in 1 .. n : c[i] = c[j] => i = j
      /\ \A y \in Nodes : y \in allocated <=> \E i \in 1 .. n : y = c[i]
      /\ next[head] = IF n = 0 THEN NULL ELSE c[1]
      /\ \A i \in 1 .. n : /\ next[c[i]] = IF i = n THEN NULL ELSE c[i + 1]
                           /\ pre[c[i]] = IF i = 1 THEN head ELSE c[i - 1]
  BY DEF Chain
<1>5. \A i \in 1 .. n : c[i] \in Nodes /\ c[i] # x /\ c[i] # head
  BY <1>3, <1>4, HandleAssumption
<1>6. LastCell \in Cells /\ LastCell # x
  BY <1>2, <1>3, <1>5
<1>7. /\ next' \in [Cells -> Nodes \cup {NULL}] /\ pre' \in [Cells -> Cells \cup {NULL}]
      /\ \A y \in Cells : next'[y] = IF y = x THEN NULL ELSE IF y = LastCell THEN x ELSE next[y]
      /\ \A y \in Cells : pre'[y] = IF y = x THEN LastCell ELSE pre[y]
  BY <1>1, <1>3, <1>6
<1>8. PICK d \in [1 .. n + 1 -> Nodes] : /\ d = AtEnd(n, c, x) /\ d[n + 1] = x
                                        /\ \A i \in 1 .. n : d[i] = c[i]
  <2>1. AtEnd(n, c, x) \in [1 .. n + 1 -> Nodes]
    BY <1>3 DEF AtEnd
  <2>2. \A i \in 1 .. n + 1 : AtEnd(n, c, x)[i] = IF i = n + 1 THEN x ELSE c[i]
    BY DEF AtEnd
  <2>3. n + 1 \in 1 .. n + 1 /\ \A i \in 1 .. n : i \in 1 .. n + 1 /\ i # n + 1
    OBVIOUS
  <2> QED
    BY <2>1, <2>2, <2>3
<1>9. \A i, j \in 1 .. n + 1 : d[i] = d[j] => i = j
  <2> SUFFICES ASSUME NEW i \in 1 .. n + 1, NEW j \in 1 .. n + 1, d[i] = d[j] PROVE i = j
    OBVIOUS
  <2>1. (i = n + 1 \/ i \in 1 .. n) /\ (j = n + 1 \/ j \in 1 .. n)
    OBVIOUS
  <2> QED
    BY <1>4, <1>5, <1>8, <2>1
<1>10. \A y \in Nodes : y \in allocated' <=> \E i \in 1 .. n + 1 : y = d[i]
  <2> TAKE y \in Nodes
  <2>1. y \in allocated' <=> y = x \/ \E i \in 1 .. n : y = c[i]
    BY <1>1, <1>4
  <2>2. ASSUME NEW i \in 1 .. n + 1, y = d[i] PROVE y = x \/ \E j \in 1 .. n : y = c[j]
    <3>1. i = n + 1 \/ i \in 1 .. n
      OBVIOUS
    <3> QED
      BY <1>8, <2>2, <3>1
  <2>3. \A i \in 1 .. n : i \in 1 .. n + 1
    OBVIOUS
  <2>4. n + 1 \in 1 .. n + 1
    OBVIOUS
  <2> QED
    BY <1>8, <2>1, <2>2, <2>3, <2>4
<1>11. next'[head] = d[1]
  <2>1. CASE n = 0
    BY <1>2, <1>3, <1>7, <1>8, <2>1
  <2>2. CASE n # 0
    <3>1. 1 \in 1 .. n /\ n \in 1 .. n
      BY <2>2
    <3> QED
      BY <1>2, <1>3, <1>4, <1>5, <1>7, <1>8, <2>2, <3>1
  <2> QED
    BY <2>1, <2>2
<1>12. ASSUME NEW i \in 1 .. n + 1
       PROVE  /\ next'[d[i]] = IF i = n + 1 THEN NULL ELSE d[i + 1]
              /\ pre'[d[i]] = IF i = 1 THEN head ELSE d[i - 1]
  <2>1. CASE i = n + 1
    <3>1. next'[d[i]] = NULL /\ pre'[d[i]] = LastCell
      BY <1>3, <1>7, <1>8, <2>1
    <3>2. LastCell = IF i = 1 THEN head ELSE d[i - 1]
      <4>1. CASE n = 0
        BY <1>2, <2>1, <4>1
      <4>2. CASE n # 0
        <5>1. n \in 1 .. n /\ i - 1 = n /\ i # 1
          BY <2>1, <4>2
        <5> QED
          BY <1>2, <1>8, <4>2, <5>1
      <4> QED
        BY <4>1, <4>2
    <3> QED
      BY <2>1, <3>1, <3>2
  <2>2. CASE i # n + 1
    <3>1. i \in 1 .. n
      BY <2>2
    <3>2. d[i] = c[i] /\ d[i] \in Cells /\ d[i] # x
      BY <1>3, <1>5, <1>8, <3>1
    <3>3. next'[d[i]] = d[i + 1]
      <4>1. CASE i = n
        BY <1>2, <1>7, <1>8, <3>1, <3>2, <4>1
      <4>2. CASE i # n
        <5>1. i + 1 \in 1 .. n /\ n \in 1 .. n
          BY <3>1, <4>2
        <5>2. c[i] # LastCell
          BY <1>2, <1>4, <3>1, <4>2, <5>1
        <5>3. next'[d[i]] = next[c[i]]
          BY <1>7, <3>2, <5>2
        <5>4. next[c[i]] = c[i + 1]
          BY <1>4, <3>1, <4>2
        <5> QED
          BY <1>8, <5>1, <5>3, <5>4
      <4> QED
        BY <4>1, <4>2
    <3>4. pre'[d[i]] = IF i = 1 THEN head ELSE d[i - 1]
      <4>1. pre'[d[i]] = IF i = 1 THEN head ELSE c[i - 1]
        BY <1>4, <1>7, <3>1, <3>2
      <4>2. i # 1 => i - 1 \in 1 .. n
        BY <3>1
      <4> QED
        BY <1>8, <4>1, <4>2
    <3> QED
      BY <2>2, <3>3, <3>4
  <2> QED
    BY <2>1, <2>2
<1>13. Chain(n + 1, d)'
  <2>1. n + 1 \in Nat /\ n + 1 # 0
    OBVIOUS
  <2> QED
    BY <1>8, <1>9, <1>10, <1>11, <1>12, <2>1, MakesChain
<1> QED
  BY <1>1, <1>7, <1>8, <1>13


\* HandleManageAddHandle1 puts it before the first one, which points back to it.
LEMMA AddedAtFront ==
    ASSUME ListInv, NEW n \in Nat, NEW c \in [1 .. n -> Nodes], Chain(n, c),
           NEW h \in Handles, HandleManageAddHandle1(h)
    PROVE  \E x \in Nodes \ allocated : /\ allocated' = allocated \cup {x}
                                        /\ handle' = [handle EXCEPT ![x] = h]
                                        /\ next' \in [Cells -> Nodes \cup {NULL}]
                                        /\ pre' \in [Cells -> Cells \cup {NULL}]
                                        /\ Chain(n + 1, AtFront(n, c, x))'
<1>1. PICK x \in Nodes \ allocated :
          /\ next' = [next EXCEPT ![head] = x, ![x] = next[head]]
          /\ pre' = [y \in Cells |-> CASE y = x -> head
                                       [] y # x /\ y = next[head] -> x
                                       [] OTHER -> pre[y]]
          /\ handle' = [handle EXCEPT ![x] = h]
          /\ allocated' = allocated \cup {x}
  BY DEF HandleManageAddHandle1
<1>2. /\ next \in [Cells -> Nodes \cup {NULL}] /\ pre \in [Cells -> Cells \cup {NULL}]
      /\ allocated \subseteq Nodes /\ x \in Nodes /\ x \in Cells /\ head \in Cells /\ x # head
      /\ NULL \notin Nodes /\ \A y \in Nodes : y \in Cells
  BY HandleAssumption DEF ListInv, TypeOK, Cells
<1>3. /\ \A i, j \in 1 .. n : c[i] = c[j] => i = j
      /\ \A y \in Nodes : y \in allocated <=> \E i \in 1 .. n : y = c[i]
      /\ next[head] = IF n = 0 THEN NULL ELSE c[1]
      /\ \A i \in 1 .. n : /\ next[c[i]] = IF i = n THEN NULL ELSE c[i + 1]
                           /\ pre[c[i]] = IF i = 1 THEN head ELSE c[i - 1]
  BY DEF Chain
<1>4. \A i \in 1 .. n : c[i] \in Nodes /\ c[i] # x /\ c[i] # head
  BY <1>2, <1>3, HandleAssumption
<1>5. /\ next' \in [Cells -> Nodes \cup {NULL}]
      /\ \A y \in Cells : next'[y] = IF y = x THEN next[head] ELSE IF y = head THEN x ELSE next[y]
  BY <1>1, <1>2
<1>6. /\ pre' \in [Cells -> Cells \cup {NULL}]
      /\ \A y \in Cells : pre'[y] = IF y = x THEN head ELSE IF y = next[head] THEN x ELSE pre[y]
  <2>1. \A y \in Cells : pre'[y] = IF y = x THEN head ELSE IF y = next[head] THEN x ELSE pre[y]
    BY <1>1
  <2>2. \A y \in Cells : pre'[y] \in Cells \cup {NULL}
    BY <1>2, <2>1
  <2> QED
    BY <1>1, <2>1, <2>2
<1>7. PICK d \in [1 .. n + 1 -> Nodes] : /\ d = AtFront(n, c, x) /\ d[1] = x
                                        /\ \A i \in 1 .. n : d[i + 1] = c[i]
  <2>1. \A i \in 1 .. n + 1 : i # 1 => i - 1 \in 1 .. n
    OBVIOUS
  <2>2. AtFront(n, c, x) \in [1 .. n + 1 -> Nodes]
    BY <1>2, <2>1 DEF AtFront
  <2>3. \A i \in 1 .. n + 1 : AtFront(n, c, x)[i] = IF i = 1 THEN x ELSE c[i - 1]
    BY DEF AtFront
  <2>4. 1 \in 1 .. n + 1 /\ \A i \in 1 .. n : i + 1 \in 1 .. n + 1 /\ i + 1 # 1 /\ (i + 1) - 1 = i
    OBVIOUS
  <2> QED
    BY <2>2, <2>3, <2>4
<1>8. \A i \in 1 .. n + 1 : i = 1 \/ (i - 1 \in 1 .. n /\ d[i] = c[i - 1])
  <2> TAKE i \in 1 .. n + 1
  <2>1. CASE i # 1
    <3>1. i - 1 \in 1 .. n /\ (i - 1) + 1 = i
      BY <2>1
    <3> QED
      BY <1>7, <3>1
  <2> QED
    BY <2>1
<1>9. \A i, j \in 1 .. n + 1 : d[i] = d[j] => i = j
  <2> SUFFICES ASSUME NEW i \in 1 .. n + 1, NEW j \in 1 .. n + 1, d[i] = d[j] PROVE i = j
    OBVIOUS
  <2>1. CASE i = 1
    BY <1>4, <1>7, <1>8, <2>1
  <2>2. CASE i # 1
    <3>1. j # 1
      BY <1>4, <1>7, <1>8, <2>2
    <3>2. i - 1 = j - 1
      BY <1>3, <1>8, <2>2, <3>1
    <3> QED
      BY <3>2
  <2> QED
    BY <2>1, <2>2
<1>10. \A y \in Nodes : y \in allocated' <=> \E i \in 1 .. n + 1 : y = d[i]
  <2> TAKE y \in Nodes
  <2>1. y \in allocated' <=> y = x \/ \E i \in 1 .. n : y = c[i]
    BY <1>1, <1>3
  <2>2. ASSUME NEW i \in 1 .. n + 1, y = d[i] PROVE y = x \/ \E j \in 1 .. n : y = c[j]
    BY <1>7, <1>8, <2>2
  <2>3. \A i \in 1 .. n : i + 1 \in 1 .. n + 1
    OBVIOUS
  <2>4. 1 \in 1 .. n + 1
    OBVIOUS
  <2> QED
    BY <1>7, <2>1, <2>2, <2>3, <2>4
<1>11. next'[head] = d[1]
  BY <1>2, <1>5, <1>7
<1>12. ASSUME NEW i \in 1 .. n + 1
       PROVE  /\ next'[d[i]] = IF i = n + 1 THEN NULL ELSE d[i + 1]
              /\ pre'[d[i]] = IF i = 1 THEN head ELSE d[i - 1]
  <2>1. CASE i = 1
    <3>1. next'[d[i]] = next[head] /\ pre'[d[i]] = head
      BY <1>2, <1>5, <1>6, <1>7, <2>1
    <3>2. next[head] = IF i = n + 1 THEN NULL ELSE d[i + 1]
      <4>1. CASE n = 0
        BY <1>3, <2>1, <4>1
      <4>2. CASE n # 0
        <5>1. 1 \in 1 .. n /\ i # n + 1
          BY <2>1, <4>2
        <5> QED
          BY <1>3, <1>7, <2>1, <4>2, <5>1
      <4> QED
        BY <4>1, <4>2
    <3> QED
      BY <2>1, <3>1, <3>2
  <2>2. CASE i # 1
    <3> DEFINE j == i - 1
    <3>1. j \in 1 .. n /\ i = j + 1 /\ d[i] = c[j]
      BY <1>8, <2>2
    <3> HIDE DEF j
    <3>2. d[i] \in Cells /\ d[i] # x /\ d[i] # head
      BY <1>2, <1>4, <3>1
    <3>3. next'[d[i]] = next[c[j]] /\ pre'[d[i]] = IF c[j] = next[head] THEN x ELSE pre[c[j]]
      BY <1>5, <1>6, <3>1, <3>2
    <3>4. next[c[j]] = IF i = n + 1 THEN NULL ELSE d[i + 1]
      <4>1. CASE j = n
        BY <1>3, <3>1, <4>1
      <4>2. CASE j # n
        <5>1. j + 1 \in 1 .. n /\ i # n + 1
          BY <3>1, <4>2
        <5>2. d[(j + 1) + 1] = c[j + 1]
          BY <1>7, <5>1
        <5> QED
          BY <1>3, <3>1, <4>2, <5>1, <5>2
      <4> QED
        BY <4>1, <4>2
    <3>5. pre'[d[i]] = d[i - 1]
      <4>0. n # 0 /\ 1 \in 1 .. n
        BY <3>1
      <4>1. CASE j = 1
        <5>1. c[j] = next[head]
          BY <1>3, <4>0, <4>1
        <5> QED
          BY <1>7, <3>1, <3>3, <4>1, <5>1
      <4>2. CASE j # 1
        <5>1. c[j] # next[head]
          BY <1>3, <3>1, <4>0, <4>2
        <5>2. pre[c[j]] = c[j - 1]
          BY <1>3, <3>1, <4>2
        <5>3. j - 1 \in 1 .. n /\ (j - 1) + 1 = i - 1
          BY <3>1, <4>2
        <5>4. d[i - 1] = c[j - 1]
          BY <1>7, <5>3
        <5> QED
          BY <3>3, <5>1, <5>2, <5>4
      <4> QED
        BY <4>1, <4>2
    <3> QED
      BY <2>2, <3>3, <3>4, <3>5
  <2> QED
    BY <2>1, <2>2
<1>13. Chain(n + 1, d)'
  <2>1. n + 1 \in Nat /\ n + 1 # 0
    OBVIOUS
  <2> QED
    BY <1>7, <1>9, <1>10, <1>11, <1>12, <2>1, MakesChain
<1> QED
  BY <1>1, <1>5, <1>6, <1>7, <1>13


\* FirstNode is the first node of the chain with a wanted handle.
LEMMA FirstNodeIs ==
    ASSUME NEW n \in Nat, NEW c \in [1 .. n -> Nodes], Chain(n, c), NEW wanted
    PROVE  \/ FirstNode(wanted) = NULL /\ \A i \in 1 .. n : handle[c[i]] \notin wanted
           \/ \E k \in 1 .. n : /\ FirstNode(wanted) = c[k] /\ handle[c[k]] \in wanted
                                /\ \A i \in 1 .. n : handle[c[i]] \in wanted => k <= i
<1> DEFINE found == {i \in 1 .. n : handle[c[i]] \in wanted}
<1>1. Length = n /\ Order = c
  BY OrderIsChain DEF SeenAs
<1>2. FirstNode(wanted) = IF found = {} THEN NULL
                          ELSE c[CHOOSE i \in found : \A j \in found : i <= j]
  BY <1>1 DEF FirstNode
<1>3. CASE found = {}
  BY <1>2, <1>3
<1>4. CASE found # {}
  <2>1. found \subseteq Nat
    OBVIOUS
  <2>2. \E i \in found : \A j \in found : i <= j
    BY <1>4, <2>1, LeastExists
  <2>3. PICK k \in found : (\A j \in found : k <= j) /\ FirstNode(wanted) = c[k]
    BY <1>2, <1>4, <2>2
  <2> QED
    BY <2>3
<1> QED
  BY <1>3, <1>4

\* Unlink takes the k-th node out of the chain.
LEMMA Unlinked ==
    ASSUME ListInv, NEW n \in Nat, NEW c \in [1 .. n -> Nodes], Chain(n, c),
           NEW k \in 1 .. n, Unlink(c[k])
    PROVE  /\ allocated' = allocated \ {c[k]}
           /\ next' \in [Cells -> Nodes \cup {NULL}]
           /\ pre' \in [Cells -> Cells \cup {NULL}]
           /\ Chain(n - 1, Without(n, c, k))'
<1>1. PICK x : x = c[k]
  OBVIOUS
<1>2. /\ next' = [next EXCEPT ![pre[x]] = next[x], ![x] = NULL]
      /\ pre' = [y \in Cells |-> CASE y = x -> NULL
                                   [] y # x /\ y = next[x] -> pre[x]
                                   [] OTHER -> pre[y]]
      /\ allocated' = allocated \ {x}
  BY <1>1 DEF Unlink
<1>3. /\ next \in [Cells -> Nodes \cup {NULL}] /\ pre \in [Cells -> Cells \cup {NULL}]
      /\ allocated \subseteq Nodes /\ x \in Nodes /\ x \in Cells /\ head \in Cells /\ head \notin Nodes
      /\ NULL \notin Cells /\ \A y \in Nodes : y \in Cells
  BY <1>1, HandleAssumption DEF ListInv, TypeOK, Cells
<1>4. /\ \A i, j \in 1 .. n : c[i] = c[j] => i = j
      /\ \A y \in Nodes : y \in allocated <=> \E i \in 1 .. n : y = c[i]
      /\ next[head] = IF n = 0 THEN NULL ELSE c[1]
      /\ \A i \in 1 .. n : /\ next[c[i]] = IF i = n THEN NULL ELSE c[i + 1]
                           /\ pre[c[i]] = IF i = 1 THEN head ELSE c[i - 1]
  BY DEF Chain
<1>5. /\ next[x] = IF k = n THEN NULL ELSE c[k + 1]
      /\ pre[x] = IF k = 1 THEN head ELSE c[k - 1]
  BY <1>1, <1>4
<1>6. /\ k # 1 => k - 1 \in 1 .. n /\ c[k - 1] # x
      /\ k # n => k + 1 \in 1 .. n /\ c[k + 1] # x
  BY <1>1, <1>4
<1>7. pre[x] \in Cells /\ pre[x] # x /\ next[x] # x
  BY <1>3, <1>5, <1>6
<1>8. /\ next' \in [Cells -> Nodes \cup {NULL}]
      /\ \A y \in Cells : next'[y] = IF y = x THEN NULL ELSE IF y = pre[x] THEN next[x] ELSE next[y]
  BY <1>2, <1>3, <1>7
<1>9. /\ pre' \in [Cells -> Cells \cup {NULL}]
      /\ \A y \in Cells : pre'[y] = IF y = x THEN NULL ELSE IF y = next[x] THEN pre[x] ELSE pre[y]
  <2>1. \A y \in Cells : pre'[y] = IF y = x THEN NULL ELSE IF y = next[x] THEN pre[x] ELSE pre[y]
    BY <1>2
  <2>2. \A y \in Cells : pre'[y] \in Cells \cup {NULL}
    BY <1>3, <1>7, <2>1
  <2> QED
    BY <1>2, <2>1, <2>2
<1>10. n - 1 \in Nat /\ \A i \in 1 .. n - 1 : i \in 1 .. n /\ i + 1 \in 1 .. n
  OBVIOUS
<1>11. PICK d \in [1 .. n - 1 -> Nodes] :
           /\ d = Without(n, c, k)
           /\ \A i \in 1 .. n - 1 : d[i] = IF i < k THEN c[i] ELSE c[i + 1]
  <2>1. Without(n, c, k) \in [1 .. n - 1 -> Nodes]
    BY <1>10 DEF Without
  <2>2. \A i \in 1 .. n - 1 : Without(n, c, k)[i] = IF i < k THEN c[i] ELSE c[i + 1]
    BY DEF Without
  <2> QED
    BY <2>1, <2>2
<1>12. \A i, j \in 1 .. n - 1 : d[i] = d[j] => i = j
  <2> SUFFICES ASSUME NEW i \in 1 .. n - 1, NEW j \in 1 .. n - 1, d[i] = d[j] PROVE i = j
    OBVIOUS
  <2>1. PICK a \in 1 .. n : d[i] = c[a] /\ a = IF i < k THEN i ELSE i + 1
    BY <1>10, <1>11
  <2>2. PICK b \in 1 .. n : d[j] = c[b] /\ b = IF j < k THEN j ELSE j + 1
    BY <1>10, <1>11
  <2>3. c[a] = c[b]
    BY <2>1, <2>2
  <2>4. a = b
    BY <1>4, <2>3
  <2> QED
    BY <2>1, <2>2, <2>4
<1>13. \A y \in Nodes : y \in allocated' <=> \E i \in 1 .. n - 1 : y = d[i]
  <2> TAKE y \in Nodes
  <2>1. y \in allocated' <=> \E i \in 1 .. n : i # k /\ y = c[i]
    BY <1>1, <1>2, <1>4
  <2>2. ASSUME NEW i \in 1 .. n - 1, y = d[i] PROVE \E j \in 1 .. n : j # k /\ y = c[j]
    <3>1. CASE i < k
      BY <1>10, <1>11, <2>2, <3>1
    <3>2. CASE ~(i < k)
      <4>1. i + 1 \in 1 .. n /\ i + 1 # k
        BY <1>10, <3>2
      <4> QED
        BY <1>11, <2>2, <3>2, <4>1
    <3> QED
      BY <3>1, <3>2
  <2>3. ASSUME NEW i \in 1 .. n, i # k, y = c[i] PROVE \E j \in 1 .. n - 1 : y = d[j]
    <3>1. CASE i < k
      <4>1. i \in 1 .. n - 1
        BY <3>1
      <4> QED
        BY <1>11, <2>3, <3>1, <4>1
    <3>2. CASE ~(i < k)
      <4>1. i - 1 \in 1 .. n - 1 /\ ~(i - 1 < k) /\ (i - 1) + 1 = i
        BY <2>3, <3>2
      <4> QED
        BY <1>11, <2>3, <4>1
    <3> QED
      BY <3>1, <3>2
  <2> QED
    BY <2>1, <2>2, <2>3
<1>14. next'[head] = IF n - 1 = 0 THEN NULL ELSE d[1]
  <2>1. head # x /\ n # 0 /\ 1 \in 1 .. n /\ next[head] = c[1]
    BY <1>3, <1>4
  <2>2. CASE k = 1
    <3>1. next'[head] = next[x]
      BY <1>3, <1>5, <1>8, <2>1, <2>2
    <3>2. CASE n = 1
      BY <1>5, <2>2, <3>1, <3>2
    <3>3. CASE n # 1
      <4>1. 1 \in 1 .. n - 1 /\ n - 1 # 0
        BY <2>1, <3>3
      <4> QED
        BY <1>5, <1>11, <2>2, <3>1, <3>3, <4>1
    <3> QED
      BY <3>2, <3>3
  <2>3. CASE k # 1
    <3>1. head # pre[x]
      BY <1>3, <1>5, <1>6, <2>3
    <3>2. next'[head] = c[1]
      BY <1>3, <1>8, <2>1, <3>1
    <3>3. 1 \in 1 .. n - 1 /\ n - 1 # 0 /\ 1 < k
      BY <2>3
    <3> QED
      BY <1>11, <3>2, <3>3
  <2> QED
    BY <2>2, <2>3
<1>15. \A i \in 1 .. n - 1 : next'[d[i]] = IF i = n - 1 THEN NULL ELSE d[i + 1]
  <2> TAKE i \in 1 .. n - 1
  <2>1. i \in 1 .. n /\ i + 1 \in 1 .. n /\ (i # n - 1 => i + 1 \in 1 .. n - 1)
    BY <1>10
  <2>2. CASE i < k - 1
    <3>1. d[i] = c[i] /\ c[i] \in Cells /\ c[i] # x
      BY <1>1, <1>3, <1>4, <1>11, <2>1, <2>2
    <3>2. c[i] # pre[x]
      BY <1>3, <1>4, <1>5, <1>6, <2>1, <2>2
    <3>3. next'[d[i]] = c[i + 1]
      <4>1. next'[c[i]] = next[c[i]]
        BY <1>8, <3>1, <3>2
      <4>2. i # n
        BY <2>2
      <4>3. next[c[i]] = c[i + 1]
        BY <1>4, <2>1, <4>2
      <4> QED
        BY <3>1, <4>1, <4>3
    <3>4. i # n - 1 /\ i + 1 < k
      BY <2>2
    <3> QED
      BY <1>11, <2>1, <3>3, <3>4
  <2>3. CASE i = k - 1
    <3>1. d[i] = c[i] /\ c[i] \in Cells /\ c[i] # x /\ c[i] = pre[x]
      BY <1>1, <1>3, <1>4, <1>5, <1>11, <2>1, <2>3
    <3>2. next'[d[i]] = next[x]
      BY <1>8, <3>1
    <3>3. (i = n - 1 <=> k = n) /\ i + 1 = k
      BY <2>3
    <3>4. i # n - 1 => d[i + 1] = c[k + 1]
      BY <1>11, <2>1, <3>3
    <3> QED
      BY <1>5, <3>2, <3>3, <3>4
  <2>4. CASE ~(i < k)
    <3>1. d[i] = c[i + 1] /\ c[i + 1] \in Cells /\ c[i + 1] # x
      BY <1>1, <1>3, <1>4, <1>11, <2>1, <2>4
    <3>2. c[i + 1] # pre[x]
      BY <1>3, <1>4, <1>5, <1>6, <2>1, <2>4
    <3>3. next'[d[i]] = IF i + 1 = n THEN NULL ELSE c[(i + 1) + 1]
      BY <1>4, <1>8, <2>1, <3>1, <3>2
    <3>4. (i + 1 = n <=> i = n - 1) /\ ~(i + 1 < k)
      BY <2>4
    <3>5. i # n - 1 => d[i + 1] = c[(i + 1) + 1]
      BY <1>11, <2>1, <3>4
    <3> QED
      BY <3>3, <3>4, <3>5
  <2> QED
    BY <2>2, <2>3, <2>4
<1>16. \A i \in 1 .. n - 1 : pre'[d[i]] = IF i = 1 THEN head ELSE d[i - 1]
  <2> TAKE i \in 1 .. n - 1
  <2>1. i \in 1 .. n /\ i + 1 \in 1 .. n /\ (i # 1 => i - 1 \in 1 .. n - 1 /\ i - 1 \in 1 .. n)
    BY <1>10
  <2>2. CASE i < k
    <3>1. d[i] = c[i] /\ c[i] \in Cells /\ c[i] # x
      BY <1>1, <1>3, <1>4, <1>11, <2>1, <2>2
    <3>2. c[i] # next[x]
      BY <1>3, <1>4, <1>5, <1>6, <2>1, <2>2
    <3>3. pre'[d[i]] = IF i = 1 THEN head ELSE c[i - 1]
      <4>1. pre'[d[i]] = pre[c[i]]
        BY <1>9, <3>1, <3>2
      <4> QED
        BY <1>4, <2>1, <4>1
    <3>4. i # 1 => d[i - 1] = c[i - 1]
      BY <1>11, <2>1, <2>2
    <3> QED
      BY <3>3, <3>4
  <2>3. CASE i = k
    <3>1. d[i] = c[i + 1] /\ c[i + 1] \in Cells /\ c[i + 1] # x
      BY <1>1, <1>3, <1>4, <1>11, <2>1, <2>3
    <3>2. c[i + 1] = next[x]
      BY <1>5, <2>1, <2>3
    <3>3. pre'[d[i]] = pre[x]
      BY <1>9, <3>1, <3>2
    <3>4. i # 1 => d[i - 1] = c[k - 1]
      BY <1>11, <2>1, <2>3
    <3> QED
      BY <1>5, <2>3, <3>3, <3>4
  <2>4. CASE i > k
    <3>1. d[i] = c[i + 1] /\ c[i + 1] \in Cells /\ c[i + 1] # x
      BY <1>1, <1>3, <1>4, <1>11, <2>1, <2>4
    <3>2. c[i + 1] # next[x]
      BY <1>3, <1>4, <1>5, <1>6, <2>1, <2>4
    <3>3. pre'[d[i]] = c[(i + 1) - 1]
      BY <1>4, <1>9, <2>1, <3>1, <3>2
    <3>4. i # 1 /\ ~(i - 1 < k) /\ (i - 1) + 1 = (i + 1) - 1
      BY <2>4
    <3>5. d[i - 1] = c[(i - 1) + 1]
      BY <1>11, <2>1, <3>4
    <3> QED
      BY <3>3, <3>4, <3>5
  <2> QED
    BY <2>2, <2>3, <2>4
<1>17. Chain(n - 1, d)'
  <2>1. \A i \in 1 .. n - 1 : /\ next'[d[i]] = IF i = n - 1 THEN NULL ELSE d[i + 1]
                              /\ pre'[d[i]] = IF i = 1 THEN head ELSE d[i - 1]
    BY <1>15, <1>16
  <2>2. PICK m \in Nat : m = n - 1
    BY <1>10
  <2>3. d \in [1 .. m -> Nodes]
    BY <2>2
  <2>4. /\ \A i, j \in 1 .. m : d[i] = d[j] => i = j
        /\ \A y \in Nodes : y \in allocated' <=> \E i \in 1 .. m : y = d[i]
        /\ next'[head] = IF m = 0 THEN NULL ELSE d[1]
        /\ \A i \in 1 .. m : /\ next'[d[i]] = IF i = m THEN NULL ELSE d[i + 1]
                             /\ pre'[d[i]] = IF i = 1 THEN head ELSE d[i - 1]
    BY <1>12, <1>13, <1>14, <2>1, <2>2
  <2>5. Chain(m, d)'
    BY <2>3, <2>4 DEF Chain
  <2> QED
    BY <2>2, <2>5
<1> QED
  BY <1>1, <1>2, <1>8, <1>9, <1>11, <1>17

-----------------------------------------------------------------------------
\* A step that links nothing leaves the chain.
LEMMA SameChain ==
    ASSUME NEW n, NEW c, Chain(n, c), UNCHANGED <<next, pre, allocated>>
    PROVE  Chain(n, c)' /\ SeenAs(n, c)'
<1>1. Chain(n, c)'
  BY DEF Chain
<1> QED
  BY <1>1, NewChain

LEMMA InitKeeps == Init => ListInv
<1> SUFFICES ASSUME Init PROVE ListInv
  OBVIOUS
<1> USE HandleAssumption DEF Init
<1>1. TypeOK
  BY DEF TypeOK, Cells
<1>2. PICK c \in [1 .. 0 -> Nodes] : TRUE
  <2>1. [i \in 1 .. 0 |-> i] \in [1 .. 0 -> Nodes]
    OBVIOUS
  <2> QED
    BY <2>1
<1>3. next[head] = NULL /\ allocated = {}
  BY DEF Cells
<1>4. Chain(0, c)
  BY <1>2, <1>3 DEF Chain
<1>5. Chain(Length, Order)
  BY <1>4, ChainIsSeen
<1> QED
  BY <1>1, <1>3, <1>5 DEF ListInv

\* A new node holds the handle it was given, the others keep theirs.
LEMMA AddKeeps ==
    ASSUME ListInv, NEW h \in Handles, HandleManageAddHandle(h) \/ HandleManageAddHandle1(h)
    PROVE  ListInv'
<1>1. PICK n \in Nat : \E c \in [1 .. n -> Nodes] : Chain(n, c) /\ SeenAs(n, c)
  BY TheChain
<1>2. PICK c \in [1 .. n -> Nodes] : Chain(n, c) /\ SeenAs(n, c)
  BY <1>1
<1>3. PICK x \in Nodes \ allocated :
          /\ allocated' = allocated \cup {x}
          /\ handle' = [handle EXCEPT ![x] = h]
          /\ next' \in [Cells -> Nodes \cup {NULL}]
          /\ pre' \in [Cells -> Cells \cup {NULL}]
          /\ Chain(n + 1, AtEnd(n, c, x))' \/ Chain(n + 1, AtFront(n, c, x))'
  <2>1. CASE HandleManageAddHandle(h)
    BY <1>2, <2>1, AddedAtEnd
  <2>2. CASE HandleManageAddHandle1(h)
    BY <1>2, <2>2, AddedAtFront
  <2> QED
    BY <2>1, <2>2
<1>4. Chain(Length, Order)'
  BY <1>3, NewChain
<1>5. UNCHANGED <<selfMutex, cur, checked>> /\ selfMutex = NULL
  BY DEF HandleManageAddHandle, HandleManageAddHandle1, Unlocked
<1>6. TypeOK /\ x \in Cells
  BY DEF ListInv, Cells
<1>7. /\ handle' \in [Cells -> Handles \cup {NULL}]
      /\ handle'[x] = h /\ \A y \in Cells : y # x => handle'[y] = handle[y]
  BY <1>3, <1>6 DEF TypeOK
<1>8. TypeOK'
  BY <1>3, <1>5, <1>6, <1>7 DEF TypeOK
<1>9. \A y \in allocated' : handle'[y] \in Handles
  BY <1>3, <1>6, <1>7 DEF ListInv, TypeOK, Cells
<1>10. cur = NULL
  BY <1>5 DEF ListInv
<1> QED
  BY <1>4, <1>5, <1>8, <1>9, <1>10 DEF ListInv

\* A deletion: a node that holds the handle is unlinked, or there is none.
LEMMA DeletedFirst ==
    ASSUME ListInv, NEW n \in Nat, NEW c \in [1 .. n -> Nodes], Chain(n, c),
           NEW h \in Handles, HandleManageDelHandle(h)
    PROVE  \/ /\ \A i \in 1 .. n : handle[c[i]] # h
              /\ UNCHANGED <<next, pre, allocated>> /\ ret' = <<"DelHandle", KEY_FALSE>>
           \/ \E k \in 1 .. n : /\ handle[c[k]] = h /\ \A i \in 1 .. n : handle[c[i]] = h => k <= i
                                /\ Unlink(c[k]) /\ ret' = <<"DelHandle", KEY_TRUE>>
<1>1. \A i \in 1 .. n : c[i] # NULL
  BY HandleAssumption
<1>2. \/ FirstNode({h}) # NULL /\ Unlink(FirstNode({h})) /\ ret' = <<"DelHandle", KEY_TRUE>>
      \/ FirstNode({h}) = NULL /\ ret' = <<"DelHandle", KEY_FALSE>> /\ UNCHANGED <<next, pre, allocated>>
  BY DEF HandleManageDelHandle
<1>3. \/ FirstNode({h}) = NULL /\ \A i \in 1 .. n : handle[c[i]] \notin {h}
      \/ \E k \in 1 .. n : /\ FirstNode({h}) = c[k] /\ handle[c[k]] \in {h}
                           /\ \A i \in 1 .. n : handle[c[i]] \in {h} => k <= i
  BY FirstNodeIs
<1>4. CASE FirstNode({h}) = NULL
  <2>1. \A i \in 1 .. n : handle[c[i]] # h
    BY <1>1, <1>3, <1>4
  <2> QED
    BY <1>2, <1>4, <2>1
<1>5. CASE FirstNode({h}) # NULL
  <2>1. PICK k \in 1 .. n : /\ FirstNode({h}) = c[k] /\ handle[c[k]] = h
                            /\ \A i \in 1 .. n : handle[c[i]] = h => k <= i
    BY <1>3, <1>5
  <2>2. Unlink(c[k]) /\ ret' = <<"DelHandle", KEY_TRUE>>
    BY <1>2, <1>5, <2>1
  <2> QED
    BY <2>1, <2>2
<1> QED
  BY <1>4, <1>5

LEMMA DelKeeps ==
    ASSUME ListInv, NEW h \in Handles, HandleManageDelHandle(h)
    PROVE  ListInv'
<1>1. PICK n \in Nat : \E c \in [1 .. n -> Nodes] : Chain(n, c) /\ SeenAs(n, c)
  BY TheChain
<1>2. PICK c \in [1 .. n -> Nodes] : Chain(n, c) /\ SeenAs(n, c)
  BY <1>1
<1>3. UNCHANGED <<handle, selfMutex, cur, checked>> /\ selfMutex = NULL
  BY DEF HandleManageDelHandle, Unlocked
<1>4. /\ allocated' \subseteq allocated
      /\ next' \in [Cells -> Nodes \cup {NULL}]
      /\ pre' \in [Cells -> Cells \cup {NULL}]
      /\ Chain(Length, Order)'
  <2>1. CASE UNCHANGED <<next, pre, allocated>>
    BY <1>2, <2>1, SameChain, NewChain DEF ListInv, TypeOK
  <2>2. ASSUME NEW k \in 1 .. n, Unlink(c[k])
        PROVE  /\ allocated' \subseteq allocated
               /\ next' \in [Cells -> Nodes \cup {NULL}]
               /\ pre' \in [Cells -> Cells \cup {NULL}]
               /\ Chain(Length, Order)'
    <3>1. /\ allocated' = allocated \ {c[k]}
          /\ next' \in [Cells -> Nodes \cup {NULL}]
          /\ pre' \in [Cells -> Cells \cup {NULL}]
          /\ Chain(n - 1, Without(n, c, k))'
      BY <1>2, <2>2, Unlinked
    <3> QED
      BY <3>1, NewChain
  <2> QED
    BY <1>2, <2>1, <2>2, DeletedFirst
<1>5. TypeOK'
  BY <1>3, <1>4 DEF ListInv, TypeOK
<1>6. cur = NULL
  BY <1>3 DEF ListInv
<1> QED
  BY <1>3, <1>4, <1>5, <1>6 DEF ListInv

\* The calls that look at the list, and the steps of a loop.
LEMMA LookKeeps ==
    ASSUME ListInv,
           \/ HandleManageGetUsrCount
           \/ \E v \in Values : HandleManageGetHandleBy(v)
           \/ \E t \in Threads : \/ GetNextHandleChecks(t)
                                 \/ HandleManageGetNextHandle(t)
                                 \/ PostLoopBegins(t)
                                 \/ PostLoopCalls(t)
                                 \/ PostLoopEnds(t)
           \/ UNCHANGED vars
    PROVE  ListInv'
<1>1. PICK n \in Nat : \E c \in [1 .. n -> Nodes] : Chain(n, c) /\ SeenAs(n, c)
  BY TheChain
<1>2. PICK c \in [1 .. n -> Nodes] : Chain(n, c) /\ SeenAs(n, c)
  BY <1>1
<1>3. UNCHANGED <<next, pre, handle, allocated>>
  BY DEF HandleManageGetUsrCount, HandleManageGetHandleBy, GetNextHandleChecks,
         HandleManageGetNextHandle, PostLoopBegins, PostLoopCalls, PostLoopEnds, vars
<1>4. Chain(Length, Order)'
  BY <1>2, <1>3, SameChain, NewChain
<1>5. next[head] # NULL => next[head] \in allocated
  <2>1. n # 0 => 1 \in 1 .. n
    OBVIOUS
  <2> QED
    BY <1>2, <2>1 DEF Chain
<1>6. cur # NULL => next[cur] = NULL \/ next[cur] \in allocated
  <2> SUFFICES ASSUME cur # NULL PROVE next[cur] = NULL \/ next[cur] \in allocated
    OBVIOUS
  <2>1. cur \in allocated /\ cur \in Nodes
    BY DEF ListInv, TypeOK
  <2>2. PICK i \in 1 .. n : cur = c[i]
    BY <1>2, <2>1 DEF Chain
  <2>3. CASE i = n
    BY <1>2, <2>2, <2>3 DEF Chain
  <2>4. CASE i # n
    <3>1. i + 1 \in 1 .. n
      BY <2>4
    <3> QED
      BY <1>2, <2>2, <2>4, <3>1 DEF Chain
  <2> QED
    BY <2>3, <2>4
<1>7. /\ selfMutex' \in Threads \cup {NULL} /\ checked' \subseteq Threads
      /\ cur' = NULL \/ cur' \in allocated
      /\ selfMutex' = NULL => cur' = NULL
  BY <1>5, <1>6, HandleAssumption
  DEF ListInv, TypeOK, HandleManageGetUsrCount, HandleManageGetHandleBy, GetNextHandleChecks,
      HandleManageGetNextHandle, PostLoopBegins, PostLoopCalls, PostLoopEnds, vars, Unlocked
<1>8. TypeOK'
  BY <1>3, <1>7 DEF ListInv, TypeOK
<1> QED
  BY <1>3, <1>4, <1>7, <1>8 DEF ListInv

(***************************************************************************)
(* No call and no step of a loop breaks the chain.                         *)
(***************************************************************************)
THEOREM ListInvHolds == Spec => []ListInv
<1>1. ListInv /\ [Next]_vars => ListInv'
  BY AddKeeps, DelKeeps, LookKeeps DEF Next
<1> QED
  BY InitKeeps, <1>1, PTL DEF Spec

(***************************************************************************)
(* After any calls of any threads the nodes in use are the ones a walk     *)
(* along next meets, pre leads back from each of them, and a running       *)
(* HandleManagePostLoop stands on one of them: the links that              *)
(* HandleManageAddHandle, HandleManageAddHandle1 and HandleManageDelHandle *)
(* write one by one always make one chain.                                 *)
(***************************************************************************)
THEOREM WellLinkedHolds == Spec => []WellLinked
<1>1. ListInv => WellLinked
  <2> SUFFICES ASSUME ListInv PROVE WellLinked
    OBVIOUS
  <2>1. PICK n \in Nat : \E c \in [1 .. n -> Nodes] : Chain(n, c) /\ SeenAs(n, c)
    BY TheChain
  <2>2. PICK c \in [1 .. n -> Nodes] : Chain(n, c) /\ SeenAs(n, c)
    BY <2>1
  <2>3. Length = n /\ Order = c /\ LastCell = IF n = 0 THEN head ELSE c[n]
    BY <2>2 DEF SeenAs
  <2>4. /\ \A i, j \in 1 .. n : c[i] = c[j] => i = j
        /\ \A x \in Nodes : x \in allocated <=> \E i \in 1 .. n : x = c[i]
        /\ next[head] = IF n = 0 THEN NULL ELSE c[1]
        /\ \A i \in 1 .. n : /\ next[c[i]] = IF i = n THEN NULL ELSE c[i + 1]
                             /\ pre[c[i]] = IF i = 1 THEN head ELSE c[i - 1]
    BY <2>2 DEF Chain
  <2>5. TypeOK /\ allocated \subseteq Nodes /\ (cur # NULL => cur \in allocated)
    BY DEF ListInv, TypeOK
  <2>6. {c[i] : i \in 1 .. n} = allocated
    BY <2>4, <2>5
  <2>7. n = Cardinality(allocated)
    <3>1. IsFiniteSet(1 .. n) /\ Cardinality(1 .. n) = n
      BY FS_Interval
    <3>2. c \in Surjection(1 .. n, allocated) /\ c \in Injection(1 .. n, allocated)
      BY <2>4, <2>6 DEF Surjection, Injection, IsInjective
    <3> QED
      BY <3>1, <3>2, FS_Surjection
  <2>8. next[LastCell] = NULL
    BY <2>3, <2>4
  <2>9. cur # NULL => \E i \in 1 .. n : c[i] = cur
    BY <2>4, <2>5
  <2> QED
    BY <2>3, <2>4, <2>5, <2>6, <2>7, <2>8, <2>9 DEF WellLinked
<1> QED
  BY <1>1, ListInvHolds, PTL

-----------------------------------------------------------------------------
(***************************************************************************)
(* The list of HandleList that the chain stands for.                       *)
(***************************************************************************)
AList == [i \in 1 .. Length |-> handle[Order[i]]]
ALeft == IF cur = NULL THEN <<>>
         ELSE LET at == CHOOSE i \in 1 .. Length : Order[i] = cur
              IN  [i \in 1 .. Length - at + 1 |-> handle[Order[at + i - 1]]]

LEMMA AListIs ==
    ASSUME ListInv, NEW n \in Nat, NEW c \in [1 .. n -> Nodes], Chain(n, c)
    PROVE  /\ AList = [i \in 1 .. n |-> handle[c[i]]]
           /\ AList \in Seq(Handles) /\ Len(AList) = n
<1>1. Length = n /\ Order = c
  BY OrderIsChain DEF SeenAs
<1>2. AList = [i \in 1 .. n |-> handle[c[i]]]
  BY <1>1 DEF AList
<1>3. \A i \in 1 .. n : handle[c[i]] \in Handles
  BY DEF ListInv, Chain
<1>4. [i \in 1 .. n |-> handle[c[i]]] \in Seq(Handles)
  BY <1>3
<1>5. Len([i \in 1 .. n |-> handle[c[i]]]) = n
  BY <1>3
<1> QED
  BY <1>2, <1>4, <1>5

\* The same after a step, in terms of the chain that it has made.
LEMMA AListNext ==
    ASSUME NEW n, NEW c, Chain(n, c)'
    PROVE  AList' = [i \in 1 .. n |-> handle'[c[i]]]
<1>1. Length' = n /\ Order' = c
  BY NewChain DEF SeenAs
<1> QED
  BY <1>1 DEF AList

LEMMA AddLastStep ==
    ASSUME ListInv, NEW h \in Handles, HandleManageAddHandle(h)
    PROVE  Abstraction!AddLast(h)
<1>1. PICK n \in Nat : \E c \in [1 .. n -> Nodes] : Chain(n, c) /\ SeenAs(n, c)
  BY TheChain
<1>2. PICK c \in [1 .. n -> Nodes] : Chain(n, c) /\ SeenAs(n, c)
  BY <1>1
<1>3. PICK x \in Nodes \ allocated : /\ handle' = [handle EXCEPT ![x] = h]
                                     /\ Chain(n + 1, AtEnd(n, c, x))'
  BY <1>2, AddedAtEnd
<1>4. n < Cardinality(Nodes)
  <2>1. /\ n + 1 \in Nat /\ AtEnd(n, c, x) \in [1 .. n + 1 -> Nodes]
        /\ \A i, j \in 1 .. n + 1 : AtEnd(n, c, x)[i] = AtEnd(n, c, x)[j] => i = j
    BY <1>3 DEF Chain
  <2>2. Cardinality(Nodes) \in Nat /\ n + 1 <= Cardinality(Nodes)
    BY <2>1, ChainFits
  <2> QED
    BY <2>2
<1>5. /\ AList = [i \in 1 .. n |-> handle[c[i]]]
      /\ AList \in Seq(Handles) /\ Len(AList) = n
  BY <1>2, AListIs
<1>6. AList' = Append(AList, h)
  <2>1. \A i \in 1 .. n : c[i] # x
    BY <1>2 DEF Chain
  <2>2. AList' = [i \in 1 .. n + 1 |-> handle'[AtEnd(n, c, x)[i]]]
    BY <1>3, AListNext
  <2>3. \A i \in 1 .. n : handle'[c[i]] = handle[c[i]]
    BY <1>3, <2>1 DEF ListInv, TypeOK, Cells
  <2>4. handle'[x] = h
    BY <1>3 DEF ListInv, TypeOK, Cells
  <2>5. \A i \in 1 .. n + 1 : handle'[AtEnd(n, c, x)[i]] = IF i = n + 1 THEN h ELSE handle[c[i]]
    BY <2>3, <2>4 DEF AtEnd
  <2>6. Append(AList, h) = [i \in 1 .. n + 1 |-> IF i = n + 1 THEN h ELSE handle[c[i]]]
    BY <1>5
  <2> QED
    BY <2>2, <2>5, <2>6
<1>7. /\ UNCHANGED <<selfMutex, cur>> /\ selfMutex = NULL /\ cur = NULL
      /\ ret' = <<"AddHandle", KEY_TRUE>>
  BY DEF HandleManageAddHandle, Unlocked, ListInv
<1>8. ALeft = <<>> /\ ALeft' = <<>>
  BY <1>7 DEF ALeft
<1> QED
  BY <1>4, <1>5, <1>6, <1>7, <1>8 DEF Abstraction!AddLast, AList, ALeft, KEY_TRUE, Abstraction!KEY_TRUE


\* A sequence is the function of its elements.
LEMMA SequenceIs ==
    ASSUME NEW S, NEW s \in Seq(S), NEW n \in Nat, Len(s) = n,
           NEW f, f = [i \in 1 .. n |-> f[i]], \A i \in 1 .. n : s[i] = f[i]
    PROVE  s = f
<1>1. s \in [1 .. n -> S]
  BY LenProperties
<1>2. s = [i \in 1 .. n |-> s[i]]
  BY <1>1
<1> QED
  BY <1>2

LEMMA AddFirstStep ==
    ASSUME ListInv, NEW h \in Handles, HandleManageAddHandle1(h)
    PROVE  Abstraction!AddFirst(h)
<1>1. PICK n \in Nat : \E c \in [1 .. n -> Nodes] : Chain(n, c) /\ SeenAs(n, c)
  BY TheChain
<1>2. PICK c \in [1 .. n -> Nodes] : Chain(n, c) /\ SeenAs(n, c)
  BY <1>1
<1>3. PICK x \in Nodes \ allocated : /\ handle' = [handle EXCEPT ![x] = h]
                                     /\ Chain(n + 1, AtFront(n, c, x))'
  BY <1>2, AddedAtFront
<1>4. n < Cardinality(Nodes)
  <2>1. /\ n + 1 \in Nat /\ AtFront(n, c, x) \in [1 .. n + 1 -> Nodes]
        /\ \A i, j \in 1 .. n + 1 : AtFront(n, c, x)[i] = AtFront(n, c, x)[j] => i = j
    BY <1>3 DEF Chain
  <2>2. Cardinality(Nodes) \in Nat /\ n + 1 <= Cardinality(Nodes)
    BY <2>1, ChainFits
  <2> QED
    BY <2>2
<1>5. /\ AList = [i \in 1 .. n |-> handle[c[i]]]
      /\ AList \in Seq(Handles) /\ Len(AList) = n
  BY <1>2, AListIs
<1>6. AList' = <<h>> \o AList
  <2>1. \A i \in 1 .. n : c[i] # x
    BY <1>2 DEF Chain
  <2>2. AList' = [i \in 1 .. n + 1 |-> handle'[AtFront(n, c, x)[i]]]
    BY <1>3, AListNext
  <2>3. \A i \in 1 .. n : handle'[c[i]] = handle[c[i]]
    BY <1>3, <2>1 DEF ListInv, TypeOK, Cells
  <2>4. handle'[x] = h
    BY <1>3 DEF ListInv, TypeOK, Cells
  <2>5. \A i \in 1 .. n + 1 : handle'[AtFront(n, c, x)[i]] = IF i = 1 THEN h ELSE handle[c[i - 1]]
    <3> TAKE i \in 1 .. n + 1
    <3>1. AtFront(n, c, x)[i] = IF i = 1 THEN x ELSE c[i - 1]
      BY DEF AtFront
    <3>2. i # 1 => i - 1 \in 1 .. n
      OBVIOUS
    <3> QED
      BY <2>3, <2>4, <3>1, <3>2
  <2>6. /\ <<h>> \o AList \in Seq(Handles) /\ Len(<<h>> \o AList) = n + 1
        /\ \A i \in 1 .. n + 1 : (<<h>> \o AList)[i] = IF i = 1 THEN h ELSE AList[i - 1]
    <3>1. <<h>> \in Seq(Handles) /\ Len(<<h>>) = 1 /\ <<h>>[1] = h
      OBVIOUS
    <3> QED
      BY <1>5, <3>1, ConcatProperties
  <2>7. \A i \in 1 .. n + 1 : i # 1 => AList[i - 1] = handle[c[i - 1]]
    <3> TAKE i \in 1 .. n + 1
    <3>1. i # 1 => i - 1 \in 1 .. n
      OBVIOUS
    <3> QED
      BY <1>5, <3>1
  <2>8. <<h>> \o AList = [i \in 1 .. n + 1 |-> IF i = 1 THEN h ELSE handle[c[i - 1]]]
    <3> DEFINE f == [i \in 1 .. n + 1 |-> IF i = 1 THEN h ELSE handle[c[i - 1]]]
    <3>0. PICK s : s = <<h>> \o AList
      OBVIOUS
    <3>1. PICK m \in Nat : m = n + 1
      OBVIOUS
    <3>2. /\ s \in Seq(Handles) /\ Len(s) = m /\ f = [i \in 1 .. m |-> f[i]]
          /\ \A i \in 1 .. m : s[i] = f[i]
      BY <2>6, <2>7, <3>0, <3>1
    <3> HIDE DEF f
    <3>3. s = f
      BY <3>2, SequenceIs
    <3> QED
      BY <3>0, <3>3 DEF f
  <2> QED
    BY <2>2, <2>5, <2>8
<1>7. /\ UNCHANGED <<selfMutex, cur>> /\ selfMutex = NULL /\ cur = NULL
      /\ ret' = <<"AddHandle1", KEY_TRUE>>
  BY DEF HandleManageAddHandle1, Unlocked, ListInv
<1>8. ALeft = <<>> /\ ALeft' = <<>>
  BY <1>7 DEF ALeft
<1> QED
  BY <1>4, <1>5, <1>6, <1>7, <1>8
  DEF Abstraction!AddFirst, AList, ALeft, KEY_TRUE, Abstraction!KEY_TRUE

\* Where SelectInSeq finds the first element that is wanted.
LEMMA SelectIs ==
    ASSUME NEW m \in Nat, NEW I, I \subseteq 1 .. m, NEW k \in I, \A i \in I : k <= i
    PROVE  Abstraction!Min(I) = k
<1>1. \A x \in I : (\A y \in I : x <= y) => x = k
  BY SMT
<1> QED
  BY <1>1 DEF Abstraction!Min

\* RemoveFirst takes out the first element that is equal to e.
LEMMA RemoveFirstIs ==
    ASSUME NEW S, NEW l \in Seq(S), NEW n \in Nat, Len(l) = n,
           NEW k \in 1 .. n, NEW e, l[k] = e,
           \A i \in 1 .. n : l[i] = e => k <= i
    PROVE  Abstraction!RemoveFirst(l, e)
             = [j \in 1 .. n - 1 |-> IF j < k THEN l[j] ELSE l[j + 1]]
<1> DEFINE I == {i \in 1 .. Len(l) : l[i] = e}
           a == SubSeq(l, 1, k - 1)
           b == SubSeq(l, k + 1, Len(l))
<1>1. Abstraction!Min(I) = k
  <2>1. Len(l) \in Nat /\ I \subseteq 1 .. Len(l) /\ k \in I /\ \A i \in I : k <= i
    OBVIOUS
  <2> HIDE DEF I
  <2> QED
    BY <2>1, SelectIs
<1>2. Abstraction!SelectInSeq(l, LAMBDA v : v = e) = k
  BY <1>1 DEF Abstraction!SelectInSeq
<1>3. Abstraction!RemoveFirst(l, e) = a \o b
  BY <1>2 DEF Abstraction!RemoveFirst, Abstraction!RemoveAt
<1>4. \A j \in 1 .. Len(l) : l[j] \in S
  OBVIOUS
<1>5. Len(l) \in Nat /\ k \in Nat /\ 1 <= k /\ k <= Len(l)
  OBVIOUS
<1>6. a \in Seq(S) /\ Len(a) = k - 1 /\ \A j \in 1 .. k - 1 : a[j] = l[j]
  BY <1>4, <1>5, SubSeqProperties
<1>7. b \in Seq(S) /\ Len(b) = Len(l) - k /\ \A j \in 1 .. Len(l) - k : b[j] = l[k + j]
  BY <1>4, <1>5, SubSeqProperties
<1> HIDE DEF a, b, I
<1>8. /\ a \o b \in Seq(S) /\ Len(a \o b) = Len(l) - 1
      /\ \A j \in 1 .. Len(l) - 1 : (a \o b)[j] = IF j <= k - 1 THEN a[j] ELSE b[j - (k - 1)]
  <2>1. /\ a \o b \in Seq(S) /\ Len(a \o b) = Len(a) + Len(b)
        /\ \A j \in 1 .. Len(a) + Len(b) : (a \o b)[j] = IF j <= Len(a) THEN a[j] ELSE b[j - Len(a)]
    BY <1>6, <1>7, ConcatProperties
  <2>2. Len(a) + Len(b) = Len(l) - 1
    BY <1>5, <1>6, <1>7
  <2> QED
    BY <1>6, <2>1, <2>2
<1>9. \A j \in 1 .. Len(l) - 1 : (a \o b)[j] = IF j < k THEN l[j] ELSE l[j + 1]
  <2> TAKE j \in 1 .. Len(l) - 1
  <2>1. CASE j < k
    <3>1. j \in 1 .. k - 1 /\ j <= k - 1
      BY <1>5, <2>1
    <3> QED
      BY <1>6, <1>8, <2>1, <3>1
  <2>2. CASE ~(j < k)
    <3>1. j - (k - 1) \in 1 .. Len(l) - k /\ k + (j - (k - 1)) = j + 1 /\ ~(j <= k - 1)
      BY <1>5, <2>2
    <3> QED
      BY <1>7, <1>8, <2>2, <3>1
  <2> QED
    BY <2>1, <2>2
<1>10. PICK s : s = a \o b
  OBVIOUS
<1> DEFINE f == [j \in 1 .. Len(l) - 1 |-> IF j < k THEN l[j] ELSE l[j + 1]]
<1>11. PICK m \in Nat : m = Len(l) - 1
  BY <1>5
<1>12. s \in Seq(S) /\ Len(s) = m /\ f = [j \in 1 .. m |-> f[j]] /\ \A j \in 1 .. m : s[j] = f[j]
  BY <1>8, <1>9, <1>10, <1>11
<1> HIDE DEF f
<1>13. s = f
  BY <1>12, SequenceIs
<1> QED
  BY <1>3, <1>10, <1>13 DEF f

LEMMA DeleteStep ==
    ASSUME ListInv, NEW h \in Handles, HandleManageDelHandle(h)
    PROVE  Abstraction!Delete(h)
<1>1. PICK n \in Nat : \E c \in [1 .. n -> Nodes] : Chain(n, c) /\ SeenAs(n, c)
  BY TheChain
<1>2. PICK c \in [1 .. n -> Nodes] : Chain(n, c) /\ SeenAs(n, c)
  BY <1>1
<1>3. PICK l : l = AList
  OBVIOUS
<1>4. /\ l = [i \in 1 .. n |-> handle[c[i]]]
      /\ l \in Seq(Handles) /\ Len(l) = n
      /\ \A i \in 1 .. n : l[i] = handle[c[i]]
  BY <1>2, <1>3, AListIs
<1>5. /\ UNCHANGED <<handle, selfMutex, cur>> /\ selfMutex = NULL /\ cur = NULL
  BY DEF HandleManageDelHandle, Unlocked, ListInv
<1>6. ALeft = <<>> /\ ALeft' = <<>>
  BY <1>5 DEF ALeft
<1>7. h \in Abstraction!ToSet(l) <=> \E i \in 1 .. n : l[i] = h
  BY <1>4 DEF Abstraction!ToSet
<1>8. /\ AList' = Abstraction!RemoveFirst(l, h)
      /\ ret' = <<"DelHandle", IF h \in Abstraction!ToSet(l) THEN KEY_TRUE ELSE KEY_FALSE>>
  <2>1. CASE /\ \A i \in 1 .. n : handle[c[i]] # h
             /\ UNCHANGED <<next, pre, allocated>> /\ ret' = <<"DelHandle", KEY_FALSE>>
    <3>1. AList' = [i \in 1 .. n |-> handle'[c[i]]]
      BY <1>2, <2>1, SameChain, AListNext
    <3>2. ~(\E i \in 1 .. Len(l) : l[i] = h)
      BY <1>4, <2>1
    <3>3. Abstraction!RemoveFirst(l, h) = l
      BY <3>2 DEF Abstraction!RemoveFirst
    <3> QED
      BY <1>4, <1>5, <1>7, <2>1, <3>1, <3>2, <3>3
  <2>2. ASSUME NEW k \in 1 .. n,
               handle[c[k]] = h, \A i \in 1 .. n : handle[c[i]] = h => k <= i,
               Unlink(c[k]), ret' = <<"DelHandle", KEY_TRUE>>
        PROVE  /\ AList' = Abstraction!RemoveFirst(l, h)
               /\ ret' = <<"DelHandle", IF h \in Abstraction!ToSet(l) THEN KEY_TRUE ELSE KEY_FALSE>>
    <3>1. Chain(n - 1, Without(n, c, k))'
      BY <1>2, <2>2, Unlinked
    <3>2. AList' = [i \in 1 .. n - 1 |-> handle[Without(n, c, k)[i]]]
      BY <1>5, <3>1, AListNext
    <3>3. \A i \in 1 .. n - 1 : handle[Without(n, c, k)[i]] = IF i < k THEN l[i] ELSE l[i + 1]
      <4> TAKE i \in 1 .. n - 1
      <4>1. i \in 1 .. n /\ i + 1 \in 1 .. n
        OBVIOUS
      <4>2. Without(n, c, k)[i] = IF i < k THEN c[i] ELSE c[i + 1]
        BY DEF Without
      <4> QED
        BY <1>4, <4>1, <4>2
    <3>4. l[k] = h /\ \A i \in 1 .. n : l[i] = h => k <= i
      BY <1>4, <2>2
    <3>5. Abstraction!RemoveFirst(l, h) = [i \in 1 .. n - 1 |-> IF i < k THEN l[i] ELSE l[i + 1]]
      <4>1. l \in Seq(Handles) /\ Len(l) = n
        BY <1>4
      <4> QED
        BY <3>4, <4>1, RemoveFirstIs
    <3>6. h \in Abstraction!ToSet(l)
      BY <1>4, <1>7, <3>4
    <3> QED
      BY <2>2, <3>2, <3>3, <3>5, <3>6
  <2> QED
    BY <1>2, <2>1, <2>2, DeletedFirst
<1> QED
  BY <1>3, <1>5, <1>6, <1>8
  DEF Abstraction!Delete, AList, ALeft, KEY_TRUE, KEY_FALSE, Abstraction!KEY_TRUE, Abstraction!KEY_FALSE


\* A call that leaves list and loop alone.
LEMMA AbstractSame ==
    ASSUME ListInv, UNCHANGED <<next, pre, handle, allocated, selfMutex, cur>>
    PROVE  AList' = AList /\ ALeft' = ALeft
<1>1. PICK n \in Nat : \E c \in [1 .. n -> Nodes] : Chain(n, c) /\ SeenAs(n, c)
  BY TheChain
<1>2. PICK c \in [1 .. n -> Nodes] : Chain(n, c) /\ SeenAs(n, c)
  BY <1>1
<1>3. Length = n /\ Order = c /\ Length' = n /\ Order' = c
  BY <1>2, SameChain DEF SeenAs
<1> QED
  BY <1>3 DEF AList, ALeft

\* The first handle of the list is that of the first node.
LEMMA HeadIs ==
    ASSUME ListInv
    PROVE  IF next[head] = NULL THEN AList = <<>>
           ELSE AList # <<>> /\ Head(AList) = handle[next[head]]
<1>1. PICK n \in Nat : \E c \in [1 .. n -> Nodes] : Chain(n, c) /\ SeenAs(n, c)
  BY TheChain
<1>2. PICK c \in [1 .. n -> Nodes] : Chain(n, c) /\ SeenAs(n, c)
  BY <1>1
<1>3. /\ AList = [i \in 1 .. n |-> handle[c[i]]]
      /\ AList \in Seq(Handles) /\ Len(AList) = n
  BY <1>2, AListIs
<1>4. next[head] = IF n = 0 THEN NULL ELSE c[1]
  BY <1>2 DEF Chain
<1>5. CASE n = 0
  BY <1>3, <1>4, <1>5
<1>6. CASE n # 0
  <2>1. 1 \in 1 .. n
    BY <1>6
  <2>2. next[head] # NULL /\ AList[1] = handle[next[head]]
    BY <1>3, <1>4, <1>6, <2>1, HandleAssumption
  <2> QED
    BY <1>3, <1>6, <2>2
<1> QED
  BY <1>5, <1>6

LEMMA FirstStep ==
    ASSUME ListInv, NEW t \in Threads, GetNextHandleChecks(t) \/ HandleManageGetNextHandle(t)
    PROVE  Abstraction!First \/ UNCHANGED <<AList, ALeft, selfMutex, ret>>
<1>1. UNCHANGED <<next, pre, handle, allocated, selfMutex, cur>>
  BY DEF GetNextHandleChecks, HandleManageGetNextHandle
<1>2. AList' = AList /\ ALeft' = ALeft
  BY <1>1, AbstractSame
<1>3. CASE HandleManageGetNextHandle(t)
  <2>1. selfMutex = NULL
        /\ ret' = <<"GetNextHandle", IF next[head] = NULL THEN NULL ELSE handle[next[head]]>>
    BY <1>3 DEF HandleManageGetNextHandle, Unlocked
  <2>2. ret' = <<"GetNextHandle", IF AList = <<>> THEN NULL ELSE Head(AList)>>
    BY <2>1, HeadIs
  <2> QED
    BY <1>1, <1>2, <2>1, <2>2 DEF Abstraction!First, AList, ALeft
<1>4. CASE GetNextHandleChecks(t) /\ next[head] = NULL
  <2>1. ret' = <<"GetNextHandle", NULL>> /\ AList = <<>>
    BY <1>4, HeadIs DEF GetNextHandleChecks
  <2> QED
    BY <1>1, <1>2, <2>1 DEF Abstraction!First, AList, ALeft
<1>5. CASE GetNextHandleChecks(t) /\ next[head] # NULL
  BY <1>1, <1>2, <1>5 DEF GetNextHandleChecks
<1> QED
  BY <1>3, <1>4, <1>5

LEMMA CountStep ==
    ASSUME ListInv, HandleManageGetUsrCount
    PROVE  Abstraction!Count
<1>1. PICK n \in Nat : \E c \in [1 .. n -> Nodes] : Chain(n, c) /\ SeenAs(n, c)
  BY TheChain
<1>2. PICK c \in [1 .. n -> Nodes] : Chain(n, c) /\ SeenAs(n, c)
  BY <1>1
<1>3. Len(AList) = n /\ Length = n
  BY <1>2, AListIs DEF SeenAs
<1>4. /\ UNCHANGED <<next, pre, handle, allocated, selfMutex, cur>> /\ selfMutex = NULL
      /\ ret' = <<"GetUsrCount", Length>>
  BY DEF HandleManageGetUsrCount, Unlocked
<1>5. AList' = AList /\ ALeft' = ALeft
  BY <1>4, AbstractSame
<1> QED
  BY <1>3, <1>4, <1>5 DEF Abstraction!Count, AList, ALeft

LEMMA SearchStep ==
    ASSUME ListInv, NEW v \in Values, HandleManageGetHandleBy(v)
    PROVE  Abstraction!Search(v)
<1>1. PICK n \in Nat : \E c \in [1 .. n -> Nodes] : Chain(n, c) /\ SeenAs(n, c)
  BY TheChain
<1>2. PICK c \in [1 .. n -> Nodes] : Chain(n, c) /\ SeenAs(n, c)
  BY <1>1
<1> DEFINE wanted == {h \in Handles : Member[h] = v}
           I == {i \in 1 .. Len(AList) : Member[AList[i]] = v}
           found == Abstraction!SelectInSeq(AList, LAMBDA h : Member[h] = v)
<1>3. /\ UNCHANGED <<next, pre, handle, allocated, selfMutex, cur>> /\ selfMutex = NULL
      /\ ret' = <<"GetHandleBy",
                  IF FirstNode(wanted) = NULL THEN NULL ELSE handle[FirstNode(wanted)]>>
  BY DEF HandleManageGetHandleBy, Unlocked
<1>4. AList' = AList /\ ALeft' = ALeft
  BY <1>3, AbstractSame
<1>5. /\ Len(AList) = n
      /\ \A i \in 1 .. n : AList[i] = handle[c[i]] /\ AList[i] \in Handles
      /\ \A i \in 1 .. n : c[i] # NULL
  <2>1. /\ AList = [i \in 1 .. n |-> handle[c[i]]]
        /\ AList \in Seq(Handles) /\ Len(AList) = n
    BY <1>2, AListIs
  <2> QED
    BY <2>1, HandleAssumption
<1>6. found = IF I # {} THEN Abstraction!Min(I) ELSE 0
  BY DEF Abstraction!SelectInSeq
<1>7. I \subseteq 1 .. n /\ \A i \in 1 .. n : i \in I <=> handle[c[i]] \in wanted
  BY <1>5
<1>8. \/ FirstNode(wanted) = NULL /\ \A i \in 1 .. n : handle[c[i]] \notin wanted
      \/ \E k \in 1 .. n : /\ FirstNode(wanted) = c[k] /\ handle[c[k]] \in wanted
                           /\ \A i \in 1 .. n : handle[c[i]] \in wanted => k <= i
  BY <1>2, FirstNodeIs
<1> HIDE DEF wanted, I
<1>9. ret' = <<"GetHandleBy", IF found = 0 THEN NULL ELSE AList[found]>>
  <2> HIDE DEF found
  <2>1. CASE I = {}
    <3>1. FirstNode(wanted) = NULL /\ found = 0
      BY <1>6, <1>7, <1>8, <2>1
    <3> QED
      BY <1>3, <3>1
  <2>2. CASE I # {}
    <3>1. PICK k \in 1 .. n : /\ FirstNode(wanted) = c[k] /\ handle[c[k]] \in wanted
                              /\ \A i \in 1 .. n : handle[c[i]] \in wanted => k <= i
      BY <1>7, <1>8, <2>2
    <3>2. k \in I /\ \A i \in I : k <= i
      BY <1>7, <3>1
    <3>3. Abstraction!Min(I) = k
      BY <1>7, <3>2, SelectIs
    <3>4. found = k /\ k # 0
      BY <1>6, <2>2, <3>3
    <3> QED
      BY <1>3, <1>5, <3>1, <3>4
  <2> QED
    BY <2>1, <2>2
<1> QED
  BY <1>3, <1>4, <1>9 DEF Abstraction!Search, AList, ALeft


\* What a loop that stands on the k-th node has still to visit.
LeftFrom(n, c, k) == [i \in 1 .. n - k + 1 |-> handle[c[k + i - 1]]]

LEMMA PlaceIs ==
    ASSUME NEW n \in Nat, NEW c \in [1 .. n -> Nodes], NEW k \in 1 .. n,
           \A i, j \in 1 .. n : c[i] = c[j] => i = j, NEW x, x = c[k]
    PROVE  (CHOOSE i \in 1 .. n : c[i] = x) = k
  OBVIOUS

LEMMA ALeftIs ==
    ASSUME NEW n \in Nat, NEW c \in [1 .. n -> Nodes], Chain(n, c)
    PROVE  /\ cur = NULL => ALeft = <<>>
           /\ \A k \in 1 .. n : cur = c[k] => ALeft = LeftFrom(n, c, k)
<1>1. Length = n /\ Order = c
  BY OrderIsChain DEF SeenAs
<1>2. cur = NULL => ALeft = <<>>
  BY DEF ALeft
<1>3. ASSUME NEW k \in 1 .. n, cur = c[k]
      PROVE  ALeft = LeftFrom(n, c, k)
  <2>1. cur # NULL
    BY <1>3, HandleAssumption
  <2>2. /\ Length \in Nat /\ Order \in [1 .. Length -> Nodes] /\ k \in 1 .. Length
        /\ cur = Order[k] /\ \A i, j \in 1 .. Length : Order[i] = Order[j] => i = j
    BY <1>1, <1>3 DEF Chain
  <2>3. (CHOOSE i \in 1 .. Length : Order[i] = cur) = k
    BY <2>2, PlaceIs
  <2> DEFINE place   == CHOOSE i \in 1 .. Length : Order[i] = cur
             from(p) == [i \in 1 .. Length - p + 1 |-> handle[Order[p + i - 1]]]
  <2>4. ALeft = from(place)
    BY <2>1 DEF ALeft
  <2>5. ALeft = from(k)
    <3> HIDE DEF place, from
    <3>1. place = k
      BY <2>3 DEF place
    <3> QED
      BY <2>4, <3>1
  <2>6. ALeft = [i \in 1 .. n - k + 1 |-> handle[c[k + i - 1]]]
    BY <1>1, <2>5
  <2> QED
    BY <2>6 DEF LeftFrom
<1> QED
  BY <1>2, <1>3

\* The same after a step.
LEMMA ALeftKnown ==
    \A n \in Nat : \A c \in [1 .. n -> Nodes] :
        Chain(n, c) => /\ cur = NULL => ALeft = <<>>
                       /\ \A k \in 1 .. n : cur = c[k] => ALeft = LeftFrom(n, c, k)
  BY ALeftIs

LEMMA ALeftKnownNext ==
    (\A n \in Nat : \A c \in [1 .. n -> Nodes] :
        Chain(n, c) => /\ cur = NULL => ALeft = <<>>
                       /\ \A k \in 1 .. n : cur = c[k] => ALeft = LeftFrom(n, c, k))'
  BY ALeftKnown, PTL

LEMMA LoopBeginsStep ==
    ASSUME ListInv, NEW t \in Threads, PostLoopBegins(t)
    PROVE  Abstraction!LoopBegins
<1>1. PICK n \in Nat : \E c \in [1 .. n -> Nodes] : Chain(n, c) /\ SeenAs(n, c)
  BY TheChain
<1>2. PICK c \in [1 .. n -> Nodes] : Chain(n, c) /\ SeenAs(n, c)
  BY <1>1
<1>3. /\ UNCHANGED <<next, pre, handle, allocated, ret>> /\ selfMutex = NULL
      /\ selfMutex' = t /\ t # NULL /\ cur' = next[head]
  BY HandleAssumption DEF PostLoopBegins, Unlocked
<1>4. Chain(n, c)'
  BY <1>2, <1>3, SameChain
<1>5. AList = [i \in 1 .. n |-> handle[c[i]]] /\ AList' = [i \in 1 .. n |-> handle'[c[i]]]
  BY <1>2, <1>4, AListIs, AListNext
<1>6. AList' = AList
  BY <1>3, <1>5
<1>7. ALeft' = AList
  <2>1. next[head] = IF n = 0 THEN NULL ELSE c[1]
    BY <1>2 DEF Chain
  <2>2. CASE n = 0
    <3>1. cur' = NULL
      BY <1>3, <2>1, <2>2
    <3>2. ALeft' = <<>>
      BY <1>4, <3>1, ALeftKnownNext
    <3> QED
      BY <1>5, <2>2, <3>2
  <2>3. CASE n # 0
    <3>1. 1 \in 1 .. n /\ cur' = c[1]
      BY <1>3, <2>1, <2>3
    <3>2. ALeft' = LeftFrom(n, c, 1)'
      BY <1>4, <3>1, ALeftKnownNext
    <3>3. LeftFrom(n, c, 1)' = [i \in 1 .. n |-> handle[c[i]]]
      BY <1>3 DEF LeftFrom
    <3> QED
      BY <1>5, <3>2, <3>3
  <2> QED
    BY <2>2, <2>3
<1> QED
  BY <1>3, <1>6, <1>7 DEF Abstraction!LoopBegins, AList, ALeft

LEMMA LoopVisitsStep ==
    ASSUME ListInv, NEW t \in Threads, PostLoopCalls(t)
    PROVE  Abstraction!LoopVisits
<1>1. PICK n \in Nat : \E c \in [1 .. n -> Nodes] : Chain(n, c) /\ SeenAs(n, c)
  BY TheChain
<1>2. PICK c \in [1 .. n -> Nodes] : Chain(n, c) /\ SeenAs(n, c)
  BY <1>1
<1>3. /\ UNCHANGED <<next, pre, handle, allocated, selfMutex>>
      /\ cur # NULL /\ cur' = next[cur] /\ ret' = <<"LoopDoFunc", handle[cur]>>
  BY DEF PostLoopCalls
<1>4. Chain(n, c)'
  BY <1>2, <1>3, SameChain
<1>5. AList' = AList
  <2>1. AList = [i \in 1 .. n |-> handle[c[i]]] /\ AList' = [i \in 1 .. n |-> handle'[c[i]]]
    BY <1>2, <1>4, AListIs, AListNext
  <2> QED
    BY <1>3, <2>1
<1>6. PICK k \in 1 .. n : cur = c[k]
  BY <1>2, <1>3 DEF ListInv, TypeOK, Chain
<1>7. next[cur] = IF k = n THEN NULL ELSE c[k + 1]
  BY <1>2, <1>6 DEF Chain
<1>8. PICK l : l = LeftFrom(n, c, k)
  OBVIOUS
<1>9. ALeft = l
  BY <1>2, <1>6, <1>8, ALeftIs
<1>10. \A i \in 1 .. n : handle[c[i]] \in Handles
  BY <1>2 DEF ListInv, Chain
<1>11. /\ l \in Seq(Handles) /\ Len(l) = n - k + 1
       /\ \A i \in 1 .. n - k + 1 : l[i] = handle[c[k + i - 1]]
  <2>1. \A i \in 1 .. n - k + 1 : k + i - 1 \in 1 .. n
    OBVIOUS
  <2>2. PICK m \in Nat : m = n - k + 1
    OBVIOUS
  <2>3. l = [i \in 1 .. m |-> handle[c[k + i - 1]]] /\ \A i \in 1 .. m : handle[c[k + i - 1]] \in Handles
    BY <1>8, <1>10, <2>1, <2>2 DEF LeftFrom
  <2>4. l \in Seq(Handles) /\ Len(l) = m
    BY <2>3
  <2> QED
    BY <2>2, <2>3, <2>4
<1>12. l # <<>> /\ Head(l) = handle[cur]
  <2>1. 1 \in 1 .. n - k + 1 /\ k + 1 - 1 = k
    OBVIOUS
  <2>2. l[1] = handle[cur]
    BY <1>6, <1>11, <2>1
  <2> QED
    BY <1>11, <2>1, <2>2
<1>13. ALeft' = Tail(l)
  <2>1. /\ Tail(l) \in Seq(Handles) /\ Len(Tail(l)) = n - k
        /\ \A i \in 1 .. n - k : Tail(l)[i] = l[i + 1]
    BY <1>11, <1>12, HeadTailProperties
  <2>2. CASE k = n
    <3>1. cur' = NULL
      BY <1>3, <1>7, <2>2
    <3>2. ALeft' = <<>>
      BY <1>4, <3>1, ALeftKnownNext
    <3>3. Len(Tail(l)) = 0
      BY <2>1, <2>2
    <3> QED
      BY <2>1, <3>2, <3>3, EmptySeq
  <2>3. CASE k # n
    <3>1. k + 1 \in 1 .. n /\ cur' = c[k + 1]
      BY <1>3, <1>7, <2>3
    <3>2. ALeft' = LeftFrom(n, c, k + 1)'
      BY <1>4, <3>1, ALeftKnownNext
    <3> DEFINE f == [i \in 1 .. n - k |-> handle[c[k + i]]]
    <3>3. LeftFrom(n, c, k + 1)' = f
      <4>1. n - (k + 1) + 1 = n - k /\ \A i \in 1 .. n - k : (k + 1) + i - 1 = k + i
        OBVIOUS
      <4>2. LeftFrom(n, c, k + 1)' = [i \in 1 .. n - (k + 1) + 1 |-> handle[c[(k + 1) + i - 1]]]
        BY <1>3 DEF LeftFrom
      <4> QED
        BY <4>1, <4>2
    <3>4. \A i \in 1 .. n - k : Tail(l)[i] = f[i]
      <4> TAKE i \in 1 .. n - k
      <4>1. i + 1 \in 1 .. n - k + 1 /\ k + (i + 1) - 1 = k + i
        OBVIOUS
      <4> QED
        BY <1>11, <2>1, <4>1
    <3>5. f = [i \in 1 .. n - k |-> f[i]]
      OBVIOUS
    <3> HIDE DEF f
    <3>6. PICK m \in Nat : m = n - k
      OBVIOUS
    <3>7. PICK s : s = Tail(l)
      OBVIOUS
    <3>8. /\ s \in Seq(Handles) /\ Len(s) = m
          /\ f = [i \in 1 .. m |-> f[i]] /\ \A i \in 1 .. m : s[i] = f[i]
      BY <2>1, <3>4, <3>5, <3>6, <3>7
    <3>9. s = f
      BY <3>8, SequenceIs
    <3> QED
      BY <3>2, <3>3, <3>7, <3>9
  <2> QED
    BY <2>2, <2>3
<1> QED
  BY <1>3, <1>5, <1>9, <1>12, <1>13 DEF Abstraction!LoopVisits, AList, ALeft

LEMMA LoopEndsStep ==
    ASSUME ListInv, NEW t \in Threads, PostLoopEnds(t)
    PROVE  Abstraction!LoopEnds
<1>1. PICK n \in Nat : \E c \in [1 .. n -> Nodes] : Chain(n, c) /\ SeenAs(n, c)
  BY TheChain
<1>2. PICK c \in [1 .. n -> Nodes] : Chain(n, c) /\ SeenAs(n, c)
  BY <1>1
<1>3. /\ UNCHANGED <<next, pre, handle, allocated, cur>>
      /\ selfMutex = t /\ t # NULL /\ cur = NULL /\ selfMutex' = NULL
      /\ ret' = <<"PostLoop", KEY_TRUE>>
  BY HandleAssumption DEF PostLoopEnds
<1>4. ALeft = <<>> /\ ALeft' = <<>>
  BY <1>3 DEF ALeft
<1>5. AList' = AList
  <2>1. Chain(n, c)'
    BY <1>2, <1>3, SameChain
  <2>2. AList = [i \in 1 .. n |-> handle[c[i]]] /\ AList' = [i \in 1 .. n |-> handle'[c[i]]]
    BY <1>2, <2>1, AListIs, AListNext
  <2> QED
    BY <1>3, <2>2
<1> QED
  BY <1>3, <1>4, <1>5 DEF Abstraction!LoopEnds, AList, ALeft, KEY_TRUE, Abstraction!KEY_TRUE

LEMMA AbstractInit == Init => Abstraction!Init
<1> SUFFICES ASSUME Init PROVE Abstraction!Init
  OBVIOUS
<1>1. ListInv
  BY InitKeeps
<1>2. next[head] = NULL /\ cur = NULL /\ selfMutex = NULL /\ ret = <<"InitHead", KEY_TRUE>>
  BY DEF Init, Cells
<1>3. AList = <<>> /\ ALeft = <<>>
  BY <1>1, <1>2, HeadIs DEF ALeft
<1> QED
  BY <1>2, <1>3 DEF Abstraction!Init, AList, ALeft, KEY_TRUE, Abstraction!KEY_TRUE

LEMMA AbstractStep == ListInv /\ [Next]_vars => [Abstraction!Next]_(Abstraction!listVars)
<1> SUFFICES ASSUME ListInv, [Next]_vars
             PROVE  Abstraction!Next \/ UNCHANGED <<AList, ALeft, selfMutex # NULL, ret>>
  BY DEF Abstraction!listVars, AList, ALeft
<1>1. ASSUME NEW h \in Handles, \/ HandleManageAddHandle(h)
                                \/ HandleManageAddHandle1(h)
                                \/ HandleManageDelHandle(h)
      PROVE  Abstraction!Next
  BY <1>1, AddLastStep, AddFirstStep, DeleteStep DEF Abstraction!Next
<1>2. CASE HandleManageGetUsrCount
  BY <1>2, CountStep DEF Abstraction!Next
<1>3. ASSUME NEW v \in Values, HandleManageGetHandleBy(v)
      PROVE  Abstraction!Next
  BY <1>3, SearchStep DEF Abstraction!Next
<1>4. ASSUME NEW t \in Threads, GetNextHandleChecks(t) \/ HandleManageGetNextHandle(t)
      PROVE  Abstraction!Next \/ UNCHANGED <<AList, ALeft, selfMutex # NULL, ret>>
  BY <1>4, FirstStep DEF Abstraction!Next
<1>5. ASSUME NEW t \in Threads, PostLoopBegins(t) \/ PostLoopCalls(t) \/ PostLoopEnds(t)
      PROVE  Abstraction!Next
  BY <1>5, LoopBeginsStep, LoopVisitsStep, LoopEndsStep DEF Abstraction!Next
<1>6. CASE UNCHANGED vars
  <2>1. UNCHANGED <<next, pre, handle, allocated, selfMutex, cur, ret>>
    BY <1>6 DEF vars
  <2> QED
    BY <2>1, AbstractSame
<1> QED
  BY <1>1, <1>2, <1>3, <1>4, <1>5, <1>6 DEF Next

(***************************************************************************)
(* HandleManage is the list that its users think of: every call, with the  *)
(* result it returns and the order in which a loop visits the handles, is  *)
(* one of HandleList's, for any number of nodes.                           *)
(***************************************************************************)
THEOREM HandleListImplemented == Spec => ImplementsHandleList
  BY InitKeeps, AbstractInit, AbstractStep, ListInvHolds, PTL
  DEF Spec, ImplementsHandleList, Abstraction!Spec
-----------------------------------------------------------------------------
(***************************************************************************)
(* The users: the inductive invariant UsrInv of UsrManage.                 *)
(***************************************************************************)

CallVars == [on : SUBSET Names, info : Blocks \cup {NoBlock}, usr : UsrInfos \cup {NoInfo},
             old : Passwords \cup {NoPass}, level : Levels \cup {ENUM_USRLEVEL_Invalid}]

\* The blocks that the list or a call has the address of.
Live == InList \cup ({local[t].info : t \in Workers} \ {NoBlock})

\* What the variables of a call hold when it goes on at label.
CallOK(label, c) ==
    /\ label = "idle" => c = NoCall
    /\ label # "idle" => c.on # {} /\ c.usr \in UsrInfos
    /\ label = "createid" => c.info = NoBlock
    /\ label \notin {"idle", "createid"} => c.info \in Blocks
    /\ label \in {"memcpy", "restore"} => c.old \in Passwords /\ c.level \in Levels

Typed ==
    /\ UsrTypeOK
    /\ list \in Seq(Blocks)
    /\ \A k, l \in DOMAIN list : list[k] = list[l] => k = l
    /\ usrInfo \in [Blocks -> UsrInfos \cup {NoInfo}]
    /\ \A b \in Live : usrInfo[b] \in UsrInfos
    /\ local \in [Workers -> CallVars]
    /\ \A t \in Workers : CallOK(pc[t], local[t])
    /\ ~up => list = << >> /\ disturbed = {} /\ \A t \in Workers : pc[t] = "idle"

\* A block that is not in the list yet is known to the one call that made it.
Fresh ==
    \A t, u \in Workers :
        pc[t] = "add" => /\ local[t].info \notin InList
                         /\ pc[u] = "add" /\ local[u].info = local[t].info => t = u

\* The ids that CreateUsrid has made are below the number of calls that have been there.
Creating == {t \in Workers : pc[t] = "createid"}
Made == calls - Cardinality(Creating)

Bounded ==
    /\ IsFiniteSet(Creating)
    /\ lastId <= Made
    /\ \A b \in Live : usrInfo[b].usrID < Made
    /\ \A n \in Names : table[n] # NoRow => table[n].usrID < Made
    /\ \A t \in Workers : pc[t] \notin {"idle", "createid"} => local[t].usr.usrID < Made

\* Calls that overlap are disturbed, with all users they work on.
Clean(t) == local[t].on \cap disturbed = {}

Closed ==
    /\ \A t \in Workers : Clean(t) \/ local[t].on \subseteq disturbed
    /\ \A t, u \in Workers : t # u /\ Clean(t) => local[t].on \cap local[u].on = {}

\* The users that a call can change.
Reach(t) == IF Clean(t) THEN local[t].on ELSE disturbed

\* What holds of ids and blocks.
Owned ==
    /\ \A n \in DefaultUsrs : table[n] # NoRow
    /\ \A n, m \in Names :
        table[n] # NoRow /\ table[m] # NoRow /\ table[n].usrID = table[m].usrID => n = m
    /\ \A b, c \in Live : usrInfo[b].usrID = usrInfo[c].usrID => b = c
    /\ \A t \in Workers : local[t].info # NoBlock =>
        \/ local[t].info \in InList
        \/ pc[t] = "add"
        \/ \E u \in Workers : pc[u] = "delcb" /\ local[u].info = local[t].info
    /\ \A t, u \in Workers :
        pc[t] = "add" /\ local[u].info = local[t].info => t = u
    /\ \A t, u \in Workers :
        pc[t] = "addcb" /\ pc[u] = "addcb" /\ local[u].info = local[t].info => t = u
    /\ \A t, u \in Workers : pc[t] = "add" /\ pc[u] = "add" => t = u
    /\ \A t \in Workers : pc[t] \notin {"idle", "createid"} =>
        local[t].usr.usrID = usrInfo[local[t].info].usrID
    /\ up => \A n \in Names : table[n] # NoRow =>
        \E b \in Live : usrInfo[b].usrID = table[n].usrID
    /\ \A t \in Workers, n \in Names :
        pc[t] \in {"add", "addcb"} /\ table[n] # NoRow =>
            table[n].usrID # usrInfo[local[t].info].usrID

\* No call goes beyond its users, nor does a row with the id of its block.
Confined ==
    /\ \A t \in Workers :
        /\ pc[t] # "idle" => local[t].usr.usrname \in Reach(t)
        /\ local[t].info # NoBlock => usrInfo[local[t].info].usrname \in Reach(t)
    /\ \A b \in Live, n \in Names :
        table[n] # NoRow /\ table[n].usrID = usrInfo[b].usrID =>
            \/ n = usrInfo[b].usrname
            \/ n \in disturbed
            \/ \E t \in Workers : pc[t] = "bindcb" /\ local[t].info = b /\ n \in local[t].on

Named(n) == {b \in InList : usrInfo[b].usrname = n}

\* List and table say the same of user n.
Agree(n) ==
    /\ \A b \in Named(n) : table[n] # NoRow /\ usrInfo[b] = UsrInfo(n, table[n])
    /\ table[n] # NoRow => Named(n) # {}

Only(n, b) == Named(n) = {b} /\ table[n] # NoRow

SameUser(usr, n, row) ==
    usr.usrname = n /\ usr.usrID = row.usrID /\ usr.userLevel = row.userLevel

\* What list and table say of the users of a call that is not disturbed.
Ready(t) ==
    LET c == local[t]
        b == c.info
        n == c.usr.usrname
    IN  /\ pc[t] \notin {"idle", "bind", "bindcb"} => c.on = {n}
        /\ pc[t] \in {"createid", "add"} => Named(n) = {} /\ table[n] = NoRow
        /\ pc[t] \in {"add", "addcb"} => usrInfo[b] = c.usr
        /\ pc[t] = "addcb" => Named(n) = {b} /\ table[n] = NoRow
        /\ pc[t] \in {"password", "memcpy", "del"} =>
            Only(n, b) /\ usrInfo[b] = UsrInfo(n, table[n])
        /\ pc[t] \in {"memcpy", "restore"} =>
            c.old = table[n].passWord /\ c.level = table[n].userLevel
        /\ pc[t] = "restore" =>
            Only(n, b) /\ usrInfo[b] = c.usr /\ c.usr.usrID = table[n].usrID
        /\ pc[t] = "compose" =>
            /\ Only(n, b) /\ SameUser(usrInfo[b], n, table[n])
            /\ usrInfo[b].passWord = table[n].passWord
        /\ pc[t] = "setcb" =>
            Only(n, b) /\ usrInfo[b] = c.usr /\ SameUser(c.usr, n, table[n])
        /\ pc[t] = "bind" =>
            \E o \in c.on : /\ c.on = {o, n}
                            /\ Only(o, b) /\ usrInfo[b] = UsrInfo(o, table[o])
                            /\ o # n /\ table[n] = NoRow => Named(n) = {}
        /\ pc[t] = "bindcb" =>
            \E o \in c.on : /\ c.on = {o, n}
                            /\ table[o] # NoRow
                            /\ b \in InList /\ usrInfo[b] = c.usr
                            /\ c.usr = UsrInfo(n, table[o])
                            /\ o = n \/ table[n] = NoRow => Named(n) = {b}
                            /\ o # n => Named(o) = {}

Agreed ==
    /\ up => \A n \in Names : Quiet(n) => Agree(n)
    /\ \A t \in Workers : Clean(t) => Ready(t)

Confirmed ==
    \A n \in Names : acked[n] # NoPass => Quiet(n) /\ table[n].passWord = acked[n]

UsrInv ==
    /\ Typed
    /\ Fresh
    /\ Bounded
    /\ Closed
    /\ ~idRisk => Owned /\ Confined /\ Agreed /\ Confirmed
-----------------------------------------------------------------------------
LEMMA ConstFacts ==
    /\ Cardinality(Names) \in Nat /\ Cardinality(DefaultUsrs) \in Nat
    /\ Cardinality(DefaultUsrs) <= Cardinality(Names)
    /\ IsFiniteSet(DefaultUsrs)
    /\ NoBlock \notin Blocks /\ Blocks \subseteq Nat
    /\ Ids \subseteq Int /\ \A k \in 0 .. MaxCalls : k \in Ids
    /\ Levels \subseteq Nat /\ 0 \notin Levels
<1>1. IsFiniteSet(Names) /\ DefaultUsrs \in SUBSET Names
  BY UsrAssumption
<1>2. /\ Cardinality(Names) \in Nat
      /\ IsFiniteSet(DefaultUsrs) /\ Cardinality(DefaultUsrs) <= Cardinality(Names)
  BY <1>1, FS_Subset, FS_CardinalityType
<1>3. Cardinality(DefaultUsrs) \in Nat
  BY <1>2, FS_CardinalityType
<1> QED
  BY <1>2, <1>3, UsrAssumption DEF NoBlock, Blocks, Ids, ENUM_USRLEVEL_Invalid, ENUM_USRLEVEL_ROOT

\* A row is not NoRow, and is what the user's block says.
LEMMA RowFacts ==
    /\ NoRow \notin Rows
    /\ \A r \in Rows : /\ r.passWord \in Passwords /\ r.userLevel \in Levels
                       /\ r.usrID \in Ids /\ r.customname \in Customs
                       /\ \A n \in Names : UsrInfo(n, r) \in UsrInfos
    /\ \A u \in UsrInfos : /\ RowOf(u) \in Rows /\ UsrInfo(u.usrname, RowOf(u)) = u
                           /\ u.usrname \in Names /\ u.passWord \in Passwords
                           /\ u.userLevel \in Levels /\ u.usrID \in Ids
                           /\ u.customname \in Customs
<1>1. NoRow \notin Rows
  BY ConstFacts DEF NoRow, Rows, ENUM_USRLEVEL_Invalid
<1> QED
  BY <1>1 DEF Rows, UsrInfos, UsrInfo, RowOf

\* SetToSeq lists a finite set, each element once.
LEMMA SetToSeqIs ==
    ASSUME NEW S, IsFiniteSet(S)
    PROVE  /\ SetToSeq(S) \in Seq(S)
           /\ DOMAIN SetToSeq(S) = 1 .. Cardinality(S)
           /\ \A k, l \in DOMAIN SetToSeq(S) : SetToSeq(S)[k] = SetToSeq(S)[l] => k = l
           /\ \A x \in S : \E k \in DOMAIN SetToSeq(S) : SetToSeq(S)[k] = x
<1> DEFINE n == Cardinality(S)
           f == SetToSeq(S)
<1>1. n \in Nat /\ ExistsBijection(1 .. n, S)
  BY FS_CardinalityType
<1>2. PICK g \in [1 .. n -> S] : IsInjective(g)
  BY <1>1 DEF ExistsBijection, Bijection, Injection, IsInjective
<1>3. f \in [1 .. n -> S] /\ IsInjective(f)
  BY <1>2 DEF SetToSeq
<1> HIDE DEF f
<1>4. f \in Injection(1 .. n, S)
  BY <1>3 DEF IsInjective, Injection
<1>5. IsFiniteSet(1 .. n) /\ Cardinality(1 .. n) = n
  BY <1>1, FS_Interval
<1>6. f \in Surjection(1 .. n, S)
  BY <1>4, <1>5, FS_Injection
<1>7. f \in Seq(S)
  BY <1>1, <1>3
<1> QED
  BY <1>3, <1>6, <1>7 DEF IsInjective, Surjection, f

LEMMA NullIsNothing ==
    ASSUME NEW b \in Blocks
    PROVE  b # NoBlock
  BY ConstFacts
-----------------------------------------------------------------------------
(* The list. *)

\* The blocks of the list are those of the sequence.
LEMMA ListBlocks ==
    ASSUME Typed
    PROVE  /\ InList \subseteq Blocks
           /\ \A k \in DOMAIN list : list[k] \in InList
           /\ DOMAIN list \subseteq Nat
  BY DEF Typed, InList

\* HandleManageGetHandleByStr finds a block with the name if there is one.
LEMMA Lookup ==
    ASSUME Typed, NEW n
    PROVE  /\ GetHandleByStr(n) = NoBlock <=> Named(n) = {}
           /\ GetHandleByStr(n) # NoBlock => GetHandleByStr(n) \in Named(n)
<1> DEFINE found == {k \in DOMAIN list : usrInfo[list[k]].usrname = n}
<1>1. found \subseteq Nat /\ InList \subseteq Blocks /\ \A k \in DOMAIN list : list[k] \in InList
  BY ListBlocks
<1>2. CASE found = {}
  <2>1. GetHandleByStr(n) = NoBlock
    BY <1>2 DEF GetHandleByStr
  <2>2. Named(n) = {}
    BY <1>2 DEF Named, InList
  <2> QED
    BY <2>1, <2>2
<1>3. CASE found # {}
  <2>1. \E k \in found : \A l \in found : k <= l
    BY <1>1, <1>3, LeastExists
  <2> DEFINE k == CHOOSE k \in found : \A l \in found : k <= l
  <2>2. k \in found
    BY <2>1
  <2>3. GetHandleByStr(n) = list[k]
    BY <1>3 DEF GetHandleByStr
  <2> HIDE DEF k
  <2>4. list[k] \in Named(n) /\ list[k] \in Blocks
    BY <1>1, <2>2 DEF Named
  <2> QED
    BY <2>3, <2>4, ConstFacts
<1> QED
  BY <1>2, <1>3

LEMMA ListAppend ==
    ASSUME Typed, NEW b \in Blocks, b \notin InList, list' = Append(list, b)
    PROVE  /\ list' \in Seq(Blocks)
           /\ \A k, l \in DOMAIN list' : list'[k] = list'[l] => k = l
           /\ InList' = InList \cup {b}
<1>1. list \in Seq(Blocks) /\ \A k, l \in DOMAIN list : list[k] = list[l] => k = l
  BY DEF Typed
<1> DEFINE a == Append(list, b)
<1>2. /\ a \in Seq(Blocks) /\ DOMAIN a = 1 .. Len(list) + 1 /\ DOMAIN list = 1 .. Len(list)
      /\ Len(list) \in Nat
      /\ a[Len(list) + 1] = b /\ \A k \in 1 .. Len(list) : a[k] = list[k]
  BY <1>1
<1>3. \A k \in DOMAIN list : list[k] # b
  BY DEF InList
<1>4. a = list'
  OBVIOUS
<1> HIDE DEF a
<1>5. {a[k] : k \in DOMAIN a} = InList \cup {b}
  BY <1>2 DEF InList
<1>6. \A k, m \in DOMAIN a : a[k] = a[m] => k = m
  BY <1>1, <1>2, <1>3
<1> QED
  BY <1>2, <1>4, <1>5, <1>6 DEF InList

LEMMA ListRemoveAt ==
    ASSUME NEW S, NEW l \in Seq(S), NEW k \in 1 .. Len(l)
    PROVE  /\ RemoveAt(l, k) \in Seq(S)
           /\ Len(RemoveAt(l, k)) = Len(l) - 1
           /\ \A j \in 1 .. Len(l) - 1 :
                  RemoveAt(l, k)[j] = IF j < k THEN l[j] ELSE l[j + 1]
<1> DEFINE a == SubSeq(l, 1, k - 1)
           b == SubSeq(l, k + 1, Len(l))
<1>1. \A j \in 1 .. Len(l) : l[j] \in S
  OBVIOUS
<1>2. Len(l) \in Nat /\ k \in Nat /\ 1 <= k /\ k <= Len(l)
  OBVIOUS
<1>3. a \in Seq(S) /\ Len(a) = k - 1 /\ \A j \in 1 .. k - 1 : a[j] = l[j]
  BY <1>1, <1>2, SubSeqProperties
<1>4. b \in Seq(S) /\ Len(b) = Len(l) - k /\ \A j \in 1 .. Len(l) - k : b[j] = l[k + j]
  BY <1>1, <1>2, SubSeqProperties
<1>5. RemoveAt(l, k) = a \o b
  BY DEF RemoveAt
<1> HIDE DEF a, b
<1>6. /\ a \o b \in Seq(S)
      /\ Len(a \o b) = Len(l) - 1
      /\ \A j \in 1 .. Len(l) - 1 : (a \o b)[j] = IF j < k THEN a[j] ELSE b[j - (k - 1)]
  <2>1. /\ a \o b \in Seq(S) /\ Len(a \o b) = Len(a) + Len(b)
        /\ \A j \in 1 .. Len(a) + Len(b) : (a \o b)[j] = IF j <= Len(a) THEN a[j] ELSE b[j - Len(a)]
    BY <1>3, <1>4, ConcatProperties
  <2>2. Len(a) + Len(b) = Len(l) - 1
    BY <1>2, <1>3, <1>4
  <2>3. \A j \in 1 .. Len(l) - 1 : j <= Len(a) <=> j < k
    BY <1>2, <1>3
  <2> QED
    BY <1>3, <2>1, <2>2, <2>3
<1>7. \A j \in 1 .. Len(l) - 1 : (a \o b)[j] = IF j < k THEN l[j] ELSE l[j + 1]
  <2> TAKE j \in 1 .. Len(l) - 1
  <2>1. CASE j < k
    BY <1>2, <1>3, <1>6, <2>1
  <2>2. CASE ~(j < k)
    <3>1. j - (k - 1) \in 1 .. Len(l) - k /\ k + (j - (k - 1)) = j + 1
      BY <1>2, <2>2
    <3> QED
      BY <1>2, <1>4, <1>6, <2>2, <3>1
  <2> QED
    BY <2>1, <2>2
<1> QED
  BY <1>5, <1>6, <1>7

LEMMA ListRemoveFirst ==
    ASSUME NEW S, NEW l \in Seq(S), NEW e \in ToSet(l),
           \A k, m \in DOMAIN l : l[k] = l[m] => k = m
    PROVE  /\ RemoveFirst(l, e) \in Seq(S)
           /\ ToSet(RemoveFirst(l, e)) = ToSet(l) \ {e}
           /\ \A k, m \in DOMAIN RemoveFirst(l, e) :
                  RemoveFirst(l, e)[k] = RemoveFirst(l, e)[m] => k = m
<1> DEFINE I == {i \in 1 .. Len(l) : l[i] = e}
<1>1. Len(l) \in Nat /\ DOMAIN l = 1 .. Len(l)
  OBVIOUS
<1>2. I # {} /\ I \subseteq Nat
  BY <1>1 DEF ToSet
<1>3. \E i \in 1 .. Len(l) : l[i] = e
  BY <1>2
<1>4. PICK p \in I : RemoveFirst(l, e) = RemoveAt(l, p)
  <2>1. \E i \in I : \A j \in I : i <= j
    BY <1>2, LeastExists
  <2>2. SelectInSeq(l, LAMBDA v : v = e) \in I
    BY <1>2, <2>1 DEF SelectInSeq, Min
  <2> QED
    BY <1>3, <2>2 DEF RemoveFirst
<1>5. p \in 1 .. Len(l) /\ l[p] = e /\ p \in Nat
  BY <1>2
<1> DEFINE r == RemoveAt(l, p)
<1>6. r \in Seq(S) /\ Len(r) = Len(l) - 1 /\ \A j \in 1 .. Len(l) - 1 : r[j] = IF j < p THEN l[j] ELSE l[j + 1]
  BY <1>5, ListRemoveAt
<1>7. DOMAIN r = 1 .. Len(l) - 1
  BY <1>6
<1> HIDE DEF r, I
<1>8. ASSUME NEW k \in DOMAIN r, NEW m \in DOMAIN r, r[k] = r[m] PROVE k = m
  <2> DEFINE At(j) == IF j < p THEN j ELSE j + 1
  <2>1. At(k) \in DOMAIN l /\ At(m) \in DOMAIN l /\ r[k] = l[At(k)] /\ r[m] = l[At(m)]
    BY <1>1, <1>5, <1>6, <1>7
  <2>2. At(k) = At(m)
    BY <1>8, <2>1
  <2> QED
    BY <1>1, <1>5, <1>7, <2>2
<1>9. \A j \in DOMAIN r : \E k \in DOMAIN l : r[j] = l[k] /\ l[k] # e
  BY <1>1, <1>5, <1>6, <1>7
<1>10. ASSUME NEW k \in DOMAIN l, l[k] # e PROVE \E j \in DOMAIN r : r[j] = l[k]
  <2>1. CASE k < p
    BY <1>1, <1>5, <1>6, <1>7, <2>1
  <2>2. CASE k > p
    <3>1. k - 1 \in DOMAIN r /\ r[k - 1] = l[k]
      BY <1>1, <1>5, <1>6, <1>7, <2>2
    <3> QED
      BY <3>1
  <2> QED
    BY <1>1, <1>5, <1>10, <2>1, <2>2
<1>11. ToSet(r) = ToSet(l) \ {e}
  BY <1>9, <1>10 DEF ToSet
<1> QED
  BY <1>4, <1>6, <1>8, <1>11 DEF r

LEMMA ListRemove ==
    ASSUME Typed, NEW b \in InList, list' = RemoveFirst(list, b)
    PROVE  /\ list' \in Seq(Blocks)
           /\ \A k, l \in DOMAIN list' : list'[k] = list'[l] => k = l
           /\ InList' = InList \ {b}
<1>1. list \in Seq(Blocks) /\ \A k, l \in DOMAIN list : list[k] = list[l] => k = l
  BY DEF Typed
<1>2. InList = ToSet(list) /\ InList' = ToSet(list')
  BY DEF InList, ToSet
<1> QED
  BY <1>1, <1>2, ListRemoveFirst
-----------------------------------------------------------------------------
(* The steps of calls. *)

\* Thread t goes on at label with the variables c.
Goes(t, label, c) ==
    /\ pc' = [pc EXCEPT ![t] = label]
    /\ local' = [local EXCEPT ![t] = c]

LEMMA GoesFacts ==
    ASSUME Typed, NEW t \in Workers, NEW label, NEW c, Goes(t, label, c)
    PROVE  /\ pc'[t] = label /\ local'[t] = c
           /\ \A u \in Workers : u # t => pc'[u] = pc[u] /\ local'[u] = local[u]
           /\ label \in Labels => pc' \in [Workers -> Labels]
           /\ c \in CallVars => local' \in [Workers -> CallVars]
  BY DEF Goes, Typed, UsrTypeOK

\* The variables of calls.
LEMMA CallFacts ==
    ASSUME Typed, NEW t \in Workers
    PROVE  /\ local[t] \in CallVars /\ CallOK(pc[t], local[t]) /\ pc[t] \in Labels
           /\ local[t].on \subseteq Names /\ local[t].info \in Blocks \cup {NoBlock}
           /\ pc[t] # "idle" => up /\ local[t].on # {} /\ local[t].usr \in UsrInfos
           /\ pc[t] \notin {"idle", "createid"} =>
                /\ local[t].info \in Blocks /\ local[t].info # NoBlock
                /\ local[t].info \in Live /\ usrInfo[local[t].info] \in UsrInfos
           /\ pc[t] = "idle" => local[t] = NoCall /\ local[t].on = {} /\ local[t].info = NoBlock
           /\ pc[t] = "createid" => local[t].info = NoBlock
<1>1. local[t] \in CallVars /\ CallOK(pc[t], local[t]) /\ pc[t] \in Labels
  BY DEF Typed, UsrTypeOK
<1>2. local[t].on \subseteq Names /\ local[t].info \in Blocks \cup {NoBlock}
  BY <1>1 DEF CallVars
<1>3. pc[t] # "idle" => up /\ local[t].on # {} /\ local[t].usr \in UsrInfos
  BY <1>1 DEF Typed, CallOK
<1>4. ASSUME pc[t] \notin {"idle", "createid"}
      PROVE  /\ local[t].info \in Blocks /\ local[t].info # NoBlock
             /\ local[t].info \in Live /\ usrInfo[local[t].info] \in UsrInfos
  <2>1. local[t].info \in Blocks /\ local[t].info # NoBlock
    BY <1>1, <1>4, ConstFacts DEF CallOK
  <2>2. local[t].info \in Live
    BY <2>1 DEF Live
  <2> QED
    BY <2>1, <2>2 DEF Typed
<1>5. pc[t] = "idle" => local[t] = NoCall /\ local[t].on = {} /\ local[t].info = NoBlock
  BY <1>1 DEF CallOK, NoCall
<1> QED
  BY <1>1, <1>2, <1>3, <1>4, <1>5 DEF CallOK

LEMMA NoCallTyped == NoCall \in CallVars /\ CallOK("idle", NoCall)
  BY DEF NoCall, CallVars, CallOK

\* What a step has to show.
LEMMA TypedStep ==
    ASSUME Typed, NEW t \in Workers, NEW label \in Labels, NEW c \in CallVars,
           Goes(t, label, c), CallOK(label, c), up, up' = up,
           list' \in Seq(Blocks), \A k, l \in DOMAIN list' : list'[k] = list'[l] => k = l,
           usrInfo' \in [Blocks -> UsrInfos \cup {NoInfo}],
           InList' \subseteq InList \cup ({c.info} \ {NoBlock}),
           c.info # NoBlock => usrInfo'[c.info] \in UsrInfos,
           \A b \in Blocks : usrInfo'[b] = usrInfo[b] \/ usrInfo'[b] \in UsrInfos,
           table' \in [Names -> Rows \cup {NoRow}],
           usrMutex' \in [Blocks -> Workers \cup {Nobody}],
           lastId' \in 0 .. MaxCalls, calls' \in 0 .. MaxCalls, crashes' = crashes,
           disturbed' \subseteq Names, acked' \in [Names -> Passwords \cup {NoPass}],
           idRisk' \in BOOLEAN
    PROVE  Typed'
<1>1. /\ pc'[t] = label /\ local'[t] = c
      /\ \A u \in Workers : u # t => pc'[u] = pc[u] /\ local'[u] = local[u]
      /\ pc' \in [Workers -> Labels] /\ local' \in [Workers -> CallVars]
  BY GoesFacts
<1>2. \A u \in Workers : CallOK(pc'[u], local'[u])
  BY <1>1 DEF Typed
<1>3. /\ InList \subseteq Blocks /\ InList' \subseteq Blocks
      /\ \A u \in Workers : local[u].info \in Blocks \cup {NoBlock}
  <2>1. InList' \subseteq Blocks
    BY DEF InList
  <2> QED
    BY <2>1, ListBlocks, CallFacts
<1>4. ASSUME NEW b \in Live' PROVE usrInfo'[b] \in UsrInfos
  <2>1. b \in Live \/ (b = c.info /\ b # NoBlock)
    <3>1. CASE b \in InList'
      BY <3>1 DEF Live
    <3>2. CASE \E u \in Workers : b = local'[u].info /\ b # NoBlock
      BY <1>1, <3>2 DEF Live
    <3> QED
      BY <3>1, <3>2 DEF Live
  <2>2. CASE b \in Live
    BY <1>3, <2>2 DEF Live, Typed
  <2> QED
    BY <2>1, <2>2
<1>5. UsrTypeOK'
  <2>1. \A u \in Workers : local'[u] \in CallVars
    BY <1>1
  <2>2. \A u \in Workers : /\ local'[u].on \subseteq Names
                           /\ local'[u].info \in Blocks \cup {NoBlock}
                           /\ local'[u].usr \in UsrInfos \cup {NoInfo}
                           /\ local'[u].old \in Passwords \cup {NoPass}
                           /\ local'[u].level \in Levels \cup {ENUM_USRLEVEL_Invalid}
    BY <2>1 DEF CallVars
  <2>3. \A b \in InList' : usrInfo'[b] \in UsrInfos
    BY <1>4 DEF Live
  <2> QED
    BY <1>1, <1>3, <2>2, <2>3 DEF Typed, UsrTypeOK
<1>6. ~up' => list' = << >> /\ disturbed' = {} /\ \A u \in Workers : pc'[u] = "idle"
  OBVIOUS
<1> QED
  BY <1>1, <1>2, <1>4, <1>5, <1>6 DEF Typed

\* Thread t begins a call with the variables c.
Opens(t, label, c) ==
    /\ Begin(t, label, c.on, c.info, c.usr, c.old, c.level)
    /\ UNCHANGED <<table, up, usrListVars, lastId, crashes, idRisk>>
    /\ c \in CallVars /\ CallOK(label, c)
    /\ label \in {"createid", "password", "memcpy", "bind", "del"}
    /\ label = "createid" => Named(c.usr.usrname) = {}
    /\ label # "createid" => c.info \in InList /\ c.usr.usrID = usrInfo[c.info].usrID
    /\ label # "bind" => c.on = {c.usr.usrname}
    /\ label = "bind" => c.on = {usrInfo[c.info].usrname, c.usr.usrname}
    /\ label \notin {"createid", "bind"} => usrInfo[c.info].usrname = c.usr.usrname
    /\ label = "memcpy" => /\ c.old = usrInfo[c.info].passWord
                           /\ c.level = usrInfo[c.info].userLevel

LEMMA AddUsrOpens ==
    ASSUME Typed, NEW t \in Workers, NEW n \in Names, NEW p \in Passwords, NEW l \in Levels,
           AddUsr(t, n, p, l)
    PROVE  \E label, c : Opens(t, label, c)
<1> DEFINE usr == [usrname |-> n, passWord |-> p, userLevel |-> l,
                   usrID |-> 0, customname |-> NoCustom]
           c == [on |-> {n}, info |-> NoBlock, usr |-> usr, old |-> NoPass,
                 level |-> ENUM_USRLEVEL_Invalid]
<1>1. usr \in UsrInfos
  BY ConstFacts, UsrAssumption DEF UsrInfos
<1>2. c \in CallVars
  BY <1>1 DEF CallVars
<1>3. CallOK("createid", c)
  BY <1>1 DEF CallOK
<1>4. Named(n) = {}
  BY Lookup DEF AddUsr
<1>5. Opens(t, "createid", c)
  BY <1>2, <1>3, <1>4 DEF Opens, AddUsr
<1> QED
  BY <1>5

\* A call for a user whom the list has.
LEMMA FoundFacts ==
    ASSUME Typed, NEW n \in Names, GetHandleByStr(n) # NoBlock
    PROVE  LET b == GetHandleByStr(n)
           IN  b \in InList /\ b \in Blocks /\ usrInfo[b] \in UsrInfos /\ usrInfo[b].usrname = n
<1>1. GetHandleByStr(n) \in Named(n)
  BY Lookup
<1> QED
  BY <1>1, ListBlocks DEF Named, Typed, Live

LEMMA PasswordOpens ==
    ASSUME Typed, NEW t \in Workers, NEW n \in Names, NEW p \in Passwords \cup {NoPass},
           NEW q \in Passwords, GetHandleByStr(n) # NoBlock,
           Begin(t, "password", {n}, GetHandleByStr(n),
                 [usrInfo[GetHandleByStr(n)] EXCEPT !.passWord = q], p, ENUM_USRLEVEL_Invalid),
           UNCHANGED <<table, up, usrListVars, lastId, crashes, idRisk>>
    PROVE  \E label, c : Opens(t, label, c)
<1> DEFINE b == GetHandleByStr(n)
           usr == [usrInfo[b] EXCEPT !.passWord = q]
           c == [on |-> {n}, info |-> b, usr |-> usr, old |-> p,
                 level |-> ENUM_USRLEVEL_Invalid]
<1>1. b \in InList /\ b \in Blocks /\ usrInfo[b] \in UsrInfos /\ usrInfo[b].usrname = n
  BY FoundFacts
<1>2. usr \in UsrInfos /\ usr.usrname = n /\ usr.usrID = usrInfo[b].usrID
  BY <1>1 DEF UsrInfos
<1> HIDE DEF usr, b
<1>3. c \in CallVars
  BY <1>1, <1>2 DEF CallVars
<1>4. CallOK("password", c)
  BY <1>1, <1>2 DEF CallOK
<1>5. Opens(t, "password", c)
  BY <1>1, <1>2, <1>3, <1>4 DEF Opens, b, usr
<1> QED
  BY <1>5

LEMMA ModifyOpens ==
    ASSUME Typed, NEW t \in Workers, NEW n \in Names, NEW p \in Passwords, NEW l \in Levels,
           NEW m \in Customs, ModifyUsrInfo(t, n, p, l, m)
    PROVE  \E label, c : Opens(t, label, c)
<1> DEFINE b == GetHandleByStr(n)
           usr == [usrInfo[b] EXCEPT !.passWord = p, !.userLevel = l, !.customname = m]
           c == [on |-> {n}, info |-> b, usr |-> usr, old |-> usrInfo[b].passWord,
                 level |-> usrInfo[b].userLevel]
<1>1. b \in InList /\ b \in Blocks /\ usrInfo[b] \in UsrInfos /\ usrInfo[b].usrname = n
  BY FoundFacts DEF ModifyUsrInfo
<1>2. /\ usr \in UsrInfos /\ usr.usrname = n /\ usr.usrID = usrInfo[b].usrID
      /\ usrInfo[b].passWord \in Passwords /\ usrInfo[b].userLevel \in Levels
  BY <1>1 DEF UsrInfos
<1>3. /\ Begin(t, "memcpy", {n}, b, usr, usrInfo[b].passWord, usrInfo[b].userLevel)
      /\ UNCHANGED <<table, up, usrListVars, lastId, crashes, idRisk>>
  BY DEF ModifyUsrInfo
<1> HIDE DEF usr, b
<1>4. c \in CallVars
  BY <1>1, <1>2 DEF CallVars
<1>5. CallOK("memcpy", c)
  BY <1>1, <1>2 DEF CallOK
<1>6. Opens(t, "memcpy", c)
  BY <1>1, <1>2, <1>3, <1>4, <1>5 DEF Opens
<1> QED
  BY <1>6

LEMMA RenameOpens ==
    ASSUME Typed, NEW t \in Workers, NEW n \in Names, NEW m \in Names,
           ModifyUsrBindInfo(t, n, m)
    PROVE  \E label, c : Opens(t, label, c)
<1> DEFINE b == GetHandleByStr(n)
           usr == [usrInfo[b] EXCEPT !.usrname = m]
           c == [on |-> {n, m}, info |-> b, usr |-> usr, old |-> NoPass,
                 level |-> ENUM_USRLEVEL_Invalid]
<1>1. b \in InList /\ b \in Blocks /\ usrInfo[b] \in UsrInfos /\ usrInfo[b].usrname = n
  BY FoundFacts DEF ModifyUsrBindInfo
<1>2. usr \in UsrInfos /\ usr.usrname = m /\ usr.usrID = usrInfo[b].usrID
  BY <1>1 DEF UsrInfos
<1>3. /\ Begin(t, "bind", {n, m}, b, usr, NoPass, ENUM_USRLEVEL_Invalid)
      /\ UNCHANGED <<table, up, usrListVars, lastId, crashes, idRisk>>
  BY DEF ModifyUsrBindInfo
<1> HIDE DEF usr, b
<1>4. c \in CallVars
  BY <1>1, <1>2 DEF CallVars
<1>5. CallOK("bind", c)
  BY <1>1, <1>2 DEF CallOK
<1>6. Opens(t, "bind", c)
  BY <1>1, <1>2, <1>3, <1>4, <1>5 DEF Opens
<1> QED
  BY <1>6

LEMMA DelOpens ==
    ASSUME Typed, NEW t \in Workers, NEW n \in Names, DelUsr(t, n)
    PROVE  \E label, c : Opens(t, label, c)
<1> DEFINE b == GetHandleByStr(n)
           c == [on |-> {n}, info |-> b, usr |-> usrInfo[b], old |-> NoPass,
                 level |-> ENUM_USRLEVEL_Invalid]
<1>1. b \in InList /\ b \in Blocks /\ usrInfo[b] \in UsrInfos /\ usrInfo[b].usrname = n
  BY FoundFacts DEF DelUsr
<1>3. /\ Begin(t, "del", {n}, b, usrInfo[b], NoPass, ENUM_USRLEVEL_Invalid)
      /\ UNCHANGED <<table, up, usrListVars, lastId, crashes, idRisk>>
  BY DEF DelUsr
<1> HIDE DEF b
<1>4. c \in CallVars
  BY <1>1 DEF CallVars
<1>5. CallOK("del", c)
  BY <1>1 DEF CallOK
<1>6. Opens(t, "del", c)
  BY <1>1, <1>3, <1>4, <1>5 DEF Opens
<1> QED
  BY <1>6

\* Thread t changes its block, or copies it.
Edits(t, label, usr, new) ==
    LET b == local[t].info
    IN  /\ Goes(t, label, [local[t] EXCEPT !.usr = usr])
        /\ usrInfo' = [usrInfo EXCEPT ![b] = new]
        /\ usrMutex' \in [Blocks -> Workers \cup {Nobody}]
        /\ UNCHANGED <<table, up, list, lastId, calls, crashes, usrHistVars>>
        /\ <<pc[t], label>> \in {<<"password", "setcb">>, <<"memcpy", "restore">>,
                                 <<"restore", "compose">>, <<"compose", "setcb">>,
                                 <<"bind", "bindcb">>}
        /\ usr \in UsrInfos /\ new \in UsrInfos
        /\ pc[t] = "password" => new = [usrInfo[b] EXCEPT !.passWord = local[t].usr.passWord]
        /\ pc[t] = "memcpy" => new = local[t].usr
        /\ pc[t] = "restore" => new = [usrInfo[b] EXCEPT !.userLevel = local[t].level,
                                                         !.passWord = local[t].old]
        /\ pc[t] = "compose" => new = usrInfo[b]
        /\ pc[t] = "bind" => new = [usrInfo[b] EXCEPT !.usrname = local[t].usr.usrname]
        /\ usr = IF pc[t] \in {"memcpy", "restore"} THEN local[t].usr ELSE new

\* It puts its new block into the list, or takes its block off.
Adds(t) ==
    /\ pc[t] = "add"
    /\ Goes(t, "addcb", local[t])
    /\ list' = Append(list, local[t].info)
    /\ UNCHANGED <<table, up, usrInfo, usrMutex, lastId, calls, crashes, usrHistVars>>

Removes(t) ==
    /\ pc[t] = "del"
    /\ local[t].info \in InList
    /\ Goes(t, "delcb", local[t])
    /\ list' = RemoveFirst(list, local[t].info)
    /\ UNCHANGED <<table, up, usrInfo, usrMutex, lastId, calls, crashes, usrHistVars>>

\* It returns.
Returns(t) ==
    /\ Goes(t, "idle", NoCall)
    /\ UNCHANGED <<up, usrListVars, lastId, calls, crashes>>

Refuses(t) ==
    /\ Returns(t)
    /\ pc[t] = "password" \/ (pc[t] = "del" /\ local[t].info \notin InList)
    /\ UNCHANGED <<table, usrHistVars>>

Fails(t) ==
    /\ Returns(t)
    /\ pc[t] \in {"addcb", "setcb", "bindcb"}
    /\ disturbed' = disturbed \cup local[t].on
    /\ UNCHANGED <<table, acked, idRisk>>

Confirms(t) ==
    /\ Returns(t)
    /\ acked' = [acked EXCEPT ![local[t].usr.usrname] =
                    IF local[t].on \cap disturbed = {} THEN local[t].usr.passWord ELSE @]
    /\ UNCHANGED disturbed

Inserts(t) ==
    LET usr == usrInfo[local[t].info]
    IN  /\ pc[t] = "addcb" /\ Confirms(t)
        /\ table[usr.usrname] = NoRow
        /\ table' = [table EXCEPT ![usr.usrname] = RowOf(usr)]
        /\ UNCHANGED idRisk

Updates(t) ==
    LET usr == local[t].usr
    IN  /\ pc[t] = "setcb" /\ Confirms(t)
        /\ table' = [n \in Names |-> IF n = usr.usrname /\ table[n] # NoRow
                                     THEN SetUsrInfo(table[n], usr) ELSE table[n]]
        /\ UNCHANGED idRisk

\* The rows that a new name is for.
RowsWithId(id) == {n \in Names : table[n] # NoRow /\ table[n].usrID = id}

RenamesNone(t) ==
    /\ pc[t] = "bindcb" /\ Confirms(t)
    /\ RowsWithId(local[t].usr.usrID) = {}
    /\ UNCHANGED <<table, idRisk>>

Renames(t, old) ==
    LET usr == local[t].usr
    IN  /\ pc[t] = "bindcb" /\ Confirms(t)
        /\ RowsWithId(usr.usrID) = {old}
        /\ usr.usrname # old => table[usr.usrname] = NoRow
        /\ table' = [n \in Names |-> IF n = usr.usrname THEN table[old]
                                     ELSE IF n = old THEN NoRow ELSE table[n]]
        /\ idRisk' = (idRisk \/ old \in DefaultUsrs \ {usr.usrname})

LEMMA LocalSame ==
    ASSUME Typed, NEW t \in Workers
    PROVE  /\ local = [local EXCEPT ![t] = local[t]]
           /\ local[t] = [local[t] EXCEPT !.usr = local[t].usr]
<1>1. local \in [Workers -> CallVars] /\ local[t] \in CallVars
  BY DEF Typed
<1>2. local = [local EXCEPT ![t] = local[t]]
  BY <1>1
<1>3. local[t] = [local[t] EXCEPT !.usr = local[t].usr]
  BY <1>1 DEF CallVars
<1> QED
  BY <1>2, <1>3

LEMMA GoesSame ==
    ASSUME Typed, NEW t \in Workers, NEW label, local' = local, pc' = [pc EXCEPT ![t] = label]
    PROVE  Goes(t, label, local[t]) /\ Goes(t, label, [local[t] EXCEPT !.usr = local[t].usr])
  BY LocalSame, Zenon DEF Goes

LEMMA WritePasswordIs ==
    ASSUME Typed, NEW t \in Workers, WritePassword(t)
    PROVE  (\E label, usr, new : Edits(t, label, usr, new)) \/ Refuses(t)
<1> DEFINE b == local[t].info
           new == [usrInfo[b] EXCEPT !.passWord = local[t].usr.passWord]
<1>1. pc[t] = "password" /\ b \in Blocks /\ usrInfo[b] \in UsrInfos /\ local[t].usr \in UsrInfos
  BY CallFacts DEF WritePassword
<1>2. new \in UsrInfos
  BY <1>1 DEF UsrInfos
<1>3. CASE local[t].old \in {NoPass, usrInfo[b].passWord}
  <2>1. /\ usrInfo' = [usrInfo EXCEPT ![b] = new]
        /\ pc' = [pc EXCEPT ![t] = "setcb"] /\ local' = [local EXCEPT ![t].usr = new]
        /\ UNCHANGED <<table, up, list, lastId, calls, crashes, usrHistVars, usrMutex>>
    BY <1>3 DEF WritePassword, Continue, usrHistVars
  <2>2. Goes(t, "setcb", [local[t] EXCEPT !.usr = new])
    BY <2>1 DEF Goes
  <2>3. usrMutex' \in [Blocks -> Workers \cup {Nobody}]
    BY <2>1 DEF Typed, UsrTypeOK
  <2>4. Edits(t, "setcb", new, new)
    BY <1>1, <1>2, <2>1, <2>2, <2>3 DEF Edits
  <2> QED
    BY <2>4
<1>4. CASE local[t].old \notin {NoPass, usrInfo[b].passWord}
  BY <1>1, <1>4 DEF WritePassword, Refuse, Refuses, Returns, Goes, usrListVars, usrHistVars
<1> QED
  BY <1>3, <1>4

LEMMA MemcpyIs ==
    ASSUME Typed, NEW t \in Workers, Memcpy(t)
    PROVE  \E label, usr, new : Edits(t, label, usr, new)
<1> DEFINE b == local[t].info
<1>1. pc[t] = "memcpy" /\ b \in Blocks /\ local[t].usr \in UsrInfos
  BY CallFacts DEF Memcpy
<1>2. Goes(t, "restore", [local[t] EXCEPT !.usr = local[t].usr])
  BY GoesSame DEF Memcpy
<1>3. usrMutex' \in [Blocks -> Workers \cup {Nobody}]
  BY <1>1 DEF Typed, UsrTypeOK, Memcpy
<1>4. Edits(t, "restore", local[t].usr, local[t].usr)
  BY <1>1, <1>2, <1>3 DEF Edits, Memcpy
<1> QED
  BY <1>4

LEMMA RestoreIs ==
    ASSUME Typed, NEW t \in Workers, Restore(t)
    PROVE  \E label, usr, new : Edits(t, label, usr, new)
<1> DEFINE b == local[t].info
           new == [usrInfo[b] EXCEPT !.userLevel = local[t].level, !.passWord = local[t].old]
<1>1. /\ pc[t] = "restore" /\ b \in Blocks /\ local[t].usr \in UsrInfos
      /\ usrInfo[b] \in UsrInfos /\ CallOK(pc[t], local[t])
  BY CallFacts DEF Restore
<1>2. Goes(t, "compose", [local[t] EXCEPT !.usr = local[t].usr])
  BY GoesSame DEF Restore
<1>3. usrMutex' \in [Blocks -> Workers \cup {Nobody}]
  BY <1>1 DEF Typed, UsrTypeOK, Restore
<1>4. new \in UsrInfos
  BY <1>1 DEF UsrInfos, CallOK
<1>5. usrInfo' = [usrInfo EXCEPT ![b] = new]
  BY DEF Restore
<1>6. UNCHANGED <<table, up, list, lastId, calls, crashes, usrHistVars>>
  BY DEF Restore
<1> HIDE DEF new
<1>7. Edits(t, "compose", local[t].usr, new)
  BY <1>1, <1>2, <1>3, <1>4, <1>5, <1>6 DEF Edits, new
<1> QED
  BY <1>7

LEMMA ComposeIs ==
    ASSUME Typed, NEW t \in Workers, Compose(t)
    PROVE  \E label, usr, new : Edits(t, label, usr, new)
<1> DEFINE b == local[t].info
<1>1. pc[t] = "compose" /\ b \in Blocks /\ usrInfo[b] \in UsrInfos
  BY CallFacts DEF Compose
<1>2. Goes(t, "setcb", [local[t] EXCEPT !.usr = usrInfo[b]])
  BY DEF Compose, Continue, Goes
<1>3. usrMutex' \in [Blocks -> Workers \cup {Nobody}]
  BY <1>1 DEF Typed, UsrTypeOK, Compose, usrListVars
<1>4. usrInfo' = [usrInfo EXCEPT ![b] = usrInfo[b]]
  BY <1>1 DEF Compose, usrListVars, Typed
<1>5. Edits(t, "setcb", usrInfo[b], usrInfo[b])
  BY <1>1, <1>2, <1>3, <1>4 DEF Edits, Compose, usrListVars
<1> QED
  BY <1>5

LEMMA BindIs ==
    ASSUME Typed, NEW t \in Workers, Bind(t)
    PROVE  \E label, usr, new : Edits(t, label, usr, new)
<1> DEFINE b == local[t].info
           new == [usrInfo[b] EXCEPT !.usrname = local[t].usr.usrname]
<1>1. pc[t] = "bind" /\ b \in Blocks /\ usrInfo[b] \in UsrInfos /\ local[t].usr \in UsrInfos
  BY CallFacts DEF Bind
<1>2. new \in UsrInfos
  BY <1>1 DEF UsrInfos
<1>3. Goes(t, "bindcb", [local[t] EXCEPT !.usr = new])
  BY DEF Bind, Continue, Goes
<1>4. usrMutex' \in [Blocks -> Workers \cup {Nobody}]
  BY <1>1 DEF Typed, UsrTypeOK, Bind
<1>5. /\ usrInfo' = [usrInfo EXCEPT ![b] = new]
      /\ UNCHANGED <<table, up, list, lastId, calls, crashes, usrHistVars>>
  BY DEF Bind, usrHistVars
<1>6. Edits(t, "bindcb", new, new)
  BY <1>1, <1>2, <1>3, <1>4, <1>5 DEF Edits
<1> QED
  BY <1>6

LEMMA AddHandleIs ==
    ASSUME Typed, NEW t \in Workers, AddHandle(t)
    PROVE  Adds(t)
  BY GoesSame DEF AddHandle, Adds

LEMMA DelHandleIs ==
    ASSUME Typed, NEW t \in Workers, DelHandle(t)
    PROVE  Removes(t) \/ Refuses(t)
<1>1. CASE local[t].info \in InList
  BY <1>1, GoesSame DEF DelHandle, Removes, usrHistVars
<1>2. CASE local[t].info \notin InList
  BY <1>2 DEF DelHandle, Refuse, Refuses, Returns, Goes, usrListVars, usrHistVars
<1> QED
  BY <1>1, <1>2

LEMMA StatementIs ==
    ASSUME Typed, NEW t \in Workers,
           MySqlCtrlAddUsrInfo(t) \/ MySqlCtrlSetUsrInfo(t) \/ MySqlCtrlModifyUsrBindInfo(t)
    PROVE  \/ Fails(t) \/ Inserts(t) \/ Updates(t) \/ RenamesNone(t)
           \/ \E old \in Names : Renames(t, old)
<1>1. CASE MySqlCtrlAddUsrInfo(t)
  <2>1. CASE ReturnTrue(t) /\ table[usrInfo[local[t].info].usrname] = NoRow
             /\ table' = [table EXCEPT ![usrInfo[local[t].info].usrname] = RowOf(usrInfo[local[t].info])]
    BY <1>1, <2>1 DEF MySqlCtrlAddUsrInfo, ReturnTrue, Inserts, Confirms, Returns, Goes, usrListVars
  <2>2. CASE ReturnError(t) /\ UNCHANGED table
    BY <1>1, <2>2 DEF MySqlCtrlAddUsrInfo, ReturnError, Fails, Returns, Goes, usrListVars
  <2> QED
    BY <1>1, <2>1, <2>2 DEF MySqlCtrlAddUsrInfo
<1>2. CASE MySqlCtrlSetUsrInfo(t)
  <2>1. CASE ReturnTrue(t) /\ table' = [n \in Names |->
                IF n = local[t].usr.usrname /\ table[n] # NoRow
                THEN SetUsrInfo(table[n], local[t].usr) ELSE table[n]]
    BY <1>2, <2>1 DEF MySqlCtrlSetUsrInfo, ReturnTrue, Updates, Confirms, Returns, Goes, usrListVars
  <2>2. CASE ReturnError(t) /\ UNCHANGED table
    BY <1>2, <2>2 DEF MySqlCtrlSetUsrInfo, ReturnError, Fails, Returns, Goes, usrListVars
  <2> QED
    BY <1>2, <2>1, <2>2 DEF MySqlCtrlSetUsrInfo
<1>3. CASE MySqlCtrlModifyUsrBindInfo(t)
  <2> DEFINE usr == local[t].usr
             rows == RowsWithId(usr.usrID)
             old == CHOOSE n \in rows : TRUE
  <2>1. /\ pc[t] = "bindcb"
        /\ \/ rows = {} /\ UNCHANGED <<table, idRisk>> /\ ReturnTrue(t)
           \/ /\ Cardinality(rows) = 1
              /\ usr.usrname # old => table[usr.usrname] = NoRow
              /\ table' = [n \in Names |-> IF n = usr.usrname THEN table[old]
                                           ELSE IF n = old THEN NoRow ELSE table[n]]
              /\ idRisk' = (idRisk \/ old \in DefaultUsrs \ {usr.usrname})
              /\ ReturnTrue(t)
           \/ UNCHANGED <<table, idRisk>> /\ ReturnError(t)
        /\ UNCHANGED <<up, usrListVars, lastId, calls, crashes>>
    BY <1>3 DEF MySqlCtrlModifyUsrBindInfo, RowsWithId
  <2>2. ReturnTrue(t) => Confirms(t)
    BY <2>1 DEF ReturnTrue, Confirms, Returns, Goes
  <2>3. CASE rows = {} /\ UNCHANGED <<table, idRisk>> /\ ReturnTrue(t)
    BY <2>1, <2>2, <2>3 DEF RenamesNone
  <2>4. CASE UNCHANGED <<table, idRisk>> /\ ReturnError(t)
    BY <2>1, <2>4 DEF ReturnError, Fails, Returns, Goes
  <2>5. CASE /\ Cardinality(rows) = 1
             /\ usr.usrname # old => table[usr.usrname] = NoRow
             /\ table' = [n \in Names |-> IF n = usr.usrname THEN table[old]
                                          ELSE IF n = old THEN NoRow ELSE table[n]]
             /\ idRisk' = (idRisk \/ old \in DefaultUsrs \ {usr.usrname})
             /\ ReturnTrue(t)
    <3>1. IsFiniteSet(rows)
      <4>1. rows \in SUBSET Names
        BY DEF RowsWithId
      <4> QED
        BY <4>1, FS_Subset, UsrAssumption
    <3>2. PICK x : rows = {x}
      BY <2>5, <3>1, FS_Singleton
    <3>3. old = x /\ x \in Names
      BY <3>2 DEF RowsWithId
    <3>4. Renames(t, x)
      BY <2>1, <2>2, <2>5, <3>2, <3>3 DEF Renames
    <3> QED
      BY <3>3, <3>4
  <2> QED
    BY <2>1, <2>3, <2>4, <2>5
<1> QED
  BY <1>1, <1>2, <1>3

\* It makes an id that the list does not have, and a block that nobody has put anywhere.
Makes(t, id, b) ==
    LET usr == [local[t].usr EXCEPT !.usrID = id]
    IN  /\ pc[t] = "createid"
        /\ id \in lastId .. MaxCalls /\ id <= Made
        /\ GetHandleByInt(id) = {}
        /\ lastId' = id
        /\ b \in Blocks /\ b \notin InList
        /\ \A u \in Workers : pc[u] = "add" => local[u].info # b
        /\ Goes(t, "add", [local[t] EXCEPT !.info = b, !.usr = usr])
        /\ usrInfo' = [usrInfo EXCEPT ![b] = usr]
        /\ usrMutex' \in [Blocks -> Workers \cup {Nobody}]
        /\ idRisk' = (idRisk \/ \E u \in Workers : pc[u] \in {"add", "delcb"})
        /\ UNCHANGED <<table, up, list, calls, crashes, disturbed, acked>>

LEMMA MadeFacts ==
    ASSUME Typed, Bounded
    PROVE  /\ Cardinality(Creating) \in Nat /\ Made \in Int /\ lastId \in Nat
           /\ lastId <= Made /\ Made <= calls /\ calls \in Nat /\ calls <= MaxCalls
           /\ MaxCalls \in Nat
           /\ \A t \in Creating : Cardinality(Creating \ {t}) = Cardinality(Creating) - 1
<1>1. IsFiniteSet(Creating)
  BY DEF Bounded
<1>2. Cardinality(Creating) \in Nat
  BY <1>1, FS_CardinalityType
<1>3. \A t \in Creating : Cardinality(Creating \ {t}) = Cardinality(Creating) - 1
  BY <1>1, FS_RemoveElement
<1> QED
  BY <1>2, <1>3, UsrAssumption DEF Typed, UsrTypeOK, Bounded, Made

LEMMA CreateUsridIs ==
    ASSUME Typed, Bounded, NEW t \in Workers, CreateUsrid(t)
    PROVE  \E id, b : Makes(t, id, b)
<1> DEFINE Free == {k \in lastId .. MaxCalls : GetHandleByInt(k) = {}}
<1>1. /\ Made \in Int /\ lastId \in Nat /\ lastId <= Made /\ Made <= MaxCalls /\ MaxCalls \in Nat
  BY MadeFacts
<1>2. Made \in Free
  <2>1. \A b \in InList : usrInfo[b].usrID < Made /\ usrInfo[b].usrID \in Int
    BY ConstFacts, RowFacts DEF Bounded, Live, Typed
  <2>2. GetHandleByInt(Made) = {}
    BY <1>1, <2>1 DEF GetHandleByInt
  <2> QED
    BY <1>1, <2>2
<1>3. PICK k \in Free : \A l \in Free : k <= l
  <2>1. Free \subseteq Nat
    BY <1>1
  <2> QED
    BY <1>2, <2>1, LeastExists
<1>4. \A l \in lastId .. k - 1 : GetHandleByInt(l) # {}
  BY <1>1, <1>3
<1>5. /\ lastId' \in lastId .. MaxCalls /\ GetHandleByInt(lastId') = {}
      /\ \A l \in lastId .. lastId' - 1 : GetHandleByInt(l) # {}
  BY <1>3, <1>4 DEF CreateUsrid
<1>6. lastId' <= k /\ lastId' <= Made
  <2>1. k \in lastId .. MaxCalls /\ k <= Made /\ GetHandleByInt(k) = {}
    BY <1>2, <1>3
  <2>2. k \in Nat /\ lastId' \in Nat /\ lastId <= k
    BY <1>1, <1>5, <2>1
  <2>3. ~(k < lastId')
    <3>0. \A a, m, d \in Nat : a <= m /\ m < d => m \in a .. d - 1
      OBVIOUS
    <3>1. ASSUME k < lastId' PROVE k \in lastId .. lastId' - 1
      BY <1>1, <2>2, <3>0, <3>1, Zenon
    <3> QED
      BY <1>5, <2>1, <3>1
  <2> QED
    BY <1>1, <2>1, <2>2, <2>3
<1> DEFINE id == lastId'
           usr == [local[t].usr EXCEPT !.usrID = id]
<1>7. PICK b \in Blocks \ (InList \cup {local[u].info : u \in {v \in Workers : pc[v] = "add"}}) :
         /\ usrInfo' = [usrInfo EXCEPT ![b] = usr]
         /\ usrMutex' = [usrMutex EXCEPT ![b] = Nobody]
         /\ local' = [local EXCEPT ![t].info = b, ![t].usr = usr]
  BY DEF CreateUsrid, Malloc
<1>8. usrMutex' \in [Blocks -> Workers \cup {Nobody}]
  BY <1>7 DEF Typed, UsrTypeOK
<1>9. local' = [local EXCEPT ![t] = [local[t] EXCEPT !.info = b, !.usr = usr]]
  <2>1. local \in [Workers -> CallVars]
    BY DEF Typed
  <2> QED
    BY <1>7, <2>1
<1>10. Goes(t, "add", [local[t] EXCEPT !.info = b, !.usr = usr])
  BY <1>9 DEF Goes, CreateUsrid
<1>11. /\ b \in Blocks /\ b \notin InList
       /\ \A u \in Workers : pc[u] = "add" => local[u].info # b
  BY <1>7
<1>12. /\ pc[t] = "createid"
       /\ idRisk' = (idRisk \/ \E u \in Workers : pc[u] \in {"add", "delcb"})
       /\ UNCHANGED <<table, up, list, calls, crashes, disturbed, acked>>
  BY DEF CreateUsrid
<1>13. Makes(t, lastId', b)
  BY <1>5, <1>6, <1>7, <1>8, <1>10, <1>11, <1>12 DEF Makes
<1> QED
  BY <1>13
-----------------------------------------------------------------------------
(* Types. *)

LEMMA TypesNow ==
    ASSUME Typed
    PROVE  /\ list \in Seq(Blocks) /\ \A k, l \in DOMAIN list : list[k] = list[l] => k = l
           /\ usrInfo \in [Blocks -> UsrInfos \cup {NoInfo}]
           /\ table \in [Names -> Rows \cup {NoRow}]
           /\ usrMutex \in [Blocks -> Workers \cup {Nobody}]
           /\ lastId \in 0 .. MaxCalls /\ calls \in 0 .. MaxCalls
           /\ disturbed \subseteq Names /\ acked \in [Names -> Passwords \cup {NoPass}]
           /\ idRisk \in BOOLEAN
           /\ \A n \in Names : table[n] # NoRow => table[n] \in Rows
  BY DEF Typed, UsrTypeOK

LEMMA OpensTyped ==
    ASSUME Typed, NEW t \in Workers, NEW label, NEW c, Opens(t, label, c)
    PROVE  Typed'
<1>1. label \in Labels /\ c \in CallVars /\ CallOK(label, c) /\ up /\ up' = up
  BY DEF Opens, Labels, Begin
<1>2. Goes(t, label, c)
  <2>1. c = [on |-> c.on, info |-> c.info, usr |-> c.usr, old |-> c.old, level |-> c.level]
    BY <1>1 DEF CallVars
  <2> QED
    BY <2>1 DEF Opens, Begin, Goes
<1>3. /\ calls' \in 0 .. MaxCalls /\ crashes' = crashes /\ lastId' = lastId
      /\ UNCHANGED <<table, list, usrInfo, usrMutex, idRisk>>
  BY UsrAssumption DEF Opens, Begin, Typed, UsrTypeOK, usrListVars
<1>4. c.on \subseteq Names
  BY <1>1 DEF CallVars
<1>5. disturbed' \subseteq Names
  <2>1. \A u \in Workers : local[u].on \subseteq Names
    BY CallFacts
  <2>2. disturbed \subseteq Names
    BY TypesNow
  <2> QED
    BY <1>4, <2>1, <2>2 DEF Opens, Begin
<1>6. acked' \in [Names -> Passwords \cup {NoPass}]
  BY TypesNow DEF Opens, Begin
<1>7. c.info # NoBlock => c.info \in InList
  BY DEF Opens, CallOK
<1>8. c.info # NoBlock => usrInfo[c.info] \in UsrInfos
  BY <1>7 DEF Typed, Live
<1>9. InList' = InList
  BY <1>3 DEF InList
<1> QED
  BY <1>1, <1>2, <1>3, <1>5, <1>6, <1>8, <1>9, TypesNow, TypedStep

LEMMA MakesTyped ==
    ASSUME Typed, NEW t \in Workers, NEW id, NEW b, Makes(t, id, b)
    PROVE  Typed'
<1> DEFINE usr == [local[t].usr EXCEPT !.usrID = id]
           c == [local[t] EXCEPT !.info = b, !.usr = usr]
<1>1. /\ local[t] \in CallVars /\ local[t].usr \in UsrInfos /\ local[t].on # {} /\ up
      /\ id \in Ids /\ id \in 0 .. MaxCalls /\ b \in Blocks
  <2>1. pc[t] = "createid" /\ id \in lastId .. MaxCalls /\ b \in Blocks
    BY DEF Makes
  <2>2. lastId \in 0 .. MaxCalls
    BY TypesNow
  <2>3. id \in 0 .. MaxCalls
    BY <2>1, <2>2, UsrAssumption
  <2> QED
    BY <2>1, <2>3, CallFacts, ConstFacts
<1>2. usr \in UsrInfos
  BY <1>1 DEF UsrInfos
<1>3. usrInfo' = [usrInfo EXCEPT ![b] = usr] /\ Goes(t, "add", c)
  BY DEF Makes
<1> HIDE DEF usr
<1>4. c \in CallVars /\ c.info = b /\ c.usr = usr /\ c.on = local[t].on
  BY <1>1, <1>2 DEF CallVars
<1> HIDE DEF c
<1>5. CallOK("add", c)
  BY <1>1, <1>2, <1>4 DEF CallOK
<1>6. usrInfo' \in [Blocks -> UsrInfos \cup {NoInfo}] /\ usrInfo'[b] \in UsrInfos
      /\ \A d \in Blocks : usrInfo'[d] = usrInfo[d] \/ usrInfo'[d] \in UsrInfos
  BY <1>1, <1>2, <1>3, TypesNow
<1>7. InList' = InList /\ UNCHANGED <<table, up, list, calls, crashes, disturbed, acked>>
      /\ lastId' = id /\ usrMutex' \in [Blocks -> Workers \cup {Nobody}] /\ idRisk' \in BOOLEAN
  BY TypesNow DEF Makes, InList
<1>8. "add" \in Labels
  BY DEF Labels
<1> QED
  BY <1>1, <1>3, <1>4, <1>5, <1>6, <1>7, <1>8, TypesNow, TypedStep

LEMMA EditsTyped ==
    ASSUME Typed, NEW t \in Workers, NEW label, NEW usr, NEW new, Edits(t, label, usr, new)
    PROVE  Typed'
<1> DEFINE c == [local[t] EXCEPT !.usr = usr]
           b == local[t].info
<1>1. /\ local[t] \in CallVars /\ local[t].on # {} /\ up /\ b \in Blocks
      /\ CallOK(pc[t], local[t]) /\ usr \in UsrInfos /\ new \in UsrInfos
  BY CallFacts DEF Edits
<1>2. usrInfo' = [usrInfo EXCEPT ![b] = new] /\ Goes(t, label, c)
  BY DEF Edits
<1>3. c \in CallVars /\ c.info = b /\ c.usr = usr /\ c.on = local[t].on
      /\ c.old = local[t].old /\ c.level = local[t].level
  BY <1>1 DEF CallVars
<1> HIDE DEF c
<1>4. label \in Labels /\ CallOK(label, c)
  BY <1>1, <1>3 DEF Edits, CallOK, Labels
<1>5. usrInfo' \in [Blocks -> UsrInfos \cup {NoInfo}] /\ usrInfo'[b] \in UsrInfos
      /\ \A d \in Blocks : usrInfo'[d] = usrInfo[d] \/ usrInfo'[d] \in UsrInfos
  BY <1>1, <1>2, TypesNow
<1>6. InList' = InList /\ UNCHANGED <<table, up, list, lastId, calls, crashes, usrHistVars>>
      /\ usrMutex' \in [Blocks -> Workers \cup {Nobody}]
  BY DEF Edits, InList
<1> QED
  BY <1>1, <1>2, <1>3, <1>4, <1>5, <1>6, TypesNow, TypedStep DEF usrHistVars

LEMMA AddsTyped ==
    ASSUME Typed, Fresh, NEW t \in Workers, Adds(t)
    PROVE  Typed' /\ InList' = InList \cup {local[t].info}
<1> DEFINE b == local[t].info
<1>1. /\ local[t] \in CallVars /\ up /\ b \in Blocks /\ usrInfo[b] \in UsrInfos
      /\ CallOK(pc[t], local[t]) /\ b \notin InList /\ b # NoBlock
  BY CallFacts DEF Adds, Fresh
<1>2. CallOK("addcb", local[t]) /\ "addcb" \in Labels
  BY <1>1 DEF Adds, CallOK, Labels
<1>3. /\ list' \in Seq(Blocks) /\ \A k, l \in DOMAIN list' : list'[k] = list'[l] => k = l
      /\ InList' = InList \cup {b}
  BY <1>1, ListAppend DEF Adds
<1>4. /\ Goes(t, "addcb", local[t])
      /\ UNCHANGED <<table, up, usrInfo, usrMutex, lastId, calls, crashes, usrHistVars>>
  BY DEF Adds
<1>5. Typed'
  BY <1>1, <1>2, <1>3, <1>4, TypesNow, TypedStep DEF usrHistVars
<1> QED
  BY <1>3, <1>5

LEMMA RemovesTyped ==
    ASSUME Typed, NEW t \in Workers, Removes(t)
    PROVE  Typed' /\ InList' = InList \ {local[t].info}
<1> DEFINE b == local[t].info
<1>1. /\ local[t] \in CallVars /\ up /\ b \in Blocks /\ usrInfo[b] \in UsrInfos
      /\ CallOK(pc[t], local[t]) /\ b \in InList /\ b # NoBlock
  BY CallFacts DEF Removes
<1>2. CallOK("delcb", local[t]) /\ "delcb" \in Labels
  BY <1>1 DEF Removes, CallOK, Labels
<1>3. /\ list' \in Seq(Blocks) /\ \A k, l \in DOMAIN list' : list'[k] = list'[l] => k = l
      /\ InList' = InList \ {b}
  BY <1>1, ListRemove DEF Removes
<1>4. /\ Goes(t, "delcb", local[t])
      /\ UNCHANGED <<table, up, usrInfo, usrMutex, lastId, calls, crashes, usrHistVars>>
  BY DEF Removes
<1>5. Typed'
  BY <1>1, <1>2, <1>3, <1>4, TypesNow, TypedStep DEF usrHistVars
<1> QED
  BY <1>3, <1>5

LEMMA ReturnsTyped ==
    ASSUME Typed, NEW t \in Workers, Returns(t), pc[t] # "idle",
           table' \in [Names -> Rows \cup {NoRow}], disturbed' \subseteq Names,
           acked' \in [Names -> Passwords \cup {NoPass}], idRisk' \in BOOLEAN
    PROVE  Typed' /\ InList' = InList
<1>1. /\ Goes(t, "idle", NoCall) /\ NoCall \in CallVars /\ CallOK("idle", NoCall)
      /\ "idle" \in Labels /\ up /\ NoCall.info = NoBlock
  BY CallFacts, NoCallTyped DEF Returns, Labels, NoCall
<1>2. InList' = InList /\ UNCHANGED <<up, list, usrInfo, usrMutex, lastId, calls, crashes>>
  BY DEF Returns, InList, usrListVars
<1>3. Typed'
  BY <1>1, <1>2, TypesNow, TypedStep
<1> QED
  BY <1>2, <1>3
-----------------------------------------------------------------------------
(* The start and the death of the process. *)

\* What InitUsrList makes of the table.
LoadsInto(stored, l, info) ==
    /\ l \in Seq(Blocks) /\ \A j, k \in DOMAIN l : l[j] = l[k] => j = k
    /\ info \in [Blocks -> UsrInfos \cup {NoInfo}]
    /\ \A k \in DOMAIN l : \E n \in Names :
        stored[n] # NoRow /\ info[l[k]] = UsrInfo(n, stored[n])
    /\ \A n \in Names : stored[n] # NoRow =>
        \E k \in DOMAIN l : info[l[k]] = UsrInfo(n, stored[n])
    /\ \A j, k \in DOMAIN l : info[l[j]].usrname = info[l[k]].usrname => j = k

LEMMA LoadedIs ==
    ASSUME NEW stored \in [Names -> Rows \cup {NoRow}], NEW l, NEW info,
           l = Loaded(stored).list, info = Loaded(stored).usrInfo
    PROVE  LoadsInto(stored, l, info)
<1> DEFINE S == {n \in Names : stored[n].userLevel > ENUM_USRLEVEL_Invalid}
           rows == SetToSeq(S)
<1>1. \A n \in Names : n \in S <=> stored[n] # NoRow
  <2> TAKE n \in Names
  <2>1. CASE stored[n] = NoRow
    BY <2>1 DEF NoRow, ENUM_USRLEVEL_Invalid
  <2>2. CASE stored[n] # NoRow
    <3>1. stored[n] \in Rows
      BY <2>2
    <3>2. stored[n].userLevel \in Levels
      BY <3>1, RowFacts
    <3> QED
      <4>1. stored[n].userLevel \in Nat /\ stored[n].userLevel # 0
        BY <3>2, ConstFacts
      <4>2. stored[n].userLevel > ENUM_USRLEVEL_Invalid
        BY <4>1 DEF ENUM_USRLEVEL_Invalid
      <4> QED
        BY <2>2, <4>2
  <2> QED
    BY <2>1, <2>2
<1>2. IsFiniteSet(S) /\ Cardinality(S) \in Nat /\ Cardinality(S) <= Cardinality(Names)
  <2>1. S \in SUBSET Names
    OBVIOUS
  <2>2. IsFiniteSet(Names)
    BY UsrAssumption
  <2> QED
    BY <2>1, <2>2, FS_Subset, FS_CardinalityType
<1> HIDE DEF S
<1>3. /\ rows \in Seq(S) /\ DOMAIN rows = 1 .. Cardinality(S)
      /\ \A j, k \in DOMAIN rows : rows[j] = rows[k] => j = k
      /\ \A n \in S : \E k \in DOMAIN rows : rows[k] = n
  BY <1>2, SetToSeqIs
<1>4. /\ l = [k \in DOMAIN rows |-> k]
      /\ info = [b \in Blocks |-> IF b \in DOMAIN rows
                                  THEN UsrInfo(rows[b], stored[rows[b]]) ELSE NoInfo]
  BY DEF Loaded, S
<1> HIDE DEF rows
<1>5. DOMAIN rows \subseteq Blocks
  BY <1>2, <1>3, ConstFacts, UsrAssumption DEF Blocks
<1>6. /\ DOMAIN l = DOMAIN rows
      /\ \A k \in DOMAIN rows : l[k] = k /\ info[l[k]] = UsrInfo(rows[k], stored[rows[k]])
  BY <1>4, <1>5
<1>7. \A k \in DOMAIN rows : rows[k] \in S /\ rows[k] \in Names /\ stored[rows[k]] \in Rows
                             /\ stored[rows[k]] # NoRow
  <2>1. \A k \in DOMAIN rows : rows[k] \in S
    <3>1. rows \in Seq(S)
      BY <1>3
    <3> QED
      BY <3>1
  <2>2. \A n \in S : n \in Names
    BY DEF S
  <2> QED
    BY <1>1, <2>1, <2>2
<1>8. l \in Seq(Blocks)
  <2>1. l \in [1 .. Cardinality(S) -> Blocks]
    BY <1>3, <1>4, <1>5
  <2> QED
    BY <1>2, <2>1
<1>9. info \in [Blocks -> UsrInfos \cup {NoInfo}]
  BY <1>4, <1>7, RowFacts
<1>10. \A k \in DOMAIN rows : info[l[k]].usrname = rows[k]
  <2>1. \A n, r : UsrInfo(n, r).usrname = n
    BY DEF UsrInfo
  <2> QED
    BY <1>6, <2>1
<1>11. \A n \in Names : stored[n] # NoRow =>
           \E k \in DOMAIN l : info[l[k]] = UsrInfo(n, stored[n])
  <2> SUFFICES ASSUME NEW n \in Names, stored[n] # NoRow
               PROVE  \E k \in DOMAIN l : info[l[k]] = UsrInfo(n, stored[n])
    OBVIOUS
  <2>1. PICK k \in DOMAIN rows : rows[k] = n
    BY <1>1, <1>3
  <2> QED
    BY <1>6, <2>1
<1>12. \A k \in DOMAIN l : \E n \in Names :
           stored[n] # NoRow /\ info[l[k]] = UsrInfo(n, stored[n])
  BY <1>6, <1>7
<1>13. \A j, k \in DOMAIN l : info[l[j]].usrname = info[l[k]].usrname => j = k
  BY <1>3, <1>6, <1>10
<1>14. \A j, k \in DOMAIN l : l[j] = l[k] => j = k
  BY <1>6
<1> QED
  BY <1>8, <1>9, <1>11, <1>12, <1>13, <1>14 DEF LoadsInto

\* The ids of the default users.
LEMMA DefaultId ==
    ASSUME NEW n \in DefaultUsrs
    PROVE  LET k == CHOOSE k \in DOMAIN SetToSeq(DefaultUsrs) : SetToSeq(DefaultUsrs)[k] = n
           IN  /\ k \in DOMAIN SetToSeq(DefaultUsrs) /\ SetToSeq(DefaultUsrs)[k] = n
               /\ k \in Nat /\ 1 <= k /\ -k \in Ids /\ -k < 0
<1> DEFINE s == SetToSeq(DefaultUsrs)
           k == CHOOSE k \in DOMAIN s : s[k] = n
<1>1. DOMAIN s = 1 .. Cardinality(DefaultUsrs) /\ \E j \in DOMAIN s : s[j] = n
  BY ConstFacts, SetToSeqIs
<1> HIDE DEF s
<1>2. k \in DOMAIN s /\ s[k] = n
  BY <1>1
<1> HIDE DEF k
<1>3. k \in Nat /\ 1 <= k /\ k <= Cardinality(Names)
  BY <1>1, <1>2, ConstFacts
<1>4. -k \in Ids /\ -k < 0
  BY <1>3, ConstFacts, UsrAssumption DEF Ids
<1> QED
  BY <1>2, <1>3, <1>4 DEF k, s

LEMMA WithDefaultsIs ==
    ASSUME NEW stored \in [Names -> Rows \cup {NoRow}], NEW n \in Names
    PROVE  /\ WithDefaults(stored, n) \in Rows \cup {NoRow}
           /\ stored[n] # NoRow => WithDefaults(stored, n) = stored[n]
           /\ n \notin DefaultUsrs => WithDefaults(stored, n) = stored[n]
           /\ n \in DefaultUsrs => WithDefaults(stored, n) # NoRow
           /\ n \in DefaultUsrs /\ stored[n] = NoRow => WithDefaults(stored, n).usrID < 0
<1>1. CASE n \in DefaultUsrs /\ stored[n] = NoRow
  <2> DEFINE s == SetToSeq(DefaultUsrs)
             k == CHOOSE k \in DOMAIN s : s[k] = n
  <2>1. -k \in Ids /\ -k < 0
    BY <1>1, DefaultId
  <2>2. WithDefaults(stored, n) =
            [passWord |-> FirstPassword, userLevel |-> ENUM_USRLEVEL_ROOT, usrID |-> -k,
             customname |-> NoCustom]
    BY <1>1 DEF WithDefaults
  <2> HIDE DEF k
  <2>3. WithDefaults(stored, n) \in Rows /\ WithDefaults(stored, n).usrID = -k
    BY <2>1, <2>2, UsrAssumption DEF Rows
  <2> QED
    BY <1>1, <2>1, <2>3, RowFacts
<1>2. CASE ~(n \in DefaultUsrs /\ stored[n] = NoRow)
  BY <1>2 DEF WithDefaults
<1> QED
  BY <1>1, <1>2

\* What the table is like, as far as ids, default users and confirmed passwords go.
TableSound ==
    /\ \A n \in DefaultUsrs : table[n] # NoRow
    /\ \A n, m \in Names :
        table[n] # NoRow /\ table[m] # NoRow /\ table[n].usrID = table[m].usrID => n = m
    /\ \A n \in Names : acked[n] # NoPass => table[n].passWord = acked[n]

\* No call is in progress.
Still ==
    /\ table \in [Names -> Rows \cup {NoRow}]
    /\ usrMutex \in [Blocks -> Workers \cup {Nobody}]
    /\ lastId \in 0 .. MaxCalls /\ lastId <= calls
    /\ pc = [t \in Workers |-> "idle"]
    /\ local = [t \in Workers |-> NoCall]
    /\ calls \in 0 .. MaxCalls /\ crashes \in 0 .. MaxCrashes
    /\ disturbed = {}
    /\ acked \in [Names -> Passwords \cup {NoPass}]
    /\ idRisk \in BOOLEAN
    /\ \A n \in Names : table[n] # NoRow => table[n].usrID < calls
    /\ ~idRisk => TableSound

\* The process has just been started, or is dead.
Booted == up = TRUE /\ list = Loaded(table).list /\ usrInfo = Loaded(table).usrInfo
Dead == up = FALSE /\ list = << >> /\ usrInfo = [b \in Blocks |-> NoInfo]

LEMMA StillFacts ==
    Still =>
        /\ \A t \in Workers : /\ pc[t] = "idle" /\ local[t] = NoCall /\ local[t].on = {}
                              /\ local[t].info = NoBlock /\ local[t] \in CallVars
                              /\ CallOK(pc[t], local[t])
        /\ Live = InList /\ Creating = {} /\ IsFiniteSet(Creating) /\ Made = calls
        /\ Closed /\ Fresh
        /\ \A t \in Workers : Ready(t)
<1> SUFFICES ASSUME Still PROVE
        /\ \A t \in Workers : /\ pc[t] = "idle" /\ local[t] = NoCall /\ local[t].on = {}
                              /\ local[t].info = NoBlock /\ local[t] \in CallVars
                              /\ CallOK(pc[t], local[t])
        /\ Live = InList /\ Creating = {} /\ IsFiniteSet(Creating) /\ Made = calls
        /\ Closed /\ Fresh
        /\ \A t \in Workers : Ready(t)
  OBVIOUS
<1>1. \A t \in Workers : /\ pc[t] = "idle" /\ local[t] = NoCall /\ local[t].on = {}
                         /\ local[t].info = NoBlock /\ local[t] \in CallVars
                         /\ CallOK(pc[t], local[t])
  <2>1. \A t \in Workers : pc[t] = "idle" /\ local[t] = NoCall
    BY DEF Still
  <2>2. NoCall.on = {} /\ NoCall.info = NoBlock
    BY DEF NoCall
  <2> QED
    BY <2>1, <2>2, NoCallTyped
<1>2. Live = InList
  BY <1>1 DEF Live
<1>3. Creating = {}
  BY <1>1 DEF Creating
<1>4. IsFiniteSet(Creating) /\ Made = calls
  <2>1. Cardinality({}) = 0 /\ IsFiniteSet({})
    BY FS_EmptySet
  <2> QED
    BY <1>3, <2>1 DEF Made, Still
<1>5. Closed
  BY <1>1 DEF Closed, Clean
<1>6. Fresh
  BY <1>1 DEF Fresh
<1>7. \A t \in Workers : Ready(t)
  BY <1>1 DEF Ready
<1> QED
  BY <1>1, <1>2, <1>3, <1>4, <1>5, <1>6, <1>7

LEMMA StillTyped ==
    ASSUME Still, list \in Seq(Blocks), \A k, l \in DOMAIN list : list[k] = list[l] => k = l,
           usrInfo \in [Blocks -> UsrInfos \cup {NoInfo}],
           \A b \in InList : usrInfo[b] \in UsrInfos, up \in BOOLEAN, ~up => list = << >>
    PROVE  Typed
<1>1. /\ \A t \in Workers : /\ pc[t] = "idle" /\ local[t] = NoCall /\ local[t].on = {}
                            /\ local[t].info = NoBlock /\ local[t] \in CallVars
                            /\ CallOK(pc[t], local[t])
      /\ Live = InList
  BY StillFacts
<1>2. \A t \in Workers : /\ local[t].on \subseteq Names
                         /\ local[t].info \in Blocks \cup {NoBlock}
                         /\ local[t].usr \in UsrInfos \cup {NoInfo}
                         /\ local[t].old \in Passwords \cup {NoPass}
                         /\ local[t].level \in Levels \cup {ENUM_USRLEVEL_Invalid}
  BY <1>1 DEF CallVars
<1>3. InList \subseteq Blocks
  BY DEF InList
<1>4. pc \in [Workers -> Labels] /\ local \in [Workers -> CallVars]
  BY NoCallTyped DEF Still, Labels
<1>5. UsrTypeOK
  BY <1>2, <1>3, <1>4 DEF UsrTypeOK, Still
<1>6. disturbed = {}
  BY DEF Still
<1> QED
  BY <1>1, <1>4, <1>5, <1>6 DEF Typed

LEMMA DeadInv == Still /\ Dead => UsrInv
<1> SUFFICES ASSUME Still, Dead PROVE UsrInv
  OBVIOUS
<1>1. InList = {}
  BY DEF Dead, InList
<1>2. Typed
  <2>1. list \in Seq(Blocks) /\ \A k, l \in DOMAIN list : list[k] = list[l] => k = l
    BY DEF Dead
  <2>2. usrInfo \in [Blocks -> UsrInfos \cup {NoInfo}]
    BY DEF Dead
  <2>3. up \in BOOLEAN /\ list = << >>
    BY DEF Dead
  <2> QED
    BY <1>1, <2>1, <2>2, <2>3, StillTyped
<1>3. /\ \A t \in Workers : pc[t] = "idle" /\ local[t].on = {} /\ local[t].info = NoBlock
      /\ Live = {} /\ IsFiniteSet(Creating) /\ Made = calls
      /\ Closed /\ Fresh /\ \A t \in Workers : Ready(t)
  BY <1>1, StillFacts
<1>4. Bounded
  BY <1>3 DEF Bounded, Still
<1>5. ASSUME ~idRisk PROVE Owned /\ Confined /\ Agreed /\ Confirmed
  <2>1. TableSound
    BY <1>5 DEF Still
  <2>2. Owned
    BY <1>3, <2>1 DEF Owned, TableSound, Dead
  <2>3. Confined
    BY <1>3 DEF Confined
  <2>4. Agreed
    BY <1>3 DEF Agreed, Dead
  <2>5. Confirmed
    BY <1>3, <2>1 DEF Confirmed, TableSound, Quiet, Still
  <2> QED
    BY <2>2, <2>3, <2>4, <2>5
<1> QED
  BY <1>2, <1>3, <1>4, <1>5 DEF UsrInv

LEMMA BootedInv == Still /\ Booted => UsrInv
<1> SUFFICES ASSUME Still, Booted PROVE UsrInv
  OBVIOUS
<1>1. /\ list \in Seq(Blocks) /\ \A k, l \in DOMAIN list : list[k] = list[l] => k = l
      /\ usrInfo \in [Blocks -> UsrInfos \cup {NoInfo}]
      /\ \A k \in DOMAIN list : \E n \in Names :
            table[n] # NoRow /\ usrInfo[list[k]] = UsrInfo(n, table[n])
      /\ \A n \in Names : table[n] # NoRow =>
            \E k \in DOMAIN list : usrInfo[list[k]] = UsrInfo(n, table[n])
      /\ \A j, k \in DOMAIN list : usrInfo[list[j]].usrname = usrInfo[list[k]].usrname => j = k
  <2>1. table \in [Names -> Rows \cup {NoRow}]
    BY DEF Still
  <2>2. list = Loaded(table).list /\ usrInfo = Loaded(table).usrInfo
    BY DEF Booted
  <2>3. LoadsInto(table, list, usrInfo)
    BY <2>1, <2>2, LoadedIs
  <2> QED
    BY <2>3 DEF LoadsInto
<1>2. /\ \A b \in InList : \E n \in Names :
            table[n] # NoRow /\ usrInfo[b] = UsrInfo(n, table[n])
      /\ \A n \in Names : table[n] # NoRow =>
            \E b \in InList : usrInfo[b] = UsrInfo(n, table[n])
      /\ \A b, c \in InList : usrInfo[b].usrname = usrInfo[c].usrname => b = c
  BY <1>1 DEF InList
<1>3. \A n : UsrInfo(n, table[n]).usrname = n /\ UsrInfo(n, table[n]).usrID = table[n].usrID
  BY DEF UsrInfo
<1>4. \A n \in Names : table[n] # NoRow => table[n] \in Rows /\ UsrInfo(n, table[n]) \in UsrInfos
  BY RowFacts DEF Still
<1>5. Typed
  <2>1. \A b \in InList : usrInfo[b] \in UsrInfos
    BY <1>2, <1>4
  <2>2. up \in BOOLEAN /\ up
    BY DEF Booted
  <2> QED
    BY <1>1, <2>1, <2>2, StillTyped
<1>6. /\ \A t \in Workers : pc[t] = "idle" /\ local[t].on = {} /\ local[t].info = NoBlock
      /\ Live = InList /\ IsFiniteSet(Creating) /\ Made = calls
      /\ Closed /\ Fresh /\ \A t \in Workers : Ready(t)
  BY StillFacts
<1>7. Bounded
  BY <1>2, <1>3, <1>6 DEF Bounded, Still
<1>8. ASSUME ~idRisk PROVE Owned /\ Confined /\ Agreed /\ Confirmed
  <2>1. TableSound
    BY <1>8 DEF Still
  <2>2. \A b, c \in InList : usrInfo[b].usrID = usrInfo[c].usrID => b = c
    BY <1>2, <1>3, <2>1 DEF TableSound
  <2>3. Owned
    BY <1>2, <1>3, <1>6, <2>1, <2>2 DEF Owned, TableSound
  <2>4. Confined
    <3>1. \A b \in InList, n \in Names :
            table[n] # NoRow /\ table[n].usrID = usrInfo[b].usrID => n = usrInfo[b].usrname
      BY <1>2, <1>3, <2>1 DEF TableSound
    <3> QED
      BY <1>6, <3>1 DEF Confined
  <2>5. Agreed
    <3>1. \A n \in Names : Agree(n)
      BY <1>2, <1>3 DEF Agree, Named
    <3> QED
      BY <1>6, <3>1 DEF Agreed
  <2>6. Confirmed
    BY <1>6, <2>1 DEF Confirmed, TableSound, Quiet, Still
  <2> QED
    BY <2>3, <2>4, <2>5, <2>6
<1> QED
  BY <1>5, <1>6, <1>7, <1>8 DEF UsrInv

LEMMA DeadNext == Still' /\ Dead' => UsrInv'
  BY DeadInv, PTL

LEMMA BootedNext == Still' /\ Booted' => UsrInv'
  BY BootedInv, PTL

LEMMA InitInv ==
    ASSUME UsrInit
    PROVE  UsrInv
<1> DEFINE none == [m \in Names |-> NoRow]
<1>1. none \in [Names -> Rows \cup {NoRow}] /\ \A n \in Names : none[n] = NoRow
  OBVIOUS
<1>2. table = [n \in Names |-> WithDefaults(none, n)]
  BY DEF UsrInit
<1> HIDE DEF none
<1>3. /\ table \in [Names -> Rows \cup {NoRow}]
      /\ \A n \in DefaultUsrs : table[n] # NoRow /\ table[n].usrID < 0
      /\ \A n \in Names : n \notin DefaultUsrs => table[n] = NoRow
  <2>1. \A n \in DefaultUsrs : n \in Names
    BY UsrAssumption
  <2> QED
    BY <1>1, <1>2, <2>1, WithDefaultsIs
<1>4. \A n, m \in Names :
         table[n] # NoRow /\ table[m] # NoRow /\ table[n].usrID = table[m].usrID => n = m
  <2> DEFINE s == SetToSeq(DefaultUsrs)
             Pos(n) == CHOOSE k \in DOMAIN s : s[k] = n
  <2>1. ASSUME NEW n \in DefaultUsrs
        PROVE  Pos(n) \in Nat /\ s[Pos(n)] = n /\ table[n].usrID = -Pos(n)
    <3>1. Pos(n) \in Nat /\ s[Pos(n)] = n
      BY DefaultId
    <3>2. n \in Names
      BY UsrAssumption
    <3>3. table[n].usrID = -Pos(n)
      BY <1>1, <1>2, <3>2 DEF WithDefaults
    <3> QED
      BY <3>1, <3>3
  <2> HIDE DEF Pos, s
  <2> SUFFICES ASSUME NEW n \in Names, NEW m \in Names, table[n] # NoRow, table[m] # NoRow,
                      table[n].usrID = table[m].usrID
               PROVE  n = m
    OBVIOUS
  <2>2. n \in DefaultUsrs /\ m \in DefaultUsrs
    BY <1>3
  <2>3. Pos(n) = Pos(m)
    BY <2>1, <2>2
  <2> QED
    BY <2>1, <2>2, <2>3
<1>5. TableSound
  BY <1>3, <1>4 DEF TableSound, UsrInit
<1>6. Still
  <2>1. usrMutex \in [Blocks -> Workers \cup {Nobody}]
    BY DEF UsrInit
  <2>2. acked \in [Names -> Passwords \cup {NoPass}]
    BY DEF UsrInit
  <2>3. lastId \in 0 .. MaxCalls /\ lastId <= calls /\ calls = 0 /\ calls \in 0 .. MaxCalls
        /\ crashes \in 0 .. MaxCrashes
    BY UsrAssumption DEF UsrInit
  <2>4. \A n \in Names : table[n] # NoRow => table[n].usrID < calls
    BY <1>3, <2>3
  <2>5. disturbed = {} /\ idRisk \in BOOLEAN /\ pc = [t \in Workers |-> "idle"]
        /\ local = [t \in Workers |-> NoCall]
    BY DEF UsrInit
  <2> QED
    BY <1>3, <1>5, <2>1, <2>2, <2>3, <2>4, <2>5 DEF Still
<1>7. Booted
  BY DEF Booted, UsrInit
<1> QED
  BY <1>6, <1>7, BootedInv

LEMMA TableSoundNow ==
    ASSUME UsrInv, ~idRisk
    PROVE  TableSound
  BY DEF UsrInv, Owned, Confirmed, TableSound

LEMMA DieInvariant ==
    ASSUME UsrInv, Die, UNCHANGED <<table, acked, idRisk>>, calls' \in {calls, calls + 1},
           calls' <= MaxCalls
    PROVE  UsrInv'
<1>1. Typed /\ Bounded
  BY DEF UsrInv
<1>2. /\ Made \in Int /\ Made <= calls /\ calls \in Nat /\ MaxCalls \in Nat
      /\ \A n \in Names : table[n] # NoRow => table[n].usrID < Made /\ table[n].usrID \in Int
  <2>1. \A n \in Names : table[n] # NoRow => table[n].usrID \in Int
    BY <1>1, TypesNow, RowFacts, ConstFacts
  <2> QED
    BY <1>1, <2>1, MadeFacts DEF Bounded
<1>3. Dead'
  BY DEF Die, Dead
<1>4. (~idRisk => TableSound)'
  BY TableSoundNow DEF TableSound
<1>5. Still'
  <2>1. table' \in [Names -> Rows \cup {NoRow}] /\ acked' \in [Names -> Passwords \cup {NoPass}]
        /\ idRisk' \in BOOLEAN
    BY <1>1, TypesNow
  <2>2. usrMutex' \in [Blocks -> Workers \cup {Nobody}]
    BY DEF Die
  <2>3. lastId' \in 0 .. MaxCalls /\ lastId' <= calls' /\ calls' \in 0 .. MaxCalls
    BY <1>2 DEF Die
  <2>4. crashes' \in 0 .. MaxCrashes
    BY <1>1, UsrAssumption DEF Die, Typed, UsrTypeOK
  <2>5. \A n \in Names : table'[n] # NoRow => table'[n].usrID < calls'
    BY <1>2
  <2> QED
    BY <1>4, <2>1, <2>2, <2>3, <2>4, <2>5 DEF Still, Die
<1> QED
  BY <1>3, <1>5, DeadNext

LEMMA StartInvariant ==
    ASSUME UsrInv, UsrManageInit
    PROVE  UsrInv'
<1>1. Typed /\ Bounded
  BY DEF UsrInv
<1>2. /\ Made \in Int /\ lastId <= Made /\ Made <= calls /\ calls \in Nat /\ lastId \in Nat
      /\ \A n \in Names : table[n] # NoRow => table[n].usrID < Made /\ table[n].usrID \in Int
  <2>1. \A n \in Names : table[n] # NoRow => table[n].usrID \in Int
    BY <1>1, TypesNow, RowFacts, ConstFacts
  <2> QED
    BY <1>1, <2>1, MadeFacts DEF Bounded
<1>3. table' = [n \in Names |-> WithDefaults(table, n)]
  BY DEF UsrManageInit
<1>4. /\ table' \in [Names -> Rows \cup {NoRow}]
      /\ \A n \in Names : table'[n] = table[n] \/ table'[n].usrID < 0
      /\ (\A n \in DefaultUsrs : table[n] # NoRow) => table' = table
  <2>1. table \in [Names -> Rows \cup {NoRow}]
    BY <1>1, TypesNow
  <2> QED
    BY <1>3, <2>1, WithDefaultsIs
<1>5. (~idRisk => TableSound)'
  <2> SUFFICES ASSUME ~idRisk PROVE TableSound'
    BY DEF UsrManageInit, usrHistVars
  <2>1. TableSound
    BY TableSoundNow
  <2>2. table' = table /\ acked' = acked
    BY <1>4, <2>1 DEF TableSound, UsrManageInit, usrHistVars
  <2> QED
    BY <2>1, <2>2 DEF TableSound
<1>6. Still'
  <2>1. pc = [t \in Workers |-> "idle"] /\ local = [t \in Workers |-> NoCall]
    <3>1. pc \in [Workers -> Labels] /\ local \in [Workers -> CallVars]
          /\ \A t \in Workers : pc[t] = "idle"
      BY <1>1 DEF Typed, UsrTypeOK, UsrManageInit
    <3>2. \A t \in Workers : local[t] = NoCall
      BY <1>1, <3>1, CallFacts
    <3> QED
      BY <3>1, <3>2
  <2>2. disturbed = {}
    BY <1>1 DEF Typed, UsrManageInit
  <2>3. usrMutex \in [Blocks -> Workers \cup {Nobody}] /\ lastId \in 0 .. MaxCalls
        /\ calls \in 0 .. MaxCalls /\ crashes \in 0 .. MaxCrashes
        /\ acked \in [Names -> Passwords \cup {NoPass}] /\ idRisk \in BOOLEAN
    BY <1>1 DEF Typed, UsrTypeOK
  <2>4. UNCHANGED <<usrMutex, lastId, pc, local, calls, crashes, disturbed, acked, idRisk>>
    BY DEF UsrManageInit, usrHistVars
  <2>5. \A n \in Names : table'[n] # NoRow => table'[n].usrID < calls
    <3>1. \A n \in Names : table'[n] # NoRow => table'[n].usrID \in Int
      BY <1>4, RowFacts, ConstFacts
    <3> QED
      BY <1>2, <1>4, <3>1
  <2> QED
    BY <1>2, <1>4, <1>5, <2>1, <2>2, <2>3, <2>4, <2>5 DEF Still
<1>7. Booted'
  BY DEF Booted, UsrManageInit
<1> QED
  BY <1>6, <1>7, BootedNext
-----------------------------------------------------------------------------
(* Blocks that are not in the list yet. *)

LEMMA FreshStep ==
    ASSUME Typed, Fresh, NEW t \in Workers, NEW label, NEW c, Goes(t, label, c),
           label # "add", InList' \subseteq InList
    PROVE  Fresh'
<1>1. /\ pc'[t] = label /\ local'[t] = c
      /\ \A u \in Workers : u # t => pc'[u] = pc[u] /\ local'[u] = local[u]
  BY GoesFacts
<1> QED
  BY <1>1 DEF Fresh

LEMMA MakesFresh ==
    ASSUME Typed, Fresh, NEW t \in Workers, NEW id, NEW b, Makes(t, id, b)
    PROVE  Fresh'
<1> DEFINE c == [local[t] EXCEPT !.info = b, !.usr = [local[t].usr EXCEPT !.usrID = id]]
<1>1. /\ pc'[t] = "add" /\ local'[t] = c
      /\ \A u \in Workers : u # t => pc'[u] = pc[u] /\ local'[u] = local[u]
  BY GoesFacts DEF Makes
<1>2. c.info = b
  <2>1. local[t] \in CallVars
    BY CallFacts
  <2> QED
    BY <2>1 DEF CallVars
<1> HIDE DEF c
<1>3. b \notin InList /\ \A u \in Workers : pc[u] = "add" => local[u].info # b
  BY DEF Makes
<1>4. InList' = InList
  BY DEF Makes, InList
<1> QED
  BY <1>1, <1>2, <1>3, <1>4 DEF Fresh

LEMMA AddsFresh ==
    ASSUME Typed, Fresh, NEW t \in Workers, Adds(t)
    PROVE  Fresh'
<1>1. /\ pc'[t] = "addcb" /\ local'[t] = local[t]
      /\ \A u \in Workers : u # t => pc'[u] = pc[u] /\ local'[u] = local[u]
  BY GoesFacts DEF Adds
<1>2. InList' = InList \cup {local[t].info} /\ pc[t] = "add"
  BY AddsTyped DEF Adds
<1> QED
  BY <1>1, <1>2 DEF Fresh
-----------------------------------------------------------------------------
(* Ids. *)

LEMMA IdTypes ==
    ASSUME Typed
    PROVE  /\ \A b \in Live : usrInfo[b] \in UsrInfos /\ usrInfo[b].usrID \in Int
           /\ \A n \in Names : table[n] # NoRow => table[n] \in Rows /\ table[n].usrID \in Int
           /\ \A u \in Workers : pc[u] # "idle" => local[u].usr.usrID \in Int
<1>1. \A b \in Live : usrInfo[b] \in UsrInfos /\ usrInfo[b].usrID \in Int
  BY RowFacts, ConstFacts DEF Typed
<1>2. \A n \in Names : table[n] # NoRow => table[n] \in Rows /\ table[n].usrID \in Int
  BY TypesNow, RowFacts, ConstFacts
<1>3. \A u \in Workers : pc[u] # "idle" => local[u].usr.usrID \in Int
  BY CallFacts, RowFacts, ConstFacts
<1> QED
  BY <1>1, <1>2, <1>3

\* The blocks that the list or a call has after a step.
LEMMA LiveStep ==
    ASSUME Typed, NEW t \in Workers, NEW label, NEW c, Goes(t, label, c)
    PROVE  /\ \A b \in Live' : b \in InList' \/ b = c.info \/ b \in Live
           /\ \A b \in Live : b \in InList \/ b = local[t].info \/ b \in Live'
           /\ c.info # NoBlock => c.info \in Live'
           /\ InList' \subseteq Live'
<1>1. /\ pc'[t] = label /\ local'[t] = c
      /\ \A u \in Workers : u # t => pc'[u] = pc[u] /\ local'[u] = local[u]
  BY GoesFacts
<1>2. \A u \in Workers : u # t => local'[u].info = local[u].info
  BY <1>1
<1>3. local'[t].info = c.info
  BY <1>1
<1> QED
  BY <1>2, <1>3 DEF Live

LEMMA BoundedStep ==
    ASSUME Typed, Bounded, NEW t \in Workers, NEW label, NEW c, Goes(t, label, c),
           label # "createid", pc[t] # "createid", calls' \in {calls, calls + 1},
           lastId' = lastId,
           \A b \in Live' : usrInfo'[b].usrID \in Int /\ usrInfo'[b].usrID < Made,
           \A n \in Names : table'[n] # NoRow =>
               table'[n].usrID \in Int /\ table'[n].usrID < Made,
           label # "idle" => c.usr.usrID \in Int /\ c.usr.usrID < Made
    PROVE  Bounded'
<1>1. /\ pc'[t] = label /\ local'[t] = c
      /\ \A u \in Workers : u # t => pc'[u] = pc[u] /\ local'[u] = local[u]
  BY GoesFacts
<1>2. Creating' = Creating
  BY <1>1 DEF Creating
<1>3. /\ Made \in Int /\ lastId \in Nat /\ calls \in Nat /\ Cardinality(Creating) \in Nat
      /\ lastId <= Made
  BY MadeFacts
<1>4. Made' \in Int /\ Made <= Made'
  BY <1>2, <1>3 DEF Made
<1>5. \A u \in Workers : pc'[u] \notin {"idle", "createid"} => local'[u].usr.usrID < Made'
  <2> SUFFICES ASSUME NEW u \in Workers, pc'[u] \notin {"idle", "createid"}
               PROVE  local'[u].usr.usrID < Made'
    OBVIOUS
  <2>1. CASE u = t
    BY <1>1, <1>3, <1>4, <2>1
  <2>2. CASE u # t
    <3>1. local[u].usr.usrID < Made /\ local[u].usr.usrID \in Int
      BY <1>1, <2>2, IdTypes DEF Bounded
    <3> QED
      BY <1>1, <1>3, <1>4, <2>2, <3>1
  <2> QED
    BY <2>1, <2>2
<1>6. lastId' <= Made'
  BY <1>3, <1>4
<1>7. \A b \in Live' : usrInfo'[b].usrID < Made'
  BY <1>3, <1>4
<1>8. \A n \in Names : table'[n] # NoRow => table'[n].usrID < Made'
  BY <1>3, <1>4
<1>9. IsFiniteSet(Creating')
  BY <1>2 DEF Bounded
<1> QED
  BY <1>5, <1>6, <1>7, <1>8, <1>9 DEF Bounded

LEMMA OpensGoes ==
    ASSUME NEW t \in Workers, NEW label, NEW c, Opens(t, label, c), Typed
    PROVE  /\ Goes(t, label, c) /\ up /\ pc[t] = "idle" /\ local[t] = NoCall
           /\ local[t].on = {} /\ local[t].info = NoBlock
           /\ UNCHANGED <<table, up, list, usrInfo, usrMutex, lastId, crashes, idRisk>>
           /\ calls' = calls + 1 /\ InList' = InList /\ Live' = Live
           /\ c.on \subseteq Names /\ c.on # {} /\ label # "idle" /\ label # "add"
           /\ c.usr \in UsrInfos /\ (c.info # NoBlock => c.info \in InList)
<1>1. c \in CallVars /\ CallOK(label, c)
  BY DEF Opens
<1>2. Goes(t, label, c)
  <2>1. c = [on |-> c.on, info |-> c.info, usr |-> c.usr, old |-> c.old, level |-> c.level]
    BY <1>1 DEF CallVars
  <2> QED
    BY <2>1 DEF Opens, Begin, Goes
<1>3. /\ UNCHANGED <<table, up, list, usrInfo, usrMutex, lastId, crashes, idRisk>>
      /\ up /\ pc[t] = "idle" /\ calls' = calls + 1
  BY DEF Opens, Begin, usrListVars
<1>4. local[t] = NoCall /\ local[t].on = {} /\ local[t].info = NoBlock
  BY <1>3, CallFacts
<1>5. c.on \subseteq Names /\ c.on # {} /\ c.usr \in UsrInfos /\ label # "idle" /\ label # "add"
  BY <1>1 DEF CallVars, CallOK, Opens
<1>6. c.info # NoBlock => c.info \in InList
  BY <1>1 DEF Opens, CallOK
<1>7. InList' = InList
  BY <1>3 DEF InList
<1>8. Live' = Live
  <2>1. /\ \A b \in Live' : b \in InList' \/ b = c.info \/ b \in Live
        /\ \A b \in Live : b \in InList \/ b = local[t].info \/ b \in Live'
        /\ InList' \subseteq Live' /\ InList \subseteq Live /\ NoBlock \notin Live
        /\ NoBlock \notin Live'
    <3>1. NoBlock \notin InList /\ NoBlock \notin InList'
      BY <1>7, ListBlocks, ConstFacts
    <3> QED
      BY <1>2, <3>1, LiveStep DEF Live
  <2> QED
    BY <1>4, <1>6, <1>7, <2>1
<1> QED
  BY <1>2, <1>3, <1>4, <1>5, <1>6, <1>7, <1>8

LEMMA OpensBounded ==
    ASSUME Typed, Bounded, NEW t \in Workers, NEW label, NEW c, Opens(t, label, c)
    PROVE  Bounded'
<1>1. /\ Goes(t, label, c) /\ pc[t] = "idle" /\ Live' = Live /\ calls' = calls + 1
      /\ UNCHANGED <<table, usrInfo, lastId>> /\ c.usr \in UsrInfos /\ label # "idle"
  BY OpensGoes
<1>2. /\ \A b \in Live : usrInfo[b].usrID \in Int /\ usrInfo[b].usrID < Made
      /\ \A n \in Names : table[n] # NoRow => table[n].usrID \in Int /\ table[n].usrID < Made
  BY IdTypes DEF Bounded
<1>3. CASE label = "createid"
  <2>1. /\ pc'[t] = label /\ local'[t] = c
        /\ \A u \in Workers : u # t => pc'[u] = pc[u] /\ local'[u] = local[u]
    BY <1>1, GoesFacts
  <2>2. Creating' = Creating \cup {t} /\ t \notin Creating
    BY <1>1, <1>3, <2>1 DEF Creating
  <2>3. IsFiniteSet(Creating') /\ Cardinality(Creating') = Cardinality(Creating) + 1
    BY <2>2, FS_AddElement DEF Bounded
  <2>4. Cardinality(Creating) \in Nat /\ calls \in Nat
    BY MadeFacts
  <2>5. Made' = Made
    BY <1>1, <2>3, <2>4 DEF Made
  <2>6. \A u \in Workers : pc'[u] \notin {"idle", "createid"} => local'[u].usr.usrID < Made
    BY <1>3, <2>1 DEF Bounded
  <2> QED
    BY <1>1, <1>2, <2>3, <2>5, <2>6 DEF Bounded
<1>4. CASE label # "createid"
  <2>1. c.usr.usrID = usrInfo[c.info].usrID /\ c.info \in Live
    BY <1>4 DEF Opens, Live
  <2> QED
    BY <1>1, <1>2, <1>4, <2>1, BoundedStep
<1> QED
  BY <1>3, <1>4

LEMMA MakesBounded ==
    ASSUME Typed, Bounded, NEW t \in Workers, NEW id, NEW b, Makes(t, id, b)
    PROVE  Bounded'
<1> DEFINE usr == [local[t].usr EXCEPT !.usrID = id]
           c == [local[t] EXCEPT !.info = b, !.usr = usr]
<1>1. /\ pc[t] = "createid" /\ Goes(t, "add", c) /\ usrInfo' = [usrInfo EXCEPT ![b] = usr]
      /\ lastId' = id /\ UNCHANGED <<table, list, calls>> /\ b \in Blocks /\ id <= Made
      /\ id \in lastId .. MaxCalls
  BY DEF Makes
<1>2. usr.usrID = id /\ c.info = b /\ c.usr = usr
  <2>1. local[t] \in CallVars /\ local[t].usr \in UsrInfos
    BY <1>1, CallFacts
  <2>2. usr.usrID = id
    BY <2>1 DEF UsrInfos
  <2> HIDE DEF usr
  <2>3. c.info = b /\ c.usr = usr
    BY <2>1 DEF CallVars
  <2> QED
    BY <2>2, <2>3
<1> HIDE DEF c, usr
<1>3. /\ pc'[t] = "add" /\ local'[t] = c
      /\ \A u \in Workers : u # t => pc'[u] = pc[u] /\ local'[u] = local[u]
  BY <1>1, GoesFacts
<1>4. Creating' = Creating \ {t} /\ t \in Creating
  BY <1>1, <1>3 DEF Creating
<1>5. IsFiniteSet(Creating') /\ Cardinality(Creating') = Cardinality(Creating) - 1
  BY <1>4, FS_RemoveElement DEF Bounded
<1>6. /\ Made \in Int /\ lastId \in Nat /\ calls \in Nat /\ Cardinality(Creating) \in Nat
      /\ MaxCalls \in Nat
  BY MadeFacts
<1>7. Made' = Made + 1
  BY <1>1, <1>5, <1>6 DEF Made
<1>8. id \in Int /\ id < Made'
  BY <1>1, <1>6, <1>7
<1>9. ASSUME NEW d \in Live' PROVE usrInfo'[d].usrID < Made'
  <2>1. d = b \/ d \in Live
    <3>1. InList' = InList
      BY <1>1 DEF InList
    <3> QED
      BY <1>1, <1>2, <3>1, LiveStep DEF Live
  <2>2. CASE d = b
    BY <1>1, <1>2, <1>8, <2>2, TypesNow
  <2>3. CASE d # b
    <3>1. usrInfo[d].usrID \in Int /\ usrInfo[d].usrID < Made
      BY <2>1, <2>3, IdTypes DEF Bounded
    <3>2. usrInfo'[d] = usrInfo[d]
      BY <1>1, <2>3, TypesNow
    <3> QED
      BY <1>6, <1>7, <3>1, <3>2
  <2> QED
    BY <2>2, <2>3
<1>10. \A n \in Names : table'[n] # NoRow => table'[n].usrID < Made'
  BY <1>1, <1>6, <1>7, IdTypes DEF Bounded
<1>11. \A u \in Workers : pc'[u] \notin {"idle", "createid"} => local'[u].usr.usrID < Made'
  BY <1>2, <1>3, <1>6, <1>7, <1>8, IdTypes DEF Bounded
<1>12. lastId' <= Made'
  BY <1>1, <1>6, <1>7, <1>8
<1> QED
  BY <1>5, <1>9, <1>10, <1>11, <1>12 DEF Bounded

\* What an edit changes, and c, the variables of the call after it.
EditsTo(t, label, c, usr, new) ==
    LET b == local[t].info
    IN  /\ Goes(t, label, c) /\ c.usr = usr /\ c.info = b /\ c.on = local[t].on
        /\ c.old = local[t].old /\ c.level = local[t].level
        /\ b \in Blocks /\ b \in Live /\ b # NoBlock
        /\ usrInfo'[b] = new
        /\ \A d \in Blocks : d # b => usrInfo'[d] = usrInfo[d]
        /\ UNCHANGED <<table, up, list, lastId, calls, crashes, disturbed, acked, idRisk>>
        /\ InList' = InList /\ Live' = Live
        /\ new.usrID \in {usrInfo[b].usrID, local[t].usr.usrID}
        /\ usr.usrID \in {usrInfo[b].usrID, local[t].usr.usrID}
        /\ usr \in UsrInfos /\ new \in UsrInfos /\ up

LEMMA EditsGoes ==
    ASSUME Typed, NEW t \in Workers, NEW label, NEW usr, NEW new, Edits(t, label, usr, new)
    PROVE  \E c : EditsTo(t, label, c, usr, new)
<1> DEFINE c == [local[t] EXCEPT !.usr = usr]
           b == local[t].info
<1>1. /\ local[t] \in CallVars /\ b \in Blocks /\ b \in Live /\ b # NoBlock
      /\ usrInfo[b] \in UsrInfos /\ local[t].usr \in UsrInfos /\ up
  BY CallFacts DEF Edits
<1>2. c.usr = usr /\ c.info = b /\ c.on = local[t].on /\ c.old = local[t].old
      /\ c.level = local[t].level
  BY <1>1 DEF CallVars
<1>3. /\ Goes(t, label, c) /\ usrInfo' = [usrInfo EXCEPT ![b] = new]
      /\ UNCHANGED <<table, up, list, lastId, calls, crashes, disturbed, acked, idRisk>>
      /\ usr \in UsrInfos /\ new \in UsrInfos
  BY DEF Edits, usrHistVars
<1> HIDE DEF c
<1>4. usrInfo'[b] = new /\ \A d \in Blocks : d # b => usrInfo'[d] = usrInfo[d]
  BY <1>1, <1>3, TypesNow
<1>5. InList' = InList
  BY <1>3 DEF InList
<1>6. Live' = Live
  <2>1. /\ \A d \in Live' : d \in InList' \/ d = c.info \/ d \in Live
        /\ \A d \in Live : d \in InList \/ d = local[t].info \/ d \in Live'
        /\ c.info # NoBlock => c.info \in Live'
        /\ InList' \subseteq Live'
    BY <1>3, LiveStep
  <2> QED
    BY <1>1, <1>2, <1>5, <2>1 DEF Live
<1>7. new.usrID \in {usrInfo[b].usrID, local[t].usr.usrID}
  BY <1>1 DEF Edits, UsrInfos
<1>8. usr.usrID \in {usrInfo[b].usrID, local[t].usr.usrID}
  BY <1>7 DEF Edits
<1> QED
  BY <1>1, <1>2, <1>3, <1>4, <1>5, <1>6, <1>7, <1>8 DEF EditsTo

LEMMA EditsBounded ==
    ASSUME Typed, Bounded, NEW t \in Workers, NEW label, NEW usr, NEW new,
           Edits(t, label, usr, new)
    PROVE  Bounded'
<1> DEFINE b == local[t].info
<1>0. PICK c : EditsTo(t, label, c, usr, new)
  BY EditsGoes
<1>1. /\ Goes(t, label, c) /\ c.usr = usr /\ b \in Blocks /\ b \in Live
      /\ usrInfo'[b] = new /\ \A d \in Blocks : d # b => usrInfo'[d] = usrInfo[d]
      /\ UNCHANGED <<table, lastId, calls>> /\ Live' = Live
      /\ new.usrID \in {usrInfo[b].usrID, local[t].usr.usrID}
      /\ usr.usrID \in {usrInfo[b].usrID, local[t].usr.usrID}
  BY <1>0 DEF EditsTo
<1>2. label \notin {"createid", "idle"} /\ pc[t] \notin {"idle", "createid"}
  BY DEF Edits
<1>3. /\ \A d \in Live : usrInfo[d].usrID \in Int /\ usrInfo[d].usrID < Made
      /\ \A n \in Names : table[n] # NoRow => table[n].usrID \in Int /\ table[n].usrID < Made
      /\ local[t].usr.usrID \in Int /\ local[t].usr.usrID < Made
  BY <1>2, IdTypes DEF Bounded
<1>4. \A d \in Live' : usrInfo'[d].usrID \in Int /\ usrInfo'[d].usrID < Made
  <2>1. Live \subseteq Blocks
    BY ListBlocks, CallFacts DEF Live
  <2> QED
    BY <1>1, <1>3, <2>1
<1> QED
  BY <1>1, <1>2, <1>3, <1>4, BoundedStep

LEMMA AddsBounded ==
    ASSUME Typed, Fresh, Bounded, NEW t \in Workers, Adds(t)
    PROVE  Bounded'
<1>1. /\ Goes(t, "addcb", local[t]) /\ InList' = InList \cup {local[t].info}
      /\ UNCHANGED <<table, usrInfo, lastId, calls>> /\ pc[t] = "add"
  BY AddsTyped DEF Adds
<1>2. local[t].info \in Live /\ InList \subseteq Live
  BY <1>1, CallFacts DEF Live
<1>3. Live' \subseteq Live
  BY <1>1, <1>2, LiveStep
<1>4. /\ \A b \in Live : usrInfo[b].usrID \in Int /\ usrInfo[b].usrID < Made
      /\ \A n \in Names : table[n] # NoRow => table[n].usrID \in Int /\ table[n].usrID < Made
      /\ local[t].usr.usrID \in Int /\ local[t].usr.usrID < Made
  BY <1>1, IdTypes DEF Bounded
<1> QED
  BY <1>1, <1>3, <1>4, BoundedStep

LEMMA RemovesBounded ==
    ASSUME Typed, Bounded, NEW t \in Workers, Removes(t)
    PROVE  Bounded'
<1>1. /\ Goes(t, "delcb", local[t]) /\ InList' = InList \ {local[t].info}
      /\ UNCHANGED <<table, usrInfo, lastId, calls>> /\ pc[t] = "del"
  BY RemovesTyped DEF Removes
<1>2. local[t].info \in Live /\ InList \subseteq Live
  BY <1>1, CallFacts DEF Live
<1>3. Live' \subseteq Live
  BY <1>1, <1>2, LiveStep
<1>4. /\ \A b \in Live : usrInfo[b].usrID \in Int /\ usrInfo[b].usrID < Made
      /\ \A n \in Names : table[n] # NoRow => table[n].usrID \in Int /\ table[n].usrID < Made
      /\ local[t].usr.usrID \in Int /\ local[t].usr.usrID < Made
  BY <1>1, IdTypes DEF Bounded
<1> QED
  BY <1>1, <1>3, <1>4, BoundedStep

\* After a return the other calls and the list have the blocks that they had.
LEMMA ReturnsFacts ==
    ASSUME Typed, NEW t \in Workers, Returns(t)
    PROVE  /\ pc'[t] = "idle" /\ local'[t] = NoCall
           /\ local'[t].on = {} /\ local'[t].info = NoBlock
           /\ \A u \in Workers : u # t => pc'[u] = pc[u] /\ local'[u] = local[u]
           /\ InList' = InList /\ Live' \subseteq Live
           /\ UNCHANGED <<up, list, usrInfo, usrMutex, lastId, calls, crashes>>
<1>1. /\ pc'[t] = "idle" /\ local'[t] = NoCall
      /\ \A u \in Workers : u # t => pc'[u] = pc[u] /\ local'[u] = local[u]
  BY GoesFacts DEF Returns
<1>2. local'[t].on = {} /\ local'[t].info = NoBlock
  BY <1>1 DEF NoCall
<1>3. UNCHANGED <<up, list, usrInfo, usrMutex, lastId, calls, crashes>>
  BY DEF Returns, usrListVars
<1>4. InList' = InList
  BY <1>3 DEF InList
<1>5. Live' \subseteq Live
  BY <1>1, <1>2, <1>4 DEF Live
<1> QED
  BY <1>1, <1>2, <1>3, <1>4, <1>5

LEMMA ReturnsBounded ==
    ASSUME Typed, Bounded, NEW t \in Workers, Returns(t), pc[t] # "createid",
           \A n \in Names : table'[n] # NoRow =>
               table'[n].usrID \in Int /\ table'[n].usrID < Made
    PROVE  Bounded'
<1>1. Goes(t, "idle", NoCall)
  BY DEF Returns
<1>2. UNCHANGED <<usrInfo, lastId, calls>> /\ Live' \subseteq Live
  BY ReturnsFacts
<1>3. \A b \in Live : usrInfo[b].usrID \in Int /\ usrInfo[b].usrID < Made
  BY IdTypes DEF Bounded
<1> QED
  BY <1>1, <1>2, <1>3, BoundedStep

Stores(t) ==
    Inserts(t) \/ Updates(t) \/ RenamesNone(t) \/ \E old \in Names : Renames(t, old)

\* What the statements do with the table: rows keep their ids, or get that of the block.
LEMMA StoresTable ==
    ASSUME Typed, NEW t \in Workers, Stores(t)
    PROVE  /\ pc[t] \notin {"idle", "createid"} /\ Confirms(t)
           /\ table' \in [Names -> Rows \cup {NoRow}]
           /\ acked' \in [Names -> Passwords \cup {NoPass}]
           /\ idRisk' \in BOOLEAN
           /\ \A n \in Names : table'[n] # NoRow =>
                \/ \E m \in Names : table[m] # NoRow /\ table'[n].usrID = table[m].usrID
                \/ table'[n].usrID = usrInfo[local[t].info].usrID
<1>1. pc[t] \notin {"idle", "createid"} /\ Confirms(t)
  BY DEF Stores, Inserts, Updates, RenamesNone, Renames
<1>2. /\ local[t].usr \in UsrInfos /\ usrInfo[local[t].info] \in UsrInfos
      /\ local[t].usr.usrname \in Names /\ local[t].usr.passWord \in Passwords
      /\ usrInfo[local[t].info].usrname \in Names
  BY <1>1, CallFacts, RowFacts
<1>3. acked' \in [Names -> Passwords \cup {NoPass}]
  BY <1>1, <1>2, TypesNow DEF Confirms
<1>4. idRisk' \in BOOLEAN
  BY TypesNow DEF Stores, Inserts, Updates, RenamesNone, Renames
<1>5. table \in [Names -> Rows \cup {NoRow}]
  BY TypesNow
<1>6. /\ table' \in [Names -> Rows \cup {NoRow}]
      /\ \A n \in Names : table'[n] # NoRow =>
            \/ \E m \in Names : table[m] # NoRow /\ table'[n].usrID = table[m].usrID
            \/ table'[n].usrID = usrInfo[local[t].info].usrID
  <2>1. CASE Inserts(t)
    <3> DEFINE usr == usrInfo[local[t].info]
    <3>1. table' = [table EXCEPT ![usr.usrname] = RowOf(usr)]
      BY <2>1 DEF Inserts
    <3>2. RowOf(usr) \in Rows /\ RowOf(usr).usrID = usr.usrID
      BY <1>2, RowFacts DEF RowOf
    <3> QED
      BY <1>2, <1>5, <3>1, <3>2
  <2>2. CASE Updates(t)
    <3> DEFINE usr == local[t].usr
    <3>1. table' = [n \in Names |-> IF n = usr.usrname /\ table[n] # NoRow
                                    THEN SetUsrInfo(table[n], usr) ELSE table[n]]
      BY <2>2 DEF Updates
    <3>2. \A r \in Rows : SetUsrInfo(r, usr) \in Rows /\ SetUsrInfo(r, usr).usrID = r.usrID
      BY <1>2 DEF SetUsrInfo, Rows, UsrInfos
    <3> QED
      BY <1>5, <3>1, <3>2
  <2>3. CASE RenamesNone(t)
    BY <1>5, <2>3 DEF RenamesNone
  <2>4. CASE \E old \in Names : Renames(t, old)
    BY <1>5, <2>4 DEF Renames
  <2> QED
    BY <2>1, <2>2, <2>3, <2>4 DEF Stores
<1> QED
  BY <1>1, <1>3, <1>4, <1>6

LEMMA StoresTyped ==
    ASSUME Typed, NEW t \in Workers, Stores(t)
    PROVE  Typed' /\ InList' = InList
<1>1. /\ pc[t] \notin {"idle", "createid"} /\ Confirms(t)
      /\ table' \in [Names -> Rows \cup {NoRow}]
      /\ acked' \in [Names -> Passwords \cup {NoPass}] /\ idRisk' \in BOOLEAN
  BY StoresTable
<1>2. Returns(t) /\ disturbed' \subseteq Names
  BY <1>1, TypesNow DEF Confirms
<1> QED
  BY <1>1, <1>2, ReturnsTyped

LEMMA StoresBounded ==
    ASSUME Typed, Bounded, NEW t \in Workers, Stores(t)
    PROVE  Bounded'
<1>1. /\ pc[t] \notin {"idle", "createid"} /\ Returns(t)
      /\ table' \in [Names -> Rows \cup {NoRow}]
      /\ \A n \in Names : table'[n] # NoRow =>
            \/ \E m \in Names : table[m] # NoRow /\ table'[n].usrID = table[m].usrID
            \/ table'[n].usrID = usrInfo[local[t].info].usrID
  BY StoresTable DEF Confirms
<1>2. local[t].info \in Live
  BY <1>1, CallFacts
<1>3. \A n \in Names : table'[n] # NoRow => table'[n].usrID \in Int /\ table'[n].usrID < Made
  BY <1>1, <1>2, IdTypes DEF Bounded
<1> QED
  BY <1>1, <1>3, ReturnsBounded

LEMMA RefusesFailsTyped ==
    ASSUME Typed, NEW t \in Workers, Refuses(t) \/ Fails(t)
    PROVE  Typed' /\ InList' = InList /\ pc[t] \notin {"idle", "createid"}
<1>1. Returns(t) /\ pc[t] \notin {"idle", "createid"} /\ UNCHANGED <<table, acked, idRisk>>
  BY DEF Refuses, Fails, usrHistVars
<1>2. disturbed' \subseteq Names
  BY TypesNow, CallFacts DEF Refuses, Fails, usrHistVars
<1>3. /\ table' \in [Names -> Rows \cup {NoRow}]
      /\ acked' \in [Names -> Passwords \cup {NoPass}] /\ idRisk' \in BOOLEAN
  BY <1>1, TypesNow
<1> QED
  BY <1>1, <1>2, <1>3, ReturnsTyped

LEMMA RefusesFailsBounded ==
    ASSUME Typed, Bounded, NEW t \in Workers, Refuses(t) \/ Fails(t)
    PROVE  Bounded'
<1>1. Returns(t) /\ pc[t] \notin {"idle", "createid"} /\ UNCHANGED <<table, acked, idRisk>>
  BY DEF Refuses, Fails, usrHistVars
<1>2. \A n \in Names : table'[n] # NoRow => table'[n].usrID \in Int /\ table'[n].usrID < Made
  BY <1>1, IdTypes DEF Bounded
<1> QED
  BY <1>1, <1>2, ReturnsBounded
-----------------------------------------------------------------------------
(* Calls that overlap. *)

LEMMA ClosedSame ==
    ASSUME Closed, disturbed' = disturbed,
           \A u \in Workers : local'[u].on = local[u].on \/ local'[u].on = {}
    PROVE  Closed'
  BY DEF Closed, Clean

LEMMA FailsClosed ==
    ASSUME Typed, Closed, NEW t \in Workers, Fails(t)
    PROVE  /\ Closed'
           /\ \A u \in Workers : u # t => Clean(u)' = Clean(u)
           /\ Clean(t) \/ disturbed' = disturbed
<1>1. /\ local'[t].on = {} /\ \A u \in Workers : u # t => local'[u].on = local[u].on
      /\ disturbed' = disturbed \cup local[t].on
  BY ReturnsFacts DEF Fails
<1>2. Clean(t) \/ disturbed' = disturbed
  BY <1>1 DEF Closed
<1>3. \A u \in Workers : u # t => Clean(u)' = Clean(u)
  BY <1>1, <1>2 DEF Closed, Clean
<1>4. Closed'
  BY <1>1, <1>2, <1>3 DEF Closed, Clean
<1> QED
  BY <1>2, <1>3, <1>4

\* Which users are disturbed when a call begins.
LEMMA OpensDisturbs ==
    ASSUME NEW t \in Workers, NEW label, NEW c, Opens(t, label, c)
    PROVE  /\ disturbed \subseteq disturbed'
           /\ c.on \cap disturbed # {} => c.on \subseteq disturbed'
           /\ \A u \in Workers : local[u].on \cap c.on # {} =>
                c.on \subseteq disturbed' /\ local[u].on \subseteq disturbed'
           /\ \A x \in disturbed' : x \notin disturbed =>
                /\ c.on \subseteq disturbed'
                /\ \/ x \in c.on
                   \/ \E u \in Workers : x \in local[u].on /\ local[u].on \cap c.on # {}
<1> DEFINE others == {local[u].on : u \in Workers} \cup {disturbed}
           hit == {x \in others : x \cap c.on # {}}
<1>1. disturbed' = disturbed \cup UNION {c.on \cup o : o \in hit}
  BY DEF Opens, Begin
<1>2. \A o \in hit : c.on \subseteq disturbed' /\ o \subseteq disturbed'
  <2> HIDE DEF hit
  <2> TAKE o \in hit
  <2>1. c.on \cup o \subseteq UNION {c.on \cup x : x \in hit}
    OBVIOUS
  <2> QED
    BY <1>1, <2>1
<1>3. c.on \cap disturbed # {} => disturbed \in hit
  OBVIOUS
<1>4. \A u \in Workers : local[u].on \cap c.on # {} => local[u].on \in hit
  OBVIOUS
<1>5. \A x \in disturbed' : x \notin disturbed => \E o \in hit : x \in c.on \/ x \in o
  <2> HIDE DEF hit
  <2> QED
    BY <1>1
<1>6. \A o \in hit : o = disturbed \/ \E u \in Workers : o = local[u].on /\ local[u].on \cap c.on # {}
  OBVIOUS
<1>7. disturbed \subseteq disturbed'
  BY <1>1
<1> HIDE DEF hit, others
<1> QED
  BY <1>2, <1>3, <1>4, <1>5, <1>6, <1>7

LEMMA OpensClosed ==
    ASSUME Typed, Closed, NEW t \in Workers, NEW label, NEW c, Opens(t, label, c)
    PROVE  /\ Closed'
           /\ \A u \in Workers : u # t /\ Clean(u)' => Clean(u)
           /\ Clean(t)' => disturbed' = disturbed /\ \A n \in c.on : Quiet(n)
<1>1. /\ Goes(t, label, c) /\ c.on # {} /\ local[t].on = {}
  BY OpensGoes
<1>2. /\ local'[t] = c /\ \A u \in Workers : u # t => local'[u] = local[u]
  BY <1>1, GoesFacts
<1>3. /\ disturbed \subseteq disturbed'
      /\ c.on \cap disturbed # {} => c.on \subseteq disturbed'
      /\ \A u \in Workers : local[u].on \cap c.on # {} =>
                c.on \subseteq disturbed' /\ local[u].on \subseteq disturbed'
      /\ \A x \in disturbed' : x \notin disturbed =>
                /\ c.on \subseteq disturbed'
                /\ \/ x \in c.on
                   \/ \E u \in Workers : x \in local[u].on /\ local[u].on \cap c.on # {}
  BY OpensDisturbs
<1>4. \A u \in Workers : u # t /\ Clean(u)' => Clean(u)
  BY <1>2, <1>3 DEF Clean
<1>5. ASSUME Clean(t)' PROVE disturbed' = disturbed /\ \A n \in c.on : Quiet(n)
  <2>1. c.on \cap disturbed' = {}
    BY <1>2, <1>5 DEF Clean
  <2>2. disturbed' = disturbed
    BY <1>1, <1>3, <2>1
  <2>3. \A u \in Workers : local[u].on \cap c.on = {}
    BY <1>1, <1>3, <2>1
  <2> QED
    BY <2>1, <2>2, <2>3 DEF Quiet
<1>6. ASSUME NEW u \in Workers PROVE Clean(u)' \/ local'[u].on \subseteq disturbed'
  <2>1. CASE u = t
    <3>1. CASE c.on \subseteq disturbed'
      BY <1>2, <2>1, <3>1
    <3>2. CASE ~(c.on \subseteq disturbed')
      <4>1. disturbed' = disturbed
        BY <1>3, <3>2
      <4> QED
        BY <1>2, <1>3, <2>1, <3>2, <4>1 DEF Clean
    <3> QED
      BY <3>1, <3>2
  <2>2. CASE u # t
    <3>1. CASE local[u].on \cap c.on # {}
      BY <1>2, <1>3, <2>2, <3>1
    <3>2. CASE local[u].on \cap c.on = {} /\ Clean(u)
      <4>1. \A x \in local[u].on : x \notin disturbed'
        BY <1>3, <3>2 DEF Clean, Closed
      <4> QED
        BY <1>2, <2>2, <4>1 DEF Clean
    <3>3. CASE ~Clean(u)
      BY <1>2, <1>3, <2>2, <3>3 DEF Closed
    <3> QED
      BY <3>1, <3>2, <3>3
  <2> QED
    BY <2>1, <2>2
<1>7. ASSUME NEW u \in Workers, NEW w \in Workers, u # w, Clean(u)'
      PROVE  local'[u].on \cap local'[w].on = {}
  <2>1. CASE u = t
    <3>1. \A n \in c.on : Quiet(n)
      BY <1>5, <1>7, <2>1
    <3> QED
      BY <1>2, <1>7, <2>1, <3>1 DEF Quiet
  <2>2. CASE u # t
    <3>1. Clean(u)
      BY <1>4, <1>7, <2>2
    <3>2. CASE w = t
      BY <1>2, <1>3, <1>7, <2>2, <3>2 DEF Clean
    <3>3. CASE w # t
      BY <1>2, <1>7, <2>2, <3>1, <3>3 DEF Closed
    <3> QED
      BY <3>2, <3>3
  <2> QED
    BY <2>1, <2>2
<1>8. Closed'
  BY <1>6, <1>7 DEF Closed
<1> QED
  BY <1>4, <1>5, <1>8
-----------------------------------------------------------------------------
(* Ids and blocks, as long as no id may have been given twice. *)

LEMMA OwnedStep ==
    ASSUME Typed, Fresh, Owned, NEW t \in Workers, NEW label, NEW c, Goes(t, label, c),
           Live' = Live, \A b \in Live : usrInfo'[b].usrID = usrInfo[b].usrID,
           label # "add", label = "addcb" => pc[t] = "add" /\ c = local[t],
           pc[t] # "delcb", up' = up,
           c.info \in InList \cup {NoBlock, local[t].info},
           label \notin {"idle", "createid"} =>
               c.info \in Live /\ c.usr.usrID = usrInfo[c.info].usrID,
           c.info # NoBlock => \/ c.info \in InList' \/ label = "delcb"
                               \/ \E w \in Workers : /\ w # t /\ pc[w] = "delcb"
                                                      /\ local[w].info = c.info,
           \A b \in InList : b \in InList' \/ (label = "delcb" /\ c.info = b),
           \A n \in DefaultUsrs : table'[n] # NoRow,
           \A n, m \in Names : table'[n] # NoRow /\ table'[m] # NoRow
               /\ table'[n].usrID = table'[m].usrID => n = m,
           up => \A n \in Names : table'[n] # NoRow =>
               \E b \in Live : usrInfo[b].usrID = table'[n].usrID,
           \A u \in Workers, n \in Names : pc'[u] \in {"add", "addcb"} /\ table'[n] # NoRow =>
               table'[n].usrID # usrInfo[local[u].info].usrID
    PROVE  Owned'
<1>1. /\ pc'[t] = label /\ local'[t] = c
      /\ \A u \in Workers : u # t => pc'[u] = pc[u] /\ local'[u] = local[u]
  BY GoesFacts
<1>2. \A b, d \in Live' : usrInfo'[b].usrID = usrInfo'[d].usrID => b = d
  BY DEF Owned
<1>3. ASSUME NEW u \in Workers, local'[u].info # NoBlock
      PROVE  \/ local'[u].info \in InList'
             \/ pc'[u] = "add"
             \/ \E w \in Workers : pc'[w] = "delcb" /\ local'[w].info = local'[u].info
  <2>1. CASE u = t
    BY <1>1, <1>3, <2>1
  <2>2. CASE u # t
    <3>1. \/ local[u].info \in InList
          \/ pc[u] = "add"
          \/ \E w \in Workers : pc[w] = "delcb" /\ local[w].info = local[u].info
      BY <1>1, <1>3, <2>2 DEF Owned
    <3> QED
      BY <1>1, <2>2, <3>1
  <2> QED
    BY <2>1, <2>2
<1>4. ASSUME NEW u \in Workers, NEW w \in Workers, pc'[u] = "add",
             local'[w].info = local'[u].info
      PROVE  u = w
  <2>1. u # t /\ pc[u] = "add" /\ local'[u] = local[u]
    BY <1>1, <1>4
  <2>2. local[u].info \in Blocks /\ local[u].info \notin InList /\ local[u].info # NoBlock
    BY <2>1, CallFacts DEF Fresh
  <2>3. CASE w = t
    <3>1. c.info = local[u].info
      BY <1>1, <1>4, <2>1, <2>3
    <3>2. local[t].info = local[u].info
      BY <2>2, <3>1
    <3> QED
      BY <2>1, <3>2 DEF Owned
  <2>4. CASE w # t
    BY <1>1, <1>4, <2>1, <2>4 DEF Owned
  <2> QED
    BY <2>3, <2>4
<1>5. ASSUME NEW u \in Workers, NEW w \in Workers, pc'[u] = "addcb", pc'[w] = "addcb",
             local'[w].info = local'[u].info
      PROVE  u = w
  BY <1>1, <1>5 DEF Owned
<1>6. \A u, w \in Workers : pc'[u] = "add" /\ pc'[w] = "add" => u = w
  BY <1>1 DEF Owned
<1>7. \A u \in Workers : pc'[u] \notin {"idle", "createid"} =>
         local'[u].usr.usrID = usrInfo'[local'[u].info].usrID
  <2> SUFFICES ASSUME NEW u \in Workers, pc'[u] \notin {"idle", "createid"}
               PROVE  local'[u].usr.usrID = usrInfo'[local'[u].info].usrID
    OBVIOUS
  <2>1. CASE u = t
    BY <1>1, <2>1
  <2>2. CASE u # t
    <3>1. local[u].info \in Live
      BY <1>1, <2>2, CallFacts
    <3> QED
      BY <1>1, <2>2, <3>1 DEF Owned
  <2> QED
    BY <2>1, <2>2
<1>8. \A u \in Workers, n \in Names : pc'[u] \in {"add", "addcb"} /\ table'[n] # NoRow =>
          table'[n].usrID # usrInfo'[local'[u].info].usrID
  <2> SUFFICES ASSUME NEW u \in Workers, NEW n \in Names, pc'[u] \in {"add", "addcb"},
                      table'[n] # NoRow
               PROVE  table'[n].usrID # usrInfo'[local'[u].info].usrID
    OBVIOUS
  <2>1. local'[u] = local[u] /\ pc[u] \in {"add", "addcb"}
    BY <1>1
  <2>2. local[u].info \in Live
    BY <2>1, CallFacts
  <2> QED
    BY <2>1, <2>2
<1>9. up' => \A n \in Names : table'[n] # NoRow => \E b \in Live' : usrInfo'[b].usrID = table'[n].usrID
  OBVIOUS
<1> QED
  BY <1>2, <1>3, <1>4, <1>5, <1>6, <1>7, <1>8, <1>9 DEF Owned

\* The same for steps that leave the table alone.
LEMMA OwnedSameTable ==
    ASSUME Typed, Fresh, Owned, NEW t \in Workers, NEW label, NEW c, Goes(t, label, c),
           Live' = Live, \A b \in Live : usrInfo'[b].usrID = usrInfo[b].usrID,
           label # "add", label = "addcb" => pc[t] = "add" /\ c = local[t],
           pc[t] # "delcb", up' = up,
           c.info \in InList \cup {NoBlock, local[t].info},
           label \notin {"idle", "createid"} =>
               c.info \in Live /\ c.usr.usrID = usrInfo[c.info].usrID,
           c.info # NoBlock => \/ c.info \in InList' \/ label = "delcb"
                               \/ \E w \in Workers : /\ w # t /\ pc[w] = "delcb"
                                                      /\ local[w].info = c.info,
           \A b \in InList : b \in InList' \/ (label = "delcb" /\ c.info = b),
           table' = table
    PROVE  Owned'
<1>1. /\ pc'[t] = label
      /\ \A u \in Workers : u # t => pc'[u] = pc[u]
  BY GoesFacts
<1>2. /\ \A n \in DefaultUsrs : table'[n] # NoRow
      /\ \A n, m \in Names : table'[n] # NoRow /\ table'[m] # NoRow
               /\ table'[n].usrID = table'[m].usrID => n = m
      /\ up => \A n \in Names : table'[n] # NoRow =>
               \E b \in Live : usrInfo[b].usrID = table'[n].usrID
  BY DEF Owned
<1>3. \A u \in Workers, n \in Names : pc'[u] \in {"add", "addcb"} /\ table'[n] # NoRow =>
               table'[n].usrID # usrInfo[local[u].info].usrID
  BY <1>1 DEF Owned
<1> QED
  BY <1>2, <1>3, OwnedStep

LEMMA OpensOwned ==
    ASSUME Typed, Fresh, Owned, NEW t \in Workers, NEW label, NEW c, Opens(t, label, c)
    PROVE  Owned'
<1>1. /\ Goes(t, label, c) /\ up /\ pc[t] = "idle" /\ Live' = Live /\ InList' = InList
      /\ UNCHANGED <<table, up, usrInfo>> /\ label # "add"
      /\ c.info # NoBlock => c.info \in InList
  BY OpensGoes
<1>2. label \notin {"addcb", "delcb", "idle"}
  BY DEF Opens
<1>3. label # "createid" => c.info \in InList /\ c.info \in Live
                            /\ c.usr.usrID = usrInfo[c.info].usrID
  BY DEF Opens, Live
<1> QED
  BY <1>1, <1>2, <1>3, OwnedSameTable

LEMMA EditsOwned ==
    ASSUME Typed, Fresh, Owned, NEW t \in Workers, NEW label, NEW usr, NEW new,
           Edits(t, label, usr, new)
    PROVE  Owned' /\ new.usrID = usrInfo[local[t].info].usrID
           /\ usr.usrID = usrInfo[local[t].info].usrID
<1> DEFINE b == local[t].info
<1>1. PICK c : EditsTo(t, label, c, usr, new)
  BY EditsGoes
<1>2. /\ Goes(t, label, c) /\ c.usr = usr /\ c.info = b /\ b \in Blocks /\ b \in Live
      /\ b # NoBlock /\ usrInfo'[b] = new /\ \A d \in Blocks : d # b => usrInfo'[d] = usrInfo[d]
      /\ UNCHANGED <<table, up, list>> /\ Live' = Live /\ InList' = InList
      /\ new.usrID \in {usrInfo[b].usrID, local[t].usr.usrID}
      /\ usr.usrID \in {usrInfo[b].usrID, local[t].usr.usrID}
  BY <1>1 DEF EditsTo
<1>3. label \notin {"idle", "createid", "add", "addcb", "delcb"}
      /\ pc[t] \in {"password", "memcpy", "restore", "compose", "bind"}
  BY DEF Edits
<1>4. local[t].usr.usrID = usrInfo[b].usrID
  BY <1>3 DEF Owned
<1>5. new.usrID = usrInfo[b].usrID /\ usr.usrID = usrInfo[b].usrID
  BY <1>2, <1>4
<1>6. \A d \in Live : usrInfo'[d].usrID = usrInfo[d].usrID
  <2>1. Live \subseteq Blocks
    BY ListBlocks, CallFacts DEF Live
  <2> QED
    BY <1>2, <1>5, <2>1
<1>7. b \in InList \/ \E w \in Workers : w # t /\ pc[w] = "delcb" /\ local[w].info = b
  BY <1>2, <1>3 DEF Owned
<1>8. Owned'
  BY <1>2, <1>3, <1>5, <1>6, <1>7, OwnedSameTable
<1> QED
  BY <1>5, <1>8

LEMMA AddsOwned ==
    ASSUME Typed, Fresh, Owned, NEW t \in Workers, Adds(t)
    PROVE  Owned' /\ Live' = Live
<1>1. /\ Goes(t, "addcb", local[t]) /\ InList' = InList \cup {local[t].info}
      /\ UNCHANGED <<table, up, usrInfo>> /\ pc[t] = "add"
  BY AddsTyped DEF Adds
<1>2. local[t].info \in Live /\ InList \subseteq Live
  BY <1>1, CallFacts DEF Live
<1>3. /\ \A b \in Live' : b \in InList' \/ b = local[t].info \/ b \in Live
      /\ \A b \in Live : b \in InList \/ b = local[t].info \/ b \in Live'
      /\ InList' \subseteq Live'
  BY <1>1, LiveStep
<1>4. Live' = Live
  BY <1>1, <1>2, <1>3
<1>5. local[t].usr.usrID = usrInfo[local[t].info].usrID
  BY <1>1 DEF Owned
<1> QED
  BY <1>1, <1>2, <1>4, <1>5, OwnedSameTable

LEMMA RemovesOwned ==
    ASSUME Typed, Fresh, Owned, NEW t \in Workers, Removes(t)
    PROVE  Owned' /\ Live' = Live
<1>1. /\ Goes(t, "delcb", local[t]) /\ InList' = InList \ {local[t].info}
      /\ UNCHANGED <<table, up, usrInfo>> /\ pc[t] = "del"
  BY RemovesTyped DEF Removes
<1>2. local[t].info \in Live /\ InList \subseteq Live /\ local[t].info # NoBlock
  BY <1>1, CallFacts DEF Live
<1>3. /\ \A b \in Live' : b \in InList' \/ b = local[t].info \/ b \in Live
      /\ \A b \in Live : b \in InList \/ b = local[t].info \/ b \in Live'
      /\ InList' \subseteq Live' /\ local[t].info \in Live'
  BY <1>1, <1>2, LiveStep
<1>4. Live' = Live
  BY <1>1, <1>2, <1>3
<1>5. local[t].usr.usrID = usrInfo[local[t].info].usrID
  BY <1>1 DEF Owned
<1> QED
  BY <1>1, <1>2, <1>4, <1>5, OwnedSameTable

\* A call that returns leaves its block in the list, or to the thread that takes it off.
LEMMA ReturnsLive ==
    ASSUME Typed, Owned, NEW t \in Workers, Returns(t), pc[t] \notin {"add", "delcb"}
    PROVE  Live' = Live
<1>1. /\ \A u \in Workers : u # t => local'[u] = local[u]
      /\ InList' = InList /\ Live' \subseteq Live
  BY ReturnsFacts
<1>2. ASSUME NEW b \in Live PROVE b \in Live'
  <2>1. CASE b \in InList
    BY <1>1, <2>1 DEF Live
  <2>2. CASE \E u \in Workers : u # t /\ b = local[u].info /\ b # NoBlock
    BY <1>1, <2>2 DEF Live
  <2>3. CASE b = local[t].info /\ b # NoBlock
    <3>1. \/ b \in InList
          \/ \E w \in Workers : w # t /\ local[w].info = b
      BY <2>3 DEF Owned
    <3> QED
      BY <2>1, <2>2, <2>3, <3>1
  <2> QED
    BY <2>1, <2>2, <2>3 DEF Live
<1> QED
  BY <1>1, <1>2

LEMMA ReturnsOwned ==
    ASSUME Typed, Fresh, Owned, NEW t \in Workers, Returns(t), pc[t] \notin {"add", "delcb"},
           \A n \in DefaultUsrs : table'[n] # NoRow,
           \A n, m \in Names : table'[n] # NoRow /\ table'[m] # NoRow
               /\ table'[n].usrID = table'[m].usrID => n = m,
           \A n \in Names : table'[n] # NoRow =>
               \E b \in Live : usrInfo[b].usrID = table'[n].usrID,
           \A u \in Workers, n \in Names :
               u # t /\ pc[u] \in {"add", "addcb"} /\ table'[n] # NoRow =>
                   table'[n].usrID # usrInfo[local[u].info].usrID
    PROVE  Owned' /\ Live' = Live
<1>1. /\ Goes(t, "idle", NoCall) /\ NoCall.info = NoBlock
  BY DEF Returns, NoCall
<1>2. /\ pc'[t] = "idle" /\ \A u \in Workers : u # t => pc'[u] = pc[u]
      /\ InList' = InList /\ UNCHANGED <<up, usrInfo>>
  BY ReturnsFacts
<1>3. Live' = Live
  BY ReturnsLive
<1>4. \A u \in Workers, n \in Names : pc'[u] \in {"add", "addcb"} /\ table'[n] # NoRow =>
               table'[n].usrID # usrInfo[local[u].info].usrID
  BY <1>2
<1>5. Owned'
  BY <1>1, <1>2, <1>3, <1>4, OwnedStep
<1> QED
  BY <1>3, <1>5

LEMMA RefusesFailsOwned ==
    ASSUME Typed, Fresh, Owned, NEW t \in Workers, Refuses(t) \/ Fails(t)
    PROVE  Owned' /\ Live' = Live
<1>1. /\ Returns(t) /\ pc[t] \notin {"add", "delcb", "idle"} /\ table' = table
  BY DEF Refuses, Fails
<1>2. up
  BY <1>1, CallFacts
<1>3. /\ \A n \in DefaultUsrs : table'[n] # NoRow
      /\ \A n, m \in Names : table'[n] # NoRow /\ table'[m] # NoRow
               /\ table'[n].usrID = table'[m].usrID => n = m
      /\ \A n \in Names : table'[n] # NoRow =>
               \E b \in Live : usrInfo[b].usrID = table'[n].usrID
      /\ \A u \in Workers, n \in Names :
               u # t /\ pc[u] \in {"add", "addcb"} /\ table'[n] # NoRow =>
                   table'[n].usrID # usrInfo[local[u].info].usrID
  BY <1>1, <1>2 DEF Owned
<1> QED
  BY <1>1, <1>3, ReturnsOwned

LEMMA InsertsOwned ==
    ASSUME Typed, Fresh, Owned, NEW t \in Workers, Inserts(t)
    PROVE  Owned' /\ Live' = Live
<1> DEFINE b == local[t].info
           usr == usrInfo[b]
<1>1. /\ Returns(t) /\ pc[t] = "addcb" /\ table[usr.usrname] = NoRow
      /\ table' = [table EXCEPT ![usr.usrname] = RowOf(usr)]
  BY DEF Inserts, Confirms
<1>2. up /\ usr \in UsrInfos /\ b \in Live
  BY <1>1, CallFacts
<1>3. /\ usr.usrname \in Names /\ RowOf(usr) \in Rows /\ RowOf(usr).usrID = usr.usrID
      /\ RowOf(usr) # NoRow
  BY <1>2, RowFacts DEF RowOf
<1> HIDE DEF usr
<1>4. /\ table'[usr.usrname] = RowOf(usr)
      /\ \A n \in Names : n # usr.usrname => table'[n] = table[n]
  BY <1>1, <1>3, TypesNow
<1>5. \A n \in Names : table[n] # NoRow => table[n].usrID # usr.usrID
  BY <1>1 DEF Owned, usr
<1>6. \A n \in DefaultUsrs : table'[n] # NoRow
  BY <1>3, <1>4, UsrAssumption DEF Owned
<1>7. \A n, m \in Names : table'[n] # NoRow /\ table'[m] # NoRow
               /\ table'[n].usrID = table'[m].usrID => n = m
  BY <1>3, <1>4, <1>5 DEF Owned
<1>8. \A n \in Names : table'[n] # NoRow => \E d \in Live : usrInfo[d].usrID = table'[n].usrID
  BY <1>2, <1>3, <1>4 DEF Owned, usr
<1>9. ASSUME NEW u \in Workers, NEW n \in Names, u # t, pc[u] \in {"add", "addcb"},
             table'[n] # NoRow
      PROVE  table'[n].usrID # usrInfo[local[u].info].usrID
  <2>1. CASE n # usr.usrname
    BY <1>4, <1>9, <2>1 DEF Owned
  <2>2. CASE n = usr.usrname
    <3>1. local[u].info # b
      BY <1>1, <1>9 DEF Owned
    <3>2. local[u].info \in Live
      BY <1>9, CallFacts
    <3>3. usrInfo[local[u].info].usrID # usrInfo[b].usrID
      BY <1>2, <3>1, <3>2 DEF Owned
    <3> QED
      BY <1>3, <1>4, <2>2, <3>3 DEF usr
  <2> QED
    BY <2>1, <2>2
<1> QED
  BY <1>1, <1>6, <1>7, <1>8, <1>9, ReturnsOwned

LEMMA UpdatesOwned ==
    ASSUME Typed, Fresh, Owned, NEW t \in Workers, Updates(t)
    PROVE  Owned' /\ Live' = Live
           /\ \A n \in Names : /\ table'[n] # NoRow <=> table[n] # NoRow
                               /\ table'[n].usrID = table[n].usrID
<1> DEFINE usr == local[t].usr
<1>1. /\ Returns(t) /\ pc[t] = "setcb"
      /\ table' = [n \in Names |-> IF n = usr.usrname /\ table[n] # NoRow
                                   THEN SetUsrInfo(table[n], usr) ELSE table[n]]
  BY DEF Updates, Confirms
<1>2. up /\ usr \in UsrInfos
  BY <1>1, CallFacts
<1>3. \A r \in Rows : SetUsrInfo(r, usr) \in Rows /\ SetUsrInfo(r, usr).usrID = r.usrID
  BY <1>2 DEF SetUsrInfo, Rows, UsrInfos
<1>4. \A n \in Names : /\ table'[n] # NoRow <=> table[n] # NoRow
                       /\ table'[n].usrID = table[n].usrID
  BY <1>1, <1>3, TypesNow, RowFacts
<1>5. \A n \in DefaultUsrs : table'[n] # NoRow
  BY <1>4, UsrAssumption DEF Owned
<1>6. \A n, m \in Names : table'[n] # NoRow /\ table'[m] # NoRow
               /\ table'[n].usrID = table'[m].usrID => n = m
  BY <1>4 DEF Owned
<1>7. \A n \in Names : table'[n] # NoRow => \E d \in Live : usrInfo[d].usrID = table'[n].usrID
  BY <1>2, <1>4 DEF Owned
<1>8. \A u \in Workers, n \in Names :
               u # t /\ pc[u] \in {"add", "addcb"} /\ table'[n] # NoRow =>
                   table'[n].usrID # usrInfo[local[u].info].usrID
  BY <1>4 DEF Owned
<1> QED
  BY <1>1, <1>4, <1>5, <1>6, <1>7, <1>8, ReturnsOwned

LEMMA RenamesNoneOwned ==
    ASSUME Typed, Fresh, Owned, NEW t \in Workers, RenamesNone(t)
    PROVE  Owned' /\ Live' = Live
<1>1. Returns(t) /\ pc[t] = "bindcb" /\ table' = table
  BY DEF RenamesNone, Confirms
<1>2. up
  BY <1>1, CallFacts
<1>3. /\ \A n \in DefaultUsrs : table'[n] # NoRow
      /\ \A n, m \in Names : table'[n] # NoRow /\ table'[m] # NoRow
               /\ table'[n].usrID = table'[m].usrID => n = m
      /\ \A n \in Names : table'[n] # NoRow =>
               \E b \in Live : usrInfo[b].usrID = table'[n].usrID
      /\ \A u \in Workers, n \in Names :
               u # t /\ pc[u] \in {"add", "addcb"} /\ table'[n] # NoRow =>
                   table'[n].usrID # usrInfo[local[u].info].usrID
  BY <1>1, <1>2 DEF Owned
<1> QED
  BY <1>1, <1>3, ReturnsOwned

\* What a rename does with the table.
LEMMA RenamesTable ==
    ASSUME Typed, NEW t \in Workers, NEW old \in Names, Renames(t, old)
    PROVE  LET n == local[t].usr.usrname
           IN  /\ Returns(t) /\ pc[t] = "bindcb" /\ n \in Names /\ up
               /\ table[old] # NoRow /\ table[old].usrID = local[t].usr.usrID
               /\ \A m \in Names : table[m] # NoRow /\ table[m].usrID = local[t].usr.usrID
                                   => m = old
               /\ n # old => table[n] = NoRow /\ table'[old] = NoRow
               /\ table'[n] = table[old]
               /\ \A m \in Names : m # n /\ m # old => table'[m] = table[m]
               /\ ~idRisk' => old \notin DefaultUsrs \/ old = n
<1> DEFINE n == local[t].usr.usrname
<1>1. /\ Returns(t) /\ pc[t] = "bindcb" /\ RowsWithId(local[t].usr.usrID) = {old}
      /\ n # old => table[n] = NoRow
      /\ table' = [m \in Names |-> IF m = n THEN table[old] ELSE IF m = old THEN NoRow ELSE table[m]]
      /\ idRisk' = (idRisk \/ old \in DefaultUsrs \ {n})
  BY DEF Renames, Confirms
<1>2. n \in Names /\ up
  BY <1>1, CallFacts, RowFacts
<1> HIDE DEF n
<1>3. /\ table[old] # NoRow /\ table[old].usrID = local[t].usr.usrID
      /\ \A m \in Names : table[m] # NoRow /\ table[m].usrID = local[t].usr.usrID => m = old
  BY <1>1 DEF RowsWithId
<1>4. /\ n # old => table'[old] = NoRow
      /\ table'[n] = table[old] /\ \A m \in Names : m # n /\ m # old => table'[m] = table[m]
  BY <1>1, <1>2
<1>5. ~idRisk' => old \notin DefaultUsrs \/ old = n
  BY <1>1
<1> QED
  BY <1>1, <1>2, <1>3, <1>4, <1>5 DEF n

LEMMA RenamesOwned ==
    ASSUME Typed, Fresh, Owned, NEW t \in Workers, NEW old \in Names, Renames(t, old), ~idRisk'
    PROVE  Owned' /\ Live' = Live
<1> DEFINE n == local[t].usr.usrname
<1>1. /\ Returns(t) /\ pc[t] = "bindcb" /\ n \in Names /\ up
      /\ table[old] # NoRow
      /\ n # old => table[n] = NoRow /\ table'[old] = NoRow
      /\ table'[n] = table[old]
      /\ \A m \in Names : m # n /\ m # old => table'[m] = table[m]
      /\ old \notin DefaultUsrs \/ old = n
  BY RenamesTable
<1> HIDE DEF n
<1>2. \A m \in DefaultUsrs : table'[m] # NoRow
  BY <1>1, UsrAssumption DEF Owned
<1>3. \A m \in Names : table'[m] # NoRow =>
         IF m = n THEN table'[m] = table[old] ELSE m # old /\ table'[m] = table[m]
  BY <1>1
<1>4. \A m, k \in Names : table'[m] # NoRow /\ table'[k] # NoRow
               /\ table'[m].usrID = table'[k].usrID => m = k
  BY <1>1, <1>3 DEF Owned
<1>5. \A m \in Names : table'[m] # NoRow => \E d \in Live : usrInfo[d].usrID = table'[m].usrID
  BY <1>1, <1>3 DEF Owned
<1>6. \A u \in Workers, m \in Names :
               u # t /\ pc[u] \in {"add", "addcb"} /\ table'[m] # NoRow =>
                   table'[m].usrID # usrInfo[local[u].info].usrID
  BY <1>1, <1>3 DEF Owned
<1> QED
  BY <1>1, <1>2, <1>4, <1>5, <1>6, ReturnsOwned

\* While nobody else has an id that the list does not have, every block is in the list.
LEMMA MakesFacts ==
    ASSUME Typed, Owned, NEW t \in Workers, NEW id, NEW b, Makes(t, id, b), ~idRisk'
    PROVE  /\ Live = InList /\ Live' = Live \cup {b} /\ b \notin Live /\ b \in Blocks
           /\ \A u \in Workers : pc[u] \notin {"add", "delcb"}
           /\ \A d \in Live : usrInfo'[d] = usrInfo[d] /\ usrInfo[d].usrID # id
           /\ pc'[t] = "add" /\ local'[t].info = b /\ local'[t].on = local[t].on
           /\ local'[t].usr = usrInfo'[b] /\ usrInfo'[b].usrID = id
           /\ usrInfo'[b].usrname = local[t].usr.usrname
           /\ \A u \in Workers : u # t => pc'[u] = pc[u] /\ local'[u] = local[u]
           /\ InList' = InList /\ UNCHANGED <<table, up, list, disturbed, acked>> /\ up
<1> DEFINE usr == [local[t].usr EXCEPT !.usrID = id]
           c == [local[t] EXCEPT !.info = b, !.usr = usr]
<1>1. /\ pc[t] = "createid" /\ Goes(t, "add", c) /\ usrInfo' = [usrInfo EXCEPT ![b] = usr]
      /\ UNCHANGED <<table, up, list, disturbed, acked>> /\ b \in Blocks
      /\ b \notin InList /\ GetHandleByInt(id) = {}
      /\ idRisk' = (idRisk \/ \E u \in Workers : pc[u] \in {"add", "delcb"})
  BY DEF Makes
<1>2. local[t] \in CallVars /\ local[t].usr \in UsrInfos /\ up
  BY <1>1, CallFacts
<1>3. usr.usrID = id /\ usr.usrname = local[t].usr.usrname
  BY <1>2 DEF UsrInfos
<1> HIDE DEF usr
<1>4. c.info = b /\ c.usr = usr /\ c.on = local[t].on
  BY <1>2 DEF CallVars
<1> HIDE DEF c
<1>5. /\ pc'[t] = "add" /\ local'[t] = c
      /\ \A u \in Workers : u # t => pc'[u] = pc[u] /\ local'[u] = local[u]
  BY <1>1, GoesFacts
<1>6. \A u \in Workers : pc[u] \notin {"add", "delcb"}
  BY <1>1
<1>7. Live = InList
  BY <1>6 DEF Live, Owned
<1>8. InList' = InList
  BY <1>1 DEF InList
<1>9. Live' = Live \cup {b}
  <2>1. /\ \A d \in Live' : d \in InList' \/ d = c.info \/ d \in Live
        /\ c.info # NoBlock => c.info \in Live'
        /\ InList' \subseteq Live'
    BY <1>1, LiveStep
  <2>2. b # NoBlock
    BY <1>1, ConstFacts
  <2> QED
    BY <1>4, <1>7, <1>8, <2>1, <2>2
<1>10. usrInfo'[b] = usr /\ \A d \in Blocks : d # b => usrInfo'[d] = usrInfo[d]
  BY <1>1, TypesNow
<1>11. \A d \in Live : usrInfo'[d] = usrInfo[d] /\ usrInfo[d].usrID # id
  BY <1>1, <1>7, <1>10, ListBlocks DEF GetHandleByInt
<1> QED
  BY <1>1, <1>2, <1>3, <1>4, <1>5, <1>6, <1>7, <1>8, <1>9, <1>10, <1>11

LEMMA MakesOwned ==
    ASSUME Typed, Fresh, Owned, NEW t \in Workers, NEW id, NEW b, Makes(t, id, b), ~idRisk'
    PROVE  /\ Owned'
           /\ \A n \in Names : table[n] # NoRow => table[n].usrID # id
<1>1. /\ Live = InList /\ Live' = Live \cup {b} /\ b \notin Live /\ b \in Blocks
      /\ \A u \in Workers : pc[u] \notin {"add", "delcb"}
      /\ \A d \in Live : usrInfo'[d] = usrInfo[d] /\ usrInfo[d].usrID # id
      /\ pc'[t] = "add" /\ local'[t].info = b
      /\ local'[t].usr = usrInfo'[b] /\ usrInfo'[b].usrID = id
      /\ \A u \in Workers : u # t => pc'[u] = pc[u] /\ local'[u] = local[u]
      /\ InList' = InList /\ UNCHANGED <<table, up>> /\ up
  BY MakesFacts
<1>2. \A n \in Names : table[n] # NoRow => table[n].usrID # id
  BY <1>1 DEF Owned
<1>3. \A u \in Workers : u # t => local[u].info # b
  <2>1. b # NoBlock
    BY <1>1, ConstFacts
  <2> QED
    BY <1>1, <2>1 DEF Live
<1>4. \A u \in Workers : pc[u] \notin {"idle", "createid"} => local[u].info \in Live
  BY CallFacts
<1>5. \A d, e \in Live' : usrInfo'[d].usrID = usrInfo'[e].usrID => d = e
  BY <1>1 DEF Owned
<1>6. \A u \in Workers : local'[u].info # NoBlock =>
        \/ local'[u].info \in InList'
        \/ pc'[u] = "add"
        \/ \E w \in Workers : pc'[w] = "delcb" /\ local'[w].info = local'[u].info
  BY <1>1 DEF Owned
<1>7. \A u, w \in Workers : pc'[u] = "add" /\ local'[w].info = local'[u].info => u = w
  BY <1>1, <1>3
<1>8. \A u, w \in Workers :
        pc'[u] = "addcb" /\ pc'[w] = "addcb" /\ local'[w].info = local'[u].info => u = w
  BY <1>1 DEF Owned
<1>9. \A u, w \in Workers : pc'[u] = "add" /\ pc'[w] = "add" => u = w
  BY <1>1
<1>10. \A u \in Workers : pc'[u] \notin {"idle", "createid"} =>
        local'[u].usr.usrID = usrInfo'[local'[u].info].usrID
  BY <1>1, <1>4 DEF Owned
<1>11. \A n \in Names : table'[n] # NoRow => \E d \in Live' : usrInfo'[d].usrID = table'[n].usrID
  BY <1>1 DEF Owned
<1>12. \A u \in Workers, n \in Names :
        pc'[u] \in {"add", "addcb"} /\ table'[n] # NoRow =>
            table'[n].usrID # usrInfo'[local'[u].info].usrID
  BY <1>1, <1>2, <1>4 DEF Owned
<1>13. /\ \A n \in DefaultUsrs : table'[n] # NoRow
       /\ \A n, m \in Names :
            table'[n] # NoRow /\ table'[m] # NoRow /\ table'[n].usrID = table'[m].usrID => n = m
  BY <1>1 DEF Owned
<1> QED
  BY <1>2, <1>5, <1>6, <1>7, <1>8, <1>9, <1>10, <1>11, <1>12, <1>13 DEF Owned
-----------------------------------------------------------------------------
(* No call goes beyond its users. *)

\* Two calls reach a user together only if the user is disturbed.
LEMMA ReachApart ==
    ASSUME Closed, NEW t \in Workers, NEW u \in Workers, t # u, NEW x,
           x \in Reach(t), x \in Reach(u)
    PROVE  ~Clean(t) /\ ~Clean(u)
  BY DEF Closed, Reach, Clean

\* What a call reaches it reaches later.
LEMMA ReachGrows ==
    ASSUME Closed', NEW u \in Workers, local'[u].on = local[u].on, disturbed \subseteq disturbed'
    PROVE  Reach(u) \subseteq Reach(u)'
  BY DEF Closed, Reach, Clean

LEMMA OnReach ==
    ASSUME Closed, NEW t \in Workers
    PROVE  /\ local[t].on \subseteq Reach(t)
           /\ Reach(t) \subseteq local[t].on \cup disturbed
  BY DEF Closed, Reach, Clean

\* Calls that share a block are disturbed.
LEMMA SharedBlock ==
    ASSUME Closed, Confined, NEW t \in Workers, NEW u \in Workers, t # u,
           local[t].info = local[u].info, local[t].info # NoBlock
    PROVE  ~Clean(t) /\ ~Clean(u)
  BY ReachApart DEF Confined

LEMMA ConfinedStep ==
    ASSUME Typed, Closed, Closed', Confined, NEW t \in Workers, NEW label, NEW c,
           Goes(t, label, c), disturbed \subseteq disturbed',
           \A d \in Live : d = local[t].info \/ usrInfo'[d].usrname = usrInfo[d].usrname,
           local[t].info # NoBlock => usrInfo'[local[t].info].usrname \in Reach(t),
           label # "idle" => c.usr.usrname \in Reach(t)',
           c.info # NoBlock => usrInfo'[c.info].usrname \in Reach(t)',
           \A b \in Live', n \in Names :
               table'[n] # NoRow /\ table'[n].usrID = usrInfo'[b].usrID =>
                   \/ n = usrInfo'[b].usrname
                   \/ n \in disturbed'
                   \/ \E u \in Workers : pc'[u] = "bindcb" /\ local'[u].info = b
                                         /\ n \in local'[u].on
    PROVE  Confined'
<1>1. /\ pc'[t] = label /\ local'[t] = c
      /\ \A u \in Workers : u # t => pc'[u] = pc[u] /\ local'[u] = local[u]
  BY GoesFacts
<1>2. ASSUME NEW u \in Workers
      PROVE  /\ pc'[u] # "idle" => local'[u].usr.usrname \in Reach(u)'
             /\ local'[u].info # NoBlock => usrInfo'[local'[u].info].usrname \in Reach(u)'
  <2>1. CASE u = t
    BY <1>1, <2>1
  <2>2. CASE u # t
    <3>1. Reach(u) \subseteq Reach(u)'
      BY <1>1, <2>2, ReachGrows
    <3>2. pc'[u] # "idle" => local'[u].usr.usrname \in Reach(u)'
      BY <1>1, <2>2, <3>1 DEF Confined
    <3>3. ASSUME local[u].info # NoBlock
          PROVE  usrInfo'[local[u].info].usrname \in Reach(u)
      <4>1. local[u].info \in Live
        BY <3>3 DEF Live
      <4>2. CASE local[u].info # local[t].info
        BY <3>3, <4>1, <4>2 DEF Confined
      <4>3. CASE local[u].info = local[t].info
        <5>1. ~Clean(t) /\ ~Clean(u)
          BY <2>2, <3>3, <4>3, SharedBlock
        <5> QED
          BY <3>3, <4>3, <5>1 DEF Reach
      <4> QED
        BY <4>2, <4>3
    <3> QED
      BY <1>1, <2>2, <3>1, <3>2, <3>3
  <2> QED
    BY <2>1, <2>2
<1> QED
  BY <1>2 DEF Confined

\* A row with the id of a block has the user's name, or one that is being changed.
Linked(b, n) ==
    \/ n = usrInfo[b].usrname
    \/ n \in disturbed
    \/ \E t \in Workers : pc[t] = "bindcb" /\ local[t].info = b /\ n \in local[t].on

LEMMA ConfinedLink ==
    ASSUME Confined, NEW b \in Live, NEW n \in Names, table[n] # NoRow,
           table[n].usrID = usrInfo[b].usrID
    PROVE  Linked(b, n)
  BY DEF Confined, Linked

\* Another thread's rename keeps the link.
LEMMA LinkedStays ==
    ASSUME Typed, NEW t \in Workers, NEW label, NEW c, Goes(t, label, c), NEW b, NEW n,
           disturbed \subseteq disturbed', Linked(b, n),
           usrInfo'[b].usrname = usrInfo[b].usrname,
           pc[t] # "bindcb" \/ local[t].info # b
    PROVE  Linked(b, n)'
<1>1. /\ pc'[t] = label /\ local'[t] = c
      /\ \A u \in Workers : u # t => pc'[u] = pc[u] /\ local'[u] = local[u]
  BY GoesFacts
<1> QED
  BY <1>1 DEF Linked

LEMMA ReachSame ==
    ASSUME NEW t \in Workers, local'[t].on = local[t].on, disturbed' = disturbed
    PROVE  Reach(t)' = Reach(t) /\ Clean(t)' = Clean(t)
  BY DEF Reach, Clean

LEMMA ConfinedByLinks ==
    ASSUME Typed, Closed, Closed', Confined, NEW t \in Workers, NEW label, NEW c,
           Goes(t, label, c), disturbed \subseteq disturbed',
           \A d \in Live : d = local[t].info \/ usrInfo'[d].usrname = usrInfo[d].usrname,
           local[t].info # NoBlock => usrInfo'[local[t].info].usrname \in Reach(t),
           label # "idle" => c.usr.usrname \in Reach(t)',
           c.info # NoBlock => usrInfo'[c.info].usrname \in Reach(t)',
           \A b \in Live', n \in Names :
               table'[n] # NoRow /\ table'[n].usrID = usrInfo'[b].usrID => Linked(b, n)'
    PROVE  Confined'
<1>1. \A b \in Live', n \in Names :
               table'[n] # NoRow /\ table'[n].usrID = usrInfo'[b].usrID =>
                   \/ n = usrInfo'[b].usrname
                   \/ n \in disturbed'
                   \/ \E u \in Workers : pc'[u] = "bindcb" /\ local'[u].info = b
                                         /\ n \in local'[u].on
  BY DEF Linked
<1> QED
  BY <1>1, ConfinedStep

LEMMA OpensConfined ==
    ASSUME Typed, Closed, Closed', Confined, NEW t \in Workers, NEW label, NEW c,
           Opens(t, label, c)
    PROVE  Confined'
<1>1. /\ Goes(t, label, c) /\ pc[t] = "idle" /\ local[t].info = NoBlock /\ Live' = Live
      /\ UNCHANGED <<table, usrInfo>> /\ label # "idle"
      /\ c.info # NoBlock => c.info \in InList
  BY OpensGoes
<1>2. disturbed \subseteq disturbed'
  BY OpensDisturbs
<1>3. local'[t] = c
  BY <1>1, GoesFacts
<1>4. c.on \subseteq Reach(t)'
  BY <1>3 DEF Closed, Reach, Clean
<1>5. c.usr.usrname \in c.on /\ (c.info # NoBlock => usrInfo[c.info].usrname \in c.on)
  BY <1>1 DEF Opens, CallOK
<1>6. \A b \in Live', n \in Names :
          table'[n] # NoRow /\ table'[n].usrID = usrInfo'[b].usrID => Linked(b, n)'
  BY <1>1, <1>2, ConfinedLink, LinkedStays
<1> QED
  BY <1>1, <1>2, <1>4, <1>5, <1>6, ConfinedByLinks

LEMMA MakesConfined ==
    ASSUME Typed, Closed, Closed', Owned, Confined, NEW t \in Workers, NEW id, NEW b,
           Makes(t, id, b), ~idRisk', Fresh
    PROVE  Confined'
<1> DEFINE c == [local[t] EXCEPT !.info = b, !.usr = [local[t].usr EXCEPT !.usrID = id]]
<1>1. /\ Live' = Live \cup {b}
      /\ \A d \in Live : usrInfo'[d] = usrInfo[d]
      /\ local'[t].info = b /\ local'[t].on = local[t].on
      /\ local'[t].usr = usrInfo'[b] /\ usrInfo'[b].usrID = id
      /\ usrInfo'[b].usrname = local[t].usr.usrname
      /\ UNCHANGED <<table, disturbed>>
  BY MakesFacts
<1>2. Goes(t, "add", c) /\ pc[t] = "createid"
  BY DEF Makes
<1>3. local'[t] = c
  BY <1>2, GoesFacts
<1> HIDE DEF c
<1>4. Reach(t)' = Reach(t)
  BY <1>1, ReachSame
<1>5. local[t].usr.usrname \in Reach(t) /\ local[t].info = NoBlock
  BY <1>2, CallFacts DEF Confined
<1>6. \A n \in Names : table[n] # NoRow => table[n].usrID # id
  BY MakesOwned
<1>7. \A d \in Live', n \in Names :
          table'[n] # NoRow /\ table'[n].usrID = usrInfo'[d].usrID => Linked(d, n)'
  BY <1>1, <1>2, <1>6, ConfinedLink, LinkedStays
<1>8. c.usr.usrname \in Reach(t)' /\ usrInfo'[c.info].usrname \in Reach(t)'
  BY <1>1, <1>3, <1>4, <1>5
<1>9. disturbed \subseteq disturbed'
  BY <1>1
<1> QED
  BY <1>1, <1>2, <1>5, <1>7, <1>8, <1>9, ConfinedByLinks

\* The name that an edit leaves in the block is one of the call's.
LEMMA EditsName ==
    ASSUME Typed, Confined, NEW t \in Workers, NEW label, NEW usr, NEW new,
           Edits(t, label, usr, new)
    PROVE  /\ new.usrname \in Reach(t) /\ usr.usrname \in Reach(t)
           /\ usrInfo[local[t].info].usrname \in Reach(t)
           /\ pc[t] \in {"password", "restore", "compose"} =>
                  new.usrname = usrInfo[local[t].info].usrname
           /\ pc[t] \in {"memcpy", "bind"} => new.usrname = local[t].usr.usrname
<1> DEFINE b == local[t].info
<1>1. pc[t] \in {"password", "memcpy", "restore", "compose", "bind"}
  BY DEF Edits
<1>2. usrInfo[b] \in UsrInfos /\ local[t].usr \in UsrInfos /\ b # NoBlock
  BY <1>1, CallFacts
<1>3. local[t].usr.usrname \in Reach(t) /\ usrInfo[b].usrname \in Reach(t)
  BY <1>1, <1>2 DEF Confined
<1>4. /\ pc[t] \in {"password", "restore", "compose"} => new.usrname = usrInfo[b].usrname
      /\ pc[t] \in {"memcpy", "bind"} => new.usrname = local[t].usr.usrname
  BY <1>2 DEF Edits, UsrInfos
<1>5. usr = local[t].usr \/ usr = new
  BY DEF Edits
<1> QED
  BY <1>1, <1>3, <1>4, <1>5

LEMMA EditsConfined ==
    ASSUME Typed, Fresh, Closed, Closed', Owned, Confined, Agreed, NEW t \in Workers, NEW label,
           NEW usr, NEW new, Edits(t, label, usr, new)
    PROVE  Confined'
<1> DEFINE b == local[t].info
<1>1. PICK c : EditsTo(t, label, c, usr, new)
  BY EditsGoes
<1>2. /\ Goes(t, label, c) /\ c.usr = usr /\ c.info = b /\ c.on = local[t].on
      /\ b \in Blocks /\ b \in Live
      /\ b # NoBlock /\ usrInfo'[b] = new /\ \A d \in Blocks : d # b => usrInfo'[d] = usrInfo[d]
      /\ UNCHANGED <<table, disturbed>> /\ Live' = Live
  BY <1>1 DEF EditsTo
<1>3. /\ new.usrname \in Reach(t) /\ usr.usrname \in Reach(t)
      /\ usrInfo[b].usrname \in Reach(t)
      /\ pc[t] \in {"password", "restore", "compose"} => new.usrname = usrInfo[b].usrname
      /\ pc[t] \in {"memcpy", "bind"} => new.usrname = local[t].usr.usrname
  BY EditsName
<1>4. new.usrID = usrInfo[b].usrID
  BY EditsOwned
<1>5. /\ pc[t] \in {"password", "restore", "compose", "memcpy", "bind"}
      /\ pc[t] = "bind" => label = "bindcb"
  BY DEF Edits
<1>6. /\ pc'[t] = label /\ local'[t] = c
      /\ \A u \in Workers : u # t => pc'[u] = pc[u] /\ local'[u] = local[u]
  BY <1>2, GoesFacts
<1>7. Reach(t)' = Reach(t)
  BY <1>2, <1>6, ReachSame
<1>8. Live \subseteq Blocks
  BY ListBlocks, CallFacts DEF Live
<1>9. ASSUME NEW d \in Live, NEW n \in Names, table[n] # NoRow,
             table[n].usrID = usrInfo'[d].usrID
      PROVE  Linked(d, n)'
  <2>0. table[n].usrID = usrInfo[d].usrID
    BY <1>2, <1>4, <1>8, <1>9
  <2>1. Linked(d, n)
    BY <1>9, <2>0, ConfinedLink
  <2>2. CASE usrInfo'[d].usrname = usrInfo[d].usrname
    BY <1>2, <1>5, <2>1, <2>2, LinkedStays
  <2>3. CASE usrInfo'[d].usrname # usrInfo[d].usrname
    <3>1. d = b
      BY <1>2, <1>8, <2>3
    <3>2. CASE n # usrInfo[d].usrname
      <4>1. n \in disturbed \/ \E u \in Workers : pc[u] = "bindcb" /\ local[u].info = d
                                                  /\ n \in local[u].on
        BY <2>1, <3>2 DEF Linked
      <4> QED
        BY <1>2, <1>5, <1>6, <4>1 DEF Linked
    <3>3. CASE n = usrInfo[d].usrname /\ ~Clean(t)
      BY <1>2, <1>3, <3>1, <3>3 DEF Reach, Linked
    <3>4. CASE n = usrInfo[d].usrname /\ Clean(t) /\ pc[t] = "bind"
      <4>1. n \in local[t].on
        BY <1>3, <3>1, <3>4 DEF Reach
      <4> QED
        BY <1>2, <1>5, <1>6, <3>1, <3>4, <4>1 DEF Linked
    <3>5. CASE Clean(t) /\ pc[t] # "bind"
      <4>1. pc[t] = "memcpy"
        BY <1>2, <1>3, <1>5, <2>3, <3>1, <3>5
      <4>2. Ready(t)
        BY <3>5 DEF Agreed
      <4>3. b \in Named(local[t].usr.usrname)
        BY <4>1, <4>2 DEF Ready, Only
      <4>4. usrInfo[b].usrname = local[t].usr.usrname
        BY <4>3 DEF Named
      <4> QED
        BY <1>2, <1>3, <2>3, <3>1, <4>1, <4>4
    <3> QED
      BY <3>2, <3>3, <3>4, <3>5
  <2> QED
    BY <2>2, <2>3
<1>10. \A d \in Live', n \in Names :
          table'[n] # NoRow /\ table'[n].usrID = usrInfo'[d].usrID => Linked(d, n)'
  BY <1>2, <1>9
<1>11. disturbed \subseteq disturbed'
  BY <1>2
<1>12. \A d \in Live : d = b \/ usrInfo'[d].usrname = usrInfo[d].usrname
  BY <1>2, <1>8
<1> QED
  BY <1>2, <1>3, <1>7, <1>10, <1>11, <1>12, ConfinedByLinks

LEMMA MovesConfined ==
    ASSUME Typed, Fresh, Closed, Closed', Owned, Confined, NEW t \in Workers,
           Adds(t) \/ Removes(t)
    PROVE  Confined'
<1>1. PICK label : /\ Goes(t, label, local[t]) /\ label \in {"addcb", "delcb"}
  BY DEF Adds, Removes
<1>2. /\ UNCHANGED <<table, usrInfo, disturbed>> /\ pc[t] \in {"add", "del"}
  BY DEF Adds, Removes, usrHistVars
<1>3. Live' = Live
  BY AddsOwned, RemovesOwned
<1>4. local'[t] = local[t]
  BY <1>1, GoesFacts
<1>5. Reach(t)' = Reach(t)
  BY <1>2, <1>4, ReachSame
<1>6. \A d \in Live', n \in Names :
          table'[n] # NoRow /\ table'[n].usrID = usrInfo'[d].usrID => Linked(d, n)'
  BY <1>1, <1>2, <1>3, ConfinedLink, LinkedStays
<1>7. /\ local[t].usr.usrname \in Reach(t)
      /\ local[t].info # NoBlock => usrInfo[local[t].info].usrname \in Reach(t)
  BY <1>2 DEF Confined
<1> QED
  BY <1>1, <1>2, <1>3, <1>5, <1>6, <1>7, ConfinedByLinks

LEMMA ReturnsConfined ==
    ASSUME Typed, Closed, Closed', Confined, NEW t \in Workers, Returns(t),
           disturbed \subseteq disturbed',
           \A b \in Live, n \in Names :
               table'[n] # NoRow /\ table'[n].usrID = usrInfo[b].usrID => Linked(b, n)'
    PROVE  Confined'
<1>1. Goes(t, "idle", NoCall) /\ NoCall.info = NoBlock
  BY DEF Returns, NoCall
<1>2. Live' \subseteq Live /\ usrInfo' = usrInfo
  BY ReturnsFacts
<1>3. local[t].info # NoBlock => usrInfo[local[t].info].usrname \in Reach(t)
  BY DEF Confined
<1> QED
  BY <1>1, <1>2, <1>3, ConfinedByLinks

\* A return keeps the links of blocks that the call did not rename.
LEMMA ReturnsLinked ==
    ASSUME Typed, Confined, NEW t \in Workers, Returns(t), disturbed \subseteq disturbed',
           NEW b \in Live, NEW n \in Names, table[n] # NoRow,
           table[n].usrID = usrInfo[b].usrID, pc[t] # "bindcb" \/ local[t].info # b
    PROVE  Linked(b, n)'
<1>1. Goes(t, "idle", NoCall) /\ usrInfo' = usrInfo
  BY ReturnsFacts DEF Returns
<1>2. Linked(b, n)
  BY ConfinedLink
<1> QED
  BY <1>1, <1>2, LinkedStays

LEMMA RefusesConfined ==
    ASSUME Typed, Closed, Closed', Confined, NEW t \in Workers, Refuses(t)
    PROVE  Confined'
<1>1. Returns(t) /\ UNCHANGED <<table, disturbed>> /\ pc[t] # "bindcb"
  BY DEF Refuses, usrHistVars
<1>2. \A b \in Live, n \in Names :
          table'[n] # NoRow /\ table'[n].usrID = usrInfo[b].usrID => Linked(b, n)'
  BY <1>1, ReturnsLinked
<1> QED
  BY <1>1, <1>2, ReturnsConfined

LEMMA FailsConfined ==
    ASSUME Typed, Closed, Closed', Confined, NEW t \in Workers, Fails(t)
    PROVE  Confined'
<1>1. Returns(t) /\ UNCHANGED table /\ disturbed' = disturbed \cup local[t].on
  BY DEF Fails
<1>2. ASSUME NEW b \in Live, NEW n \in Names, table[n] # NoRow,
             table[n].usrID = usrInfo[b].usrID
      PROVE  Linked(b, n)'
  <2>1. Linked(b, n)
    BY <1>2, ConfinedLink
  <2>2. /\ \A u \in Workers : u # t => pc'[u] = pc[u] /\ local'[u] = local[u]
        /\ usrInfo' = usrInfo
    BY <1>1, ReturnsFacts
  <2> QED
    BY <1>1, <2>1, <2>2 DEF Linked
<1> QED
  BY <1>1, <1>2, ReturnsConfined

LEMMA InsertsConfined ==
    ASSUME Typed, Fresh, Closed, Closed', Owned, Confined, NEW t \in Workers, Inserts(t)
    PROVE  Confined'
<1> DEFINE b == local[t].info
           usr == usrInfo[b]
<1>1. /\ Returns(t) /\ pc[t] = "addcb" /\ disturbed' = disturbed
      /\ table' = [table EXCEPT ![usr.usrname] = RowOf(usr)]
  BY DEF Inserts, Confirms
<1>2. usr \in UsrInfos /\ b \in Live
  BY <1>1, CallFacts
<1>3. usr.usrname \in Names /\ RowOf(usr).usrID = usr.usrID
  BY <1>2, RowFacts DEF RowOf
<1>4. /\ table'[usr.usrname] = RowOf(usr)
      /\ \A n \in Names : n # usr.usrname => table'[n] = table[n]
  BY <1>1, <1>3, TypesNow
<1>5. usrInfo' = usrInfo
  BY <1>1, ReturnsFacts
<1>6. ASSUME NEW d \in Live, NEW n \in Names, table'[n] # NoRow,
             table'[n].usrID = usrInfo[d].usrID
      PROVE  Linked(d, n)'
  <2>1. CASE n = usr.usrname
    <3>1. d = b
      BY <1>2, <1>3, <1>4, <1>6, <2>1 DEF Owned
    <3> QED
      BY <1>5, <2>1, <3>1 DEF Linked
  <2>2. CASE n # usr.usrname
    BY <1>1, <1>4, <1>6, <2>2, ReturnsLinked
  <2> QED
    BY <2>1, <2>2
<1> QED
  BY <1>1, <1>6, ReturnsConfined

LEMMA UpdatesConfined ==
    ASSUME Typed, Fresh, Closed, Closed', Owned, Confined, NEW t \in Workers, Updates(t)
    PROVE  Confined'
<1>1. Returns(t) /\ pc[t] = "setcb" /\ disturbed' = disturbed
  BY DEF Updates, Confirms
<1>2. \A n \in Names : /\ table'[n] # NoRow <=> table[n] # NoRow
                       /\ table'[n].usrID = table[n].usrID
  BY UpdatesOwned
<1>3. \A b \in Live, n \in Names :
          table'[n] # NoRow /\ table'[n].usrID = usrInfo[b].usrID => Linked(b, n)'
  BY <1>1, <1>2, ReturnsLinked
<1> QED
  BY <1>1, <1>3, ReturnsConfined

LEMMA RenamesNoneConfined ==
    ASSUME Typed, Fresh, Closed, Closed', Owned, Confined, NEW t \in Workers, RenamesNone(t)
    PROVE  Confined'
<1>1. /\ Returns(t) /\ pc[t] = "bindcb" /\ UNCHANGED <<table, disturbed>>
      /\ RowsWithId(local[t].usr.usrID) = {}
  BY DEF RenamesNone, Confirms
<1>2. local[t].usr.usrID = usrInfo[local[t].info].usrID
  BY <1>1 DEF Owned
<1>3. \A n \in Names : table[n] # NoRow => table[n].usrID # usrInfo[local[t].info].usrID
  BY <1>1, <1>2 DEF RowsWithId
<1>4. \A b \in Live, n \in Names :
          table'[n] # NoRow /\ table'[n].usrID = usrInfo[b].usrID => Linked(b, n)'
  BY <1>1, <1>3, ReturnsLinked
<1> QED
  BY <1>1, <1>4, ReturnsConfined

LEMMA RenamesConfined ==
    ASSUME Typed, Fresh, Closed, Closed', Owned, Confined, Agreed, NEW t \in Workers,
           NEW old \in Names, Renames(t, old), ~idRisk'
    PROVE  Confined'
<1> DEFINE n == local[t].usr.usrname
           b == local[t].info
<1>1. /\ Returns(t) /\ pc[t] = "bindcb" /\ n \in Names
      /\ table[old] # NoRow /\ table[old].usrID = local[t].usr.usrID
      /\ \A m \in Names : table[m] # NoRow /\ table[m].usrID = local[t].usr.usrID => m = old
      /\ n # old => table'[old] = NoRow
      /\ table'[n] = table[old]
      /\ \A m \in Names : m # n /\ m # old => table'[m] = table[m]
  BY RenamesTable
<1>2. disturbed' = disturbed
  BY DEF Renames, Confirms
<1>3. local[t].usr.usrID = usrInfo[b].usrID /\ b \in Live
  BY <1>1, CallFacts DEF Owned
<1>4. n = usrInfo[b].usrname \/ n \in disturbed
  <2>1. CASE Clean(t)
    <3>1. usrInfo[b] = local[t].usr
      BY <1>1, <2>1 DEF Agreed, Ready
    <3> QED
      BY <3>1
  <2>2. CASE ~Clean(t)
    BY <1>1, <2>2 DEF Confined, Reach
  <2> QED
    BY <2>1, <2>2
<1>5. usrInfo' = usrInfo
  BY <1>1, ReturnsFacts
<1> HIDE DEF n
<1>6. ASSUME NEW d \in Live, NEW m \in Names, table'[m] # NoRow,
             table'[m].usrID = usrInfo[d].usrID
      PROVE  Linked(d, m)'
  <2>1. CASE m = n
    <3>1. d = b
      BY <1>1, <1>3, <1>6, <2>1 DEF Owned
    <3> QED
      BY <1>2, <1>4, <1>5, <2>1, <3>1 DEF Linked
  <2>2. CASE m # n
    <3>1. m # old /\ table'[m] = table[m]
      BY <1>1, <1>6, <2>2
    <3>2. d # b
      BY <1>1, <1>3, <1>6, <3>1
    <3> QED
      BY <1>1, <1>2, <1>6, <3>1, <3>2, ReturnsLinked
  <2> QED
    BY <2>1, <2>2
<1> QED
  BY <1>1, <1>2, <1>6, ReturnsConfined
-----------------------------------------------------------------------------
(* List and table. *)

\* A step leaves what list and table say of user n.
Kept(n) ==
    /\ table'[n] = table[n]
    /\ Named(n)' = Named(n)
    /\ \A b \in Named(n) : usrInfo'[b] = usrInfo[b]

LEMMA KeptAgree ==
    ASSUME NEW n, Kept(n), Agree(n)
    PROVE  Agree(n)'
  BY DEF Kept, Agree

\* A call that is not disturbed finds its users as it left them.
LEMMA KeptReady ==
    ASSUME Typed, Confined, NEW u \in Workers, Ready(u), Clean(u),
           pc'[u] = pc[u], local'[u] = local[u],
           \A n \in local[u].on : Kept(n),
           local[u].info # NoBlock => usrInfo'[local[u].info] = usrInfo[local[u].info]
    PROVE  Ready(u)'
<1>1. CASE pc[u] = "idle"
  BY <1>1 DEF Ready
<1>2. CASE pc[u] # "idle"
  <2> DEFINE n == local[u].usr.usrname
             b == local[u].info
  <2>1. n \in local[u].on
    BY <1>2 DEF Confined, Reach
  <2>2. table'[n] = table[n] /\ Named(n)' = Named(n)
    BY <2>1 DEF Kept
  <2>3. CASE pc[u] = "createid"
    BY <2>2, <2>3 DEF Ready
  <2>4. CASE pc[u] # "createid"
    <3>1. usrInfo'[b] = usrInfo[b]
      BY <1>2, <2>4, CallFacts
    <3>2. CASE pc[u] \notin {"bind", "bindcb"}
      BY <1>2, <2>2, <2>4, <3>1, <3>2 DEF Ready, Only
    <3>3. CASE pc[u] = "bind"
      <4>1. PICK o \in local[u].on :
                /\ local[u].on = {o, n}
                /\ Only(o, b) /\ usrInfo[b] = UsrInfo(o, table[o])
                /\ o # n /\ table[n] = NoRow => Named(n) = {}
        BY <3>3 DEF Ready
      <4>2. table'[o] = table[o] /\ Named(o)' = Named(o)
        BY DEF Kept
      <4>3. /\ local'[u].on = {o, n}
            /\ Only(o, b)' /\ usrInfo'[b] = UsrInfo(o, table'[o])
            /\ o # n /\ table'[n] = NoRow => Named(n)' = {}
        BY <2>2, <3>1, <4>1, <4>2 DEF Only
      <4> QED
        BY <3>3, <4>3 DEF Ready
    <3>4. CASE pc[u] = "bindcb"
      <4>1. PICK o \in local[u].on :
                /\ local[u].on = {o, n}
                /\ table[o] # NoRow
                /\ b \in InList /\ usrInfo[b] = local[u].usr
                /\ local[u].usr = UsrInfo(n, table[o])
                /\ o = n \/ table[n] = NoRow => Named(n) = {b}
                /\ o # n => Named(o) = {}
        BY <3>4 DEF Ready
      <4>2. table'[o] = table[o] /\ Named(o)' = Named(o)
        BY DEF Kept
      <4>3. b \in InList'
        <5>1. b \in Named(n)
          BY <4>1 DEF Named
        <5>2. b \in Named(n)'
          BY <2>2, <5>1
        <5> QED
          BY <5>2 DEF Named
      <4> QED
        BY <2>2, <3>1, <3>4, <4>1, <4>2, <4>3 DEF Ready
    <3> QED
      BY <3>2, <3>3, <3>4
  <2> QED
    BY <2>3, <2>4
<1> QED
  BY <1>1, <1>2

\* What a step of thread t has to show.
LEMMA AgreedStep ==
    ASSUME Typed, Closed, Confined, Agreed, NEW t \in Workers, NEW label, NEW c,
           Goes(t, label, c), disturbed \subseteq disturbed', up,
           \A n \in Names : n \notin Reach(t) => Kept(n),
           \A d \in Live : d = local[t].info \/ usrInfo'[d] = usrInfo[d],
           \A n \in local[t].on : Clean(t) /\ Quiet(n)' => Agree(n)',
           Clean(t)' => Ready(t)'
    PROVE  Agreed'
<1>1. /\ pc'[t] = label /\ local'[t] = c
      /\ \A u \in Workers : u # t => pc'[u] = pc[u] /\ local'[u] = local[u]
  BY GoesFacts
<1>2. ASSUME NEW n \in Names, Quiet(n)' PROVE Agree(n)'
  <2>1. n \notin disturbed /\ \A u \in Workers : u # t => n \notin local[u].on
    BY <1>1, <1>2 DEF Quiet
  <2>2. CASE n \in local[t].on
    <3>1. Clean(t)
      BY <2>1, <2>2 DEF Closed
    <3> QED
      BY <1>2, <2>2, <3>1
  <2>3. CASE n \notin local[t].on
    <3>1. Quiet(n)
      BY <2>1, <2>3 DEF Quiet
    <3>2. Agree(n)
      BY <3>1 DEF Agreed
    <3>3. n \notin Reach(t)
      BY <2>1, <2>3 DEF Reach
    <3> QED
      BY <3>2, <3>3, KeptAgree
  <2> QED
    BY <2>2, <2>3
<1>3. ASSUME NEW u \in Workers, Clean(u)' PROVE Ready(u)'
  <2>1. CASE u = t
    BY <1>3, <2>1
  <2>2. CASE u # t
    <3>1. Clean(u)
      BY <1>1, <1>3, <2>2 DEF Clean
    <3>2. Ready(u)
      BY <3>1 DEF Agreed
    <3>3. \A n \in local[u].on : n \notin Reach(t)
      BY <2>2, <3>1, ReachApart DEF Reach
    <3>4. \A n \in local[u].on : Kept(n)
      BY <3>3, CallFacts
    <3>5. local[u].info # NoBlock => usrInfo'[local[u].info] = usrInfo[local[u].info]
      <4> SUFFICES ASSUME local[u].info # NoBlock
                   PROVE  usrInfo'[local[u].info] = usrInfo[local[u].info]
        OBVIOUS
      <4>1. local[u].info \in Live
        BY DEF Live
      <4>2. local[u].info # local[t].info
        BY <2>2, <3>1, SharedBlock
      <4> QED
        BY <4>1, <4>2
    <3> QED
      BY <1>1, <2>2, <3>1, <3>2, <3>4, <3>5, KeptReady
  <2> QED
    BY <2>1, <2>2
<1> QED
  BY <1>2, <1>3 DEF Agreed

LEMMA NamedSame ==
    ASSUME InList' = InList, \A b \in InList : usrInfo'[b] = usrInfo[b]
    PROVE  \A n : Named(n)' = Named(n)
  BY DEF Named

LEMMA OpensAgreed ==
    ASSUME Typed, Closed, Owned, Confined, Agreed, NEW t \in Workers, NEW label, NEW c,
           Opens(t, label, c)
    PROVE  Agreed'
<1> DEFINE n == c.usr.usrname
           b == c.info
<1>1. /\ Goes(t, label, c) /\ up /\ local[t].on = {} /\ InList' = InList
      /\ UNCHANGED <<table, usrInfo>> /\ c.on \subseteq Names
  BY OpensGoes
<1>2. disturbed \subseteq disturbed'
  BY OpensDisturbs
<1>3. \A m : Named(m)' = Named(m)
  BY <1>1, NamedSame
<1>4. \A m \in Names : m \notin Reach(t) => Kept(m)
  BY <1>1, <1>3 DEF Kept
<1>5. pc'[t] = label /\ local'[t] = c
  BY <1>1, GoesFacts
<1>6. ASSUME Clean(t)' PROVE Ready(t)'
  <2>1. \A m \in c.on : m \in Names /\ Agree(m)
    <3>1. \A m \in c.on : Quiet(m)
      BY <1>6, OpensClosed
    <3> QED
      BY <1>1, <3>1 DEF Agreed
  <2>2. \A m \in c.on : \A d \in Named(m) :
            Only(m, d) /\ usrInfo[d] = UsrInfo(m, table[m])
    <3> SUFFICES ASSUME NEW m \in c.on, NEW d \in Named(m)
                 PROVE  Only(m, d) /\ usrInfo[d] = UsrInfo(m, table[m])
      OBVIOUS
    <3>1. table[m] # NoRow /\ \A e \in Named(m) : usrInfo[e] = UsrInfo(m, table[m])
      BY <2>1 DEF Agree
    <3>2. \A e \in Named(m) : e = d
      <4>1. \A e \in Named(m) : e \in Live
        BY DEF Named, Live
      <4> QED
        BY <3>1, <4>1 DEF Owned
    <3> QED
      BY <3>1, <3>2 DEF Only
  <2>3. CASE label = "createid"
    <3>1. Named(n) = {} /\ c.on = {n}
      BY <2>3 DEF Opens
    <3>2. table[n] = NoRow
      BY <2>1, <3>1 DEF Agree
    <3> QED
      BY <1>1, <1>3, <1>5, <2>3, <3>1, <3>2 DEF Ready
  <2>4. CASE label = "bind"
    <3> DEFINE o == usrInfo[b].usrname
    <3>1. c.on = {o, n} /\ b \in InList
      BY <2>4 DEF Opens
    <3>2. b \in Named(o)
      BY <3>1 DEF Named
    <3>3. Only(o, b) /\ usrInfo[b] = UsrInfo(o, table[o])
      BY <2>2, <3>1, <3>2
    <3>4. table[n] = NoRow => Named(n) = {}
      BY <2>1, <3>1 DEF Agree
    <3> HIDE DEF o
    <3>5. \E x \in c.on : /\ c.on = {x, n}
                          /\ Only(x, b)' /\ usrInfo'[b] = UsrInfo(x, table'[x])
                          /\ x # n /\ table'[n] = NoRow => Named(n)' = {}
      BY <1>1, <1>3, <3>1, <3>3, <3>4 DEF Only
    <3> QED
      BY <1>5, <2>4, <3>5 DEF Ready
  <2>5. CASE label \in {"password", "memcpy", "del"}
    <3>1. /\ c.on = {n} /\ b \in InList /\ usrInfo[b].usrname = n
          /\ label = "memcpy" => /\ c.old = usrInfo[b].passWord
                                 /\ c.level = usrInfo[b].userLevel
      BY <2>5 DEF Opens
    <3>2. b \in Named(n)
      BY <3>1 DEF Named
    <3>3. Only(n, b) /\ usrInfo[b] = UsrInfo(n, table[n])
      BY <2>2, <3>1, <3>2
    <3>4. label = "memcpy" => c.old = table[n].passWord /\ c.level = table[n].userLevel
      BY <3>1, <3>3 DEF UsrInfo
    <3>5. Only(n, b)' /\ usrInfo'[b] = UsrInfo(n, table'[n])
      BY <1>1, <1>3, <3>3 DEF Only
    <3> QED
      BY <1>1, <1>5, <2>5, <3>1, <3>4, <3>5 DEF Ready
  <2> QED
    BY <2>3, <2>4, <2>5 DEF Opens
<1>7. \A d \in Live : usrInfo'[d] = usrInfo[d]
  BY <1>1
<1> QED
  BY <1>1, <1>2, <1>4, <1>6, <1>7, AgreedStep

LEMMA MakesAgreed ==
    ASSUME Typed, Closed, Owned, Confined, Agreed, NEW t \in Workers, NEW id, NEW b,
           Makes(t, id, b), ~idRisk'
    PROVE  Agreed'
<1> DEFINE c == [local[t] EXCEPT !.info = b, !.usr = [local[t].usr EXCEPT !.usrID = id]]
<1>1. Goes(t, "add", c) /\ pc[t] = "createid"
  BY DEF Makes
<1> HIDE DEF c
<1>2. /\ Live = InList /\ \A d \in Live : usrInfo'[d] = usrInfo[d]
      /\ pc'[t] = "add" /\ local'[t].info = b /\ local'[t].on = local[t].on
      /\ local'[t].usr = usrInfo'[b] /\ usrInfo'[b].usrname = local[t].usr.usrname
      /\ \A u \in Workers : u # t => pc'[u] = pc[u] /\ local'[u] = local[u]
      /\ InList' = InList /\ UNCHANGED <<table, disturbed>> /\ up
  BY MakesFacts
<1>3. \A m : Named(m)' = Named(m)
  BY <1>2, NamedSame
<1>4. \A m \in Names : m \notin Reach(t) => Kept(m)
  <2>1. \A m : Named(m) \subseteq Live
    BY <1>2 DEF Named
  <2> QED
    BY <1>2, <1>3, <2>1 DEF Kept
<1>5. \A m \in local[t].on : ~Quiet(m)'
  BY <1>2 DEF Quiet
<1>6. ASSUME Clean(t)' PROVE Ready(t)'
  <2>1. Ready(t)
    BY <1>2, <1>6 DEF Clean, Agreed
  <2> SUFFICES ASSUME NEW n, n = local[t].usr.usrname
               PROVE  Ready(t)'
    OBVIOUS
  <2>2. local[t].on = {n} /\ Named(n) = {} /\ table[n] = NoRow
    BY <1>1, <2>1 DEF Ready
  <2>3. /\ local'[t].usr.usrname = n /\ local'[t].on = {n} /\ Named(n)' = {}
        /\ table'[n] = NoRow /\ usrInfo'[local'[t].info] = local'[t].usr
    BY <1>2, <1>3, <2>2
  <2> QED
    BY <1>2, <2>3 DEF Ready
<1> QED
  BY <1>1, <1>2, <1>4, <1>5, <1>6, AgreedStep

\* The names in the list after an edit.
LEMMA EditsNamed ==
    ASSUME Typed, NEW t \in Workers, NEW label, NEW usr, NEW new, Edits(t, label, usr, new)
    PROVE  LET b == local[t].info
           IN  \A n : /\ n # new.usrname => Named(n)' = Named(n) \ {b}
                      /\ n = new.usrname /\ b \in InList => Named(n)' = Named(n) \cup {b}
                      /\ n # new.usrname /\ n # usrInfo[b].usrname => Named(n)' = Named(n)
                      /\ b \notin InList => Named(n)' = Named(n)
<1> DEFINE b == local[t].info
<1>1. PICK c : EditsTo(t, label, c, usr, new)
  BY EditsGoes
<1>2. /\ usrInfo'[b] = new /\ \A d \in Blocks : d # b => usrInfo'[d] = usrInfo[d]
      /\ InList' = InList
  BY <1>1 DEF EditsTo
<1>3. \A d \in InList : d # b => usrInfo'[d] = usrInfo[d]
  BY <1>2, ListBlocks
<1> QED
  BY <1>2, <1>3 DEF Named

LEMMA EditsAgreed ==
    ASSUME Typed, Fresh, Closed, Owned, Confined, Agreed, NEW t \in Workers, NEW label,
           NEW usr, NEW new, Edits(t, label, usr, new)
    PROVE  Agreed'
<1> SUFFICES ASSUME NEW b, NEW n, b = local[t].info, n = local[t].usr.usrname
             PROVE  Agreed'
  OBVIOUS
<1>1. PICK c : EditsTo(t, label, c, usr, new)
  BY EditsGoes
<1>2. /\ Goes(t, label, c) /\ c.usr = usr /\ c.info = b /\ c.on = local[t].on
      /\ c.old = local[t].old /\ c.level = local[t].level
      /\ usrInfo'[b] = new /\ \A d \in Blocks : d # b => usrInfo'[d] = usrInfo[d]
      /\ InList' = InList /\ UNCHANGED <<table, disturbed>> /\ up
      /\ usr \in UsrInfos /\ new \in UsrInfos
  BY <1>1 DEF EditsTo
<1>3. /\ new.usrname \in Reach(t) /\ usrInfo[b].usrname \in Reach(t)
      /\ pc[t] \in {"password", "restore", "compose"} => new.usrname = usrInfo[b].usrname
      /\ pc[t] \in {"memcpy", "bind"} => new.usrname = n
  BY EditsName
<1>4. \A m : /\ m # new.usrname => Named(m)' = Named(m) \ {b}
             /\ m = new.usrname /\ b \in InList => Named(m)' = Named(m) \cup {b}
             /\ m # new.usrname /\ m # usrInfo[b].usrname => Named(m)' = Named(m)
  BY EditsNamed
<1>5. \A d \in Live : d = b \/ usrInfo'[d] = usrInfo[d]
  <2>1. Live \subseteq Blocks
    BY ListBlocks, CallFacts DEF Live
  <2> QED
    BY <1>2, <2>1
<1>6. ASSUME NEW m \in Names, m \notin Reach(t) PROVE Kept(m)
  <2>1. Named(m)' = Named(m)
    BY <1>3, <1>4, <1>6
  <2>2. \A d \in Named(m) : d # b /\ d \in Live
    BY <1>3, <1>6 DEF Named, Live
  <2> QED
    BY <1>2, <1>5, <2>1, <2>2 DEF Kept
<1>7. pc'[t] = label /\ local'[t] = c
  BY <1>2, GoesFacts
<1>8. \A m \in local[t].on : ~Quiet(m)'
  BY <1>2, <1>7 DEF Quiet
<1>9. ASSUME Clean(t)' PROVE Ready(t)'
  <2>1. Clean(t) /\ Ready(t)
    BY <1>2, <1>7, <1>9 DEF Clean, Agreed
  <2>2. usrInfo[b] \in UsrInfos /\ local[t].usr \in UsrInfos
    BY CallFacts DEF Edits
  <2>3. ASSUME Only(n, b), new.usrname = n PROVE Only(n, b)'
    <3>1. b \in InList
      BY <2>3 DEF Only, Named
    <3> QED
      BY <1>2, <1>4, <2>3, <3>1 DEF Only
  <2>4. CASE pc[t] = "password"
    <3>1. /\ local[t].on = {n} /\ Only(n, b) /\ usrInfo[b] = UsrInfo(n, table[n])
      BY <2>1, <2>4 DEF Ready
    <3>2. /\ label = "setcb" /\ usr = new
          /\ new = [usrInfo[b] EXCEPT !.passWord = local[t].usr.passWord]
      BY <2>4 DEF Edits
    <3>3. SameUser(new, n, table[n])
      <4>1. /\ new.usrname = usrInfo[b].usrname /\ new.usrID = usrInfo[b].usrID
            /\ new.userLevel = usrInfo[b].userLevel
        BY <2>2, <3>2 DEF UsrInfos
      <4>2. /\ usrInfo[b].usrname = n /\ usrInfo[b].usrID = table[n].usrID
            /\ usrInfo[b].userLevel = table[n].userLevel
        BY <3>1 DEF UsrInfo
      <4> QED
        BY <4>1, <4>2 DEF SameUser
    <3>4. Only(n, b)' /\ new.usrname = n
      BY <2>3, <3>1, <3>3 DEF SameUser
    <3> QED
      BY <1>2, <1>7, <3>1, <3>2, <3>3, <3>4 DEF Ready
  <2>5. CASE pc[t] = "memcpy"
    <3>1. /\ local[t].on = {n} /\ Only(n, b) /\ usrInfo[b] = UsrInfo(n, table[n])
          /\ local[t].old = table[n].passWord /\ local[t].level = table[n].userLevel
      BY <2>1, <2>5 DEF Ready
    <3>2. label = "restore" /\ usr = local[t].usr /\ new = local[t].usr
      BY <2>5 DEF Edits
    <3>3. local[t].usr.usrID = table[n].usrID
      BY <2>5, <3>1 DEF Owned, UsrInfo
    <3>4. Only(n, b)'
      BY <2>3, <3>1, <3>2
    <3> QED
      BY <1>2, <1>7, <3>1, <3>2, <3>3, <3>4 DEF Ready
  <2>6. CASE pc[t] = "restore"
    <3>1. /\ local[t].on = {n} /\ Only(n, b) /\ usrInfo[b] = local[t].usr
          /\ local[t].old = table[n].passWord /\ local[t].level = table[n].userLevel
          /\ local[t].usr.usrID = table[n].usrID
      BY <2>1, <2>6 DEF Ready
    <3>2. /\ label = "compose" /\ usr = local[t].usr
          /\ new = [usrInfo[b] EXCEPT !.userLevel = local[t].level, !.passWord = local[t].old]
      BY <2>6 DEF Edits
    <3>3. SameUser(new, n, table[n]) /\ new.passWord = table[n].passWord
      BY <2>2, <3>1, <3>2 DEF SameUser, UsrInfos
    <3>4. Only(n, b)'
      BY <2>3, <3>1, <3>3 DEF SameUser
    <3> QED
      BY <1>2, <1>7, <3>1, <3>2, <3>3, <3>4 DEF Ready
  <2>7. CASE pc[t] = "compose"
    <3>1. /\ local[t].on = {n} /\ Only(n, b) /\ SameUser(usrInfo[b], n, table[n])
      BY <2>1, <2>7 DEF Ready
    <3>2. label = "setcb" /\ usr = new /\ new = usrInfo[b]
      BY <2>7 DEF Edits
    <3>3. Only(n, b)' /\ new.usrname = n
      BY <2>3, <3>1, <3>2 DEF SameUser
    <3> QED
      BY <1>2, <1>7, <3>1, <3>2, <3>3 DEF Ready
  <2>8. CASE pc[t] = "bind"
    <3>1. PICK o \in local[t].on :
              /\ local[t].on = {o, n}
              /\ Only(o, b) /\ usrInfo[b] = UsrInfo(o, table[o])
              /\ o # n /\ table[n] = NoRow => Named(n) = {}
      BY <2>1, <2>8 DEF Ready
    <3>2. label = "bindcb" /\ usr = new /\ new = [usrInfo[b] EXCEPT !.usrname = n]
      BY <2>8 DEF Edits
    <3>3. new = UsrInfo(n, table[o]) /\ new.usrname = n
      BY <3>1, <3>2 DEF UsrInfo
    <3>4. Named(o) = {b} /\ table[o] # NoRow /\ b \in InList
      BY <3>1 DEF Only, Named
    <3>5. Named(n)' = Named(n) \cup {b} /\ (o # n => Named(o)' = {})
      BY <1>4, <3>3, <3>4
    <3>6. o = n \/ table[n] = NoRow => Named(n)' = {b}
      BY <3>1, <3>4, <3>5
    <3>7. \E x \in c.on : /\ c.on = {x, n}
                          /\ table'[x] # NoRow
                          /\ b \in InList' /\ usrInfo'[b] = c.usr
                          /\ c.usr = UsrInfo(n, table'[x])
                          /\ x = n \/ table'[n] = NoRow => Named(n)' = {b}
                          /\ x # n => Named(x)' = {}
      BY <1>2, <3>1, <3>2, <3>3, <3>4, <3>5, <3>6
    <3>8. c.usr.usrname = n
      BY <1>2, <3>2, <3>3
    <3> QED
      BY <1>2, <1>7, <3>2, <3>7, <3>8 DEF Ready
  <2> QED
    BY <2>4, <2>5, <2>6, <2>7, <2>8 DEF Edits
<1> QED
  BY <1>2, <1>5, <1>6, <1>8, <1>9, AgreedStep

LEMMA AddsAgreed ==
    ASSUME Typed, Fresh, Closed, Owned, Confined, Agreed, NEW t \in Workers, Adds(t)
    PROVE  Agreed'
<1> SUFFICES ASSUME NEW b, NEW n, b = local[t].info, n = local[t].usr.usrname
             PROVE  Agreed'
  OBVIOUS
<1>1. /\ Goes(t, "addcb", local[t]) /\ InList' = InList \cup {b} /\ b \notin InList
      /\ UNCHANGED <<table, usrInfo, disturbed>> /\ pc[t] = "add"
  BY AddsTyped DEF Adds, usrHistVars, Fresh
<1>2. up /\ b # NoBlock
  BY <1>1, CallFacts
<1>3. \A m : /\ m # usrInfo[b].usrname => Named(m)' = Named(m)
             /\ m = usrInfo[b].usrname => Named(m)' = Named(m) \cup {b}
  BY <1>1 DEF Named
<1>4. usrInfo[b].usrname \in Reach(t)
  BY <1>2 DEF Confined
<1>5. \A m \in Names : m \notin Reach(t) => Kept(m)
  BY <1>1, <1>3, <1>4 DEF Kept
<1>6. pc'[t] = "addcb" /\ local'[t] = local[t]
  BY <1>1, GoesFacts
<1>7. \A m \in local[t].on : ~Quiet(m)'
  BY <1>6 DEF Quiet
<1>8. ASSUME Clean(t)' PROVE Ready(t)'
  <2>1. Ready(t)
    BY <1>1, <1>6, <1>8 DEF Clean, Agreed
  <2>2. local[t].on = {n} /\ Named(n) = {} /\ table[n] = NoRow /\ usrInfo[b] = local[t].usr
    BY <1>1, <2>1 DEF Ready
  <2>3. Named(n)' = {b}
    BY <1>3, <2>2
  <2> QED
    BY <1>1, <1>6, <2>2, <2>3 DEF Ready
<1> QED
  BY <1>1, <1>2, <1>5, <1>7, <1>8, AgreedStep

LEMMA RemovesAgreed ==
    ASSUME Typed, Fresh, Closed, Owned, Confined, Agreed, NEW t \in Workers, Removes(t)
    PROVE  Agreed'
<1> SUFFICES ASSUME NEW b, NEW n, b = local[t].info, n = local[t].usr.usrname
             PROVE  Agreed'
  OBVIOUS
<1>1. /\ Goes(t, "delcb", local[t]) /\ InList' = InList \ {b}
      /\ UNCHANGED <<table, usrInfo, disturbed>> /\ pc[t] = "del"
  BY RemovesTyped DEF Removes, usrHistVars
<1>2. up /\ b # NoBlock
  BY <1>1, CallFacts
<1>3. \A m : m # usrInfo[b].usrname => Named(m)' = Named(m)
  BY <1>1 DEF Named
<1>4. usrInfo[b].usrname \in Reach(t)
  BY <1>2 DEF Confined
<1>5. \A m \in Names : m \notin Reach(t) => Kept(m)
  BY <1>1, <1>3, <1>4 DEF Kept
<1>6. pc'[t] = "delcb" /\ local'[t] = local[t]
  BY <1>1, GoesFacts
<1>7. \A m \in local[t].on : ~Quiet(m)'
  BY <1>6 DEF Quiet
<1>8. ASSUME Clean(t)' PROVE Ready(t)'
  <2>1. Ready(t)
    BY <1>1, <1>6, <1>8 DEF Clean, Agreed
  <2>2. local[t].on = {n}
    BY <1>1, <2>1 DEF Ready
  <2> QED
    BY <1>6, <2>2 DEF Ready
<1> QED
  BY <1>1, <1>2, <1>5, <1>7, <1>8, AgreedStep

LEMMA ReturnsAgreed ==
    ASSUME Typed, Closed, Confined, Agreed, NEW t \in Workers, Returns(t), pc[t] # "idle",
           disturbed \subseteq disturbed',
           \A n \in Names : n \notin Reach(t) => table'[n] = table[n],
           \A n \in local[t].on : Clean(t) /\ n \notin disturbed' => Agree(n)'
    PROVE  Agreed'
<1>1. Goes(t, "idle", NoCall)
  BY DEF Returns
<1>2. InList' = InList /\ usrInfo' = usrInfo /\ pc'[t] = "idle"
  BY ReturnsFacts
<1>3. up
  BY CallFacts
<1>4. \A n : Named(n)' = Named(n)
  BY <1>2, NamedSame
<1>5. \A n \in Names : n \notin Reach(t) => Kept(n)
  BY <1>2, <1>4 DEF Kept
<1>6. Ready(t)'
  BY <1>2 DEF Ready
<1>7. \A n \in local[t].on : Clean(t) /\ Quiet(n)' => Agree(n)'
  BY DEF Quiet
<1>8. \A d \in Live : d = local[t].info \/ usrInfo'[d] = usrInfo[d]
  BY <1>2
<1> QED
  BY <1>1, <1>3, <1>5, <1>6, <1>7, <1>8, AgreedStep

\* List and table agree once a call has returned.
LEMMA AgreeAfter ==
    ASSUME Typed, NEW t \in Workers, Returns(t), NEW n \in Names, NEW b,
           Named(n) = {b}, table'[n] # NoRow, usrInfo[b] = UsrInfo(n, table'[n])
    PROVE  Agree(n)'
<1>1. InList' = InList /\ usrInfo' = usrInfo
  BY ReturnsFacts
<1>2. Named(n)' = Named(n)
  BY <1>1, NamedSame
<1> QED
  BY <1>1, <1>2 DEF Agree

LEMMA RefusesAgreed ==
    ASSUME Typed, Closed, Confined, Agreed, NEW t \in Workers, Refuses(t)
    PROVE  Agreed'
<1>1. /\ Returns(t) /\ UNCHANGED <<table, disturbed>>
      /\ pc[t] = "password" \/ (pc[t] = "del" /\ local[t].info \notin InList)
  BY DEF Refuses, usrHistVars
<1>2. ASSUME NEW n \in local[t].on, Clean(t) PROVE Agree(n)'
  <2>1. Ready(t)
    BY <1>2 DEF Agreed
  <2>2. /\ n = local[t].usr.usrname /\ Only(n, local[t].info)
        /\ usrInfo[local[t].info] = UsrInfo(n, table[n])
    BY <1>1, <1>2, <2>1 DEF Ready
  <2> QED
    BY <1>1, <1>2, <2>2, AgreeAfter, CallFacts DEF Only
<1> QED
  BY <1>1, <1>2, ReturnsAgreed

LEMMA FailsAgreed ==
    ASSUME Typed, Closed, Confined, Agreed, NEW t \in Workers, Fails(t)
    PROVE  Agreed'
<1>1. /\ Returns(t) /\ table' = table /\ disturbed' = disturbed \cup local[t].on
      /\ pc[t] # "idle"
  BY DEF Fails
<1> QED
  BY <1>1, ReturnsAgreed

LEMMA InsertsAgreed ==
    ASSUME Typed, Closed, Confined, Agreed, NEW t \in Workers, Inserts(t)
    PROVE  Agreed'
<1> SUFFICES ASSUME NEW b, NEW usr, b = local[t].info, usr = usrInfo[b]
             PROVE  Agreed'
  OBVIOUS
<1>1. /\ Returns(t) /\ pc[t] = "addcb" /\ disturbed' = disturbed
      /\ table' = [table EXCEPT ![usr.usrname] = RowOf(usr)]
  BY DEF Inserts, Confirms
<1>2. usr \in UsrInfos /\ b # NoBlock
  BY <1>1, CallFacts
<1>3. /\ usr.usrname \in Names /\ RowOf(usr) \in Rows /\ RowOf(usr) # NoRow
      /\ UsrInfo(usr.usrname, RowOf(usr)) = usr
  BY <1>2, RowFacts
<1>4. /\ table'[usr.usrname] = RowOf(usr)
      /\ \A n \in Names : n # usr.usrname => table'[n] = table[n]
  BY <1>1, <1>3, TypesNow
<1>5. usr.usrname \in Reach(t)
  BY <1>2 DEF Confined
<1>6. ASSUME NEW n \in local[t].on, Clean(t) PROVE Agree(n)'
  <2>1. Ready(t)
    BY <1>6 DEF Agreed
  <2>2. n = usr.usrname /\ Named(n) = {b}
    BY <1>1, <1>6, <2>1 DEF Ready
  <2> QED
    BY <1>1, <1>3, <1>4, <2>2, AgreeAfter
<1> QED
  BY <1>1, <1>4, <1>5, <1>6, ReturnsAgreed

LEMMA UpdatesAgreed ==
    ASSUME Typed, Closed, Confined, Agreed, NEW t \in Workers, Updates(t)
    PROVE  /\ Agreed'
           /\ \A n \in Names : n # local[t].usr.usrname => table'[n] = table[n]
           /\ Clean(t) => table'[local[t].usr.usrname].passWord = local[t].usr.passWord
<1> SUFFICES ASSUME NEW b, NEW usr, b = local[t].info, usr = local[t].usr
             PROVE  /\ Agreed'
                    /\ \A n \in Names : n # usr.usrname => table'[n] = table[n]
                    /\ Clean(t) => table'[usr.usrname].passWord = usr.passWord
  OBVIOUS
<1>1. /\ Returns(t) /\ pc[t] = "setcb" /\ disturbed' = disturbed
      /\ table' = [n \in Names |-> IF n = usr.usrname /\ table[n] # NoRow
                                   THEN SetUsrInfo(table[n], usr) ELSE table[n]]
  BY DEF Updates, Confirms
<1>2. usr \in UsrInfos
  BY <1>1, CallFacts
<1>3. usr.usrname \in Reach(t)
  BY <1>1 DEF Confined
<1>4. \A n \in Names : n # usr.usrname => table'[n] = table[n]
  BY <1>1
<1>5. ASSUME Clean(t)
      PROVE  LET n == usr.usrname
             IN  /\ local[t].on = {n} /\ n \in Names /\ Named(n) = {b} /\ table'[n] \in Rows
                 /\ usrInfo[b] = UsrInfo(n, table'[n]) /\ table'[n].passWord = usr.passWord
  <2> DEFINE n == usr.usrname
  <2>1. Ready(t)
    BY <1>5 DEF Agreed
  <2>2. /\ local[t].on = {n} /\ Named(n) = {b} /\ table[n] # NoRow /\ usrInfo[b] = usr
        /\ usr.usrID = table[n].usrID /\ usr.userLevel = table[n].userLevel
    BY <1>1, <2>1 DEF Ready, Only, SameUser
  <2>3. n \in Names /\ table[n] \in Rows
    BY <1>2, <2>2, RowFacts, TypesNow
  <2> HIDE DEF n
  <2>4. table'[n] = SetUsrInfo(table[n], usr)
    BY <1>1, <2>2, <2>3 DEF n
  <2>5. /\ SetUsrInfo(table[n], usr) \in Rows
        /\ SetUsrInfo(table[n], usr).passWord = usr.passWord
        /\ SetUsrInfo(table[n], usr).customname = usr.customname
        /\ SetUsrInfo(table[n], usr).usrID = table[n].usrID
        /\ SetUsrInfo(table[n], usr).userLevel = table[n].userLevel
    BY <1>2, <2>3 DEF SetUsrInfo, Rows, UsrInfos
  <2>6. usr = UsrInfo(n, table'[n])
    BY <1>2, <2>2, <2>4, <2>5 DEF UsrInfo, UsrInfos, n
  <2> QED
    BY <2>2, <2>3, <2>4, <2>5, <2>6 DEF n
<1>6. ASSUME NEW n \in local[t].on, Clean(t) PROVE Agree(n)'
  <2>1. /\ n \in Names /\ Named(n) = {b} /\ table'[n] \in Rows /\ usrInfo[b] = UsrInfo(n, table'[n])
    BY <1>5, <1>6
  <2> QED
    BY <1>1, <2>1, RowFacts, AgreeAfter
<1>7. Agreed'
  BY <1>1, <1>3, <1>4, <1>6, ReturnsAgreed
<1> QED
  BY <1>4, <1>5, <1>7

\* A rename that is not disturbed finds the row of the user.
LEMMA RenameFinds ==
    ASSUME Typed, Closed, Agreed, NEW t \in Workers, pc[t] = "bindcb", Clean(t)
    PROVE  \E o \in local[t].on :
               /\ o \in Names /\ local[t].on = {o, local[t].usr.usrname}
               /\ o \in RowsWithId(local[t].usr.usrID)
               /\ local[t].info \in InList /\ usrInfo[local[t].info] = local[t].usr
               /\ local[t].usr = UsrInfo(local[t].usr.usrname, table[o])
               /\ o = local[t].usr.usrname \/ table[local[t].usr.usrname] = NoRow =>
                      Named(local[t].usr.usrname) = {local[t].info}
               /\ o # local[t].usr.usrname => Named(o) = {}
<1>1. Ready(t)
  BY DEF Agreed
<1>2. PICK o \in local[t].on :
           /\ local[t].on = {o, local[t].usr.usrname}
           /\ table[o] # NoRow
           /\ local[t].info \in InList /\ usrInfo[local[t].info] = local[t].usr
           /\ local[t].usr = UsrInfo(local[t].usr.usrname, table[o])
           /\ o = local[t].usr.usrname \/ table[local[t].usr.usrname] = NoRow =>
                  Named(local[t].usr.usrname) = {local[t].info}
           /\ o # local[t].usr.usrname => Named(o) = {}
  BY <1>1 DEF Ready
<1>3. o \in Names
  BY CallFacts
<1>4. table[o].usrID = local[t].usr.usrID
  BY <1>2 DEF UsrInfo
<1>5. o \in RowsWithId(local[t].usr.usrID)
  BY <1>2, <1>3, <1>4 DEF RowsWithId
<1> QED
  BY <1>2, <1>3, <1>5

LEMMA RenamesNoneAgreed ==
    ASSUME Typed, Closed, Confined, Agreed, NEW t \in Workers, RenamesNone(t)
    PROVE  Agreed' /\ ~Clean(t)
<1>1. /\ Returns(t) /\ pc[t] = "bindcb" /\ UNCHANGED <<table, disturbed>>
      /\ RowsWithId(local[t].usr.usrID) = {}
  BY DEF RenamesNone, Confirms
<1>2. ~Clean(t)
  BY <1>1, RenameFinds
<1> QED
  BY <1>1, <1>2, ReturnsAgreed

LEMMA RenamesAgreed ==
    ASSUME Typed, Closed, Owned, Confined, Agreed, NEW t \in Workers, NEW old \in Names,
           Renames(t, old)
    PROVE  /\ Agreed'
           /\ \A m \in Names : m \notin Reach(t) => table'[m] = table[m]
           /\ Clean(t) => table'[local[t].usr.usrname].passWord = local[t].usr.passWord
<1> SUFFICES ASSUME NEW b, NEW n, NEW usr, b = local[t].info, usr = local[t].usr,
                    n = usr.usrname
             PROVE  /\ Agreed'
                    /\ \A m \in Names : m \notin Reach(t) => table'[m] = table[m]
                    /\ Clean(t) => table'[n].passWord = usr.passWord
  OBVIOUS
<1>1. /\ Returns(t) /\ pc[t] = "bindcb" /\ n \in Names
      /\ table[old] # NoRow /\ table[old].usrID = usr.usrID
      /\ \A m \in Names : table[m] # NoRow /\ table[m].usrID = usr.usrID => m = old
      /\ n # old => table[n] = NoRow /\ table'[old] = NoRow
      /\ table'[n] = table[old]
      /\ \A m \in Names : m # n /\ m # old => table'[m] = table[m]
  BY RenamesTable
<1>2. disturbed' = disturbed
  BY DEF Renames, Confirms
<1>3. b \in Live /\ b # NoBlock /\ usr.usrID = usrInfo[b].usrID
  BY <1>1, CallFacts DEF Owned
<1>4. n \in Reach(t) /\ usrInfo[b].usrname \in Reach(t)
  BY <1>1, <1>3 DEF Confined
<1>5. ASSUME Clean(t)
      PROVE  /\ local[t].on = {old, n} /\ usrInfo[b] = UsrInfo(n, table[old])
             /\ usr = UsrInfo(n, table[old])
             /\ Named(n) = {b} /\ (old # n => Named(old) = {})
  <2>1. PICK o \in local[t].on :
               /\ o \in Names /\ local[t].on = {o, n}
               /\ o \in RowsWithId(usr.usrID)
               /\ b \in InList /\ usrInfo[b] = usr
               /\ usr = UsrInfo(n, table[o])
               /\ o = n \/ table[n] = NoRow => Named(n) = {b}
               /\ o # n => Named(o) = {}
    BY <1>1, <1>5, RenameFinds
  <2>2. o = old
    BY <1>1, <2>1 DEF RowsWithId
  <2> QED
    BY <1>1, <2>1, <2>2
<1>6. old \in Reach(t)
  <2>1. CASE Clean(t)
    BY <1>5, <2>1 DEF Reach
  <2>2. CASE ~Clean(t)
    <3>1. Linked(b, old)
      BY <1>1, <1>3, ConfinedLink
    <3>2. CASE \E u \in Workers : pc[u] = "bindcb" /\ local[u].info = b /\ old \in local[u].on
      <4>1. PICK u \in Workers : pc[u] = "bindcb" /\ local[u].info = b /\ old \in local[u].on
        BY <3>2
      <4>2. ~Clean(u)
        BY <1>3, <2>2, <4>1, SharedBlock
      <4>3. old \in disturbed
        BY <4>1, <4>2 DEF Closed
      <4> QED
        BY <2>2, <4>3 DEF Reach
    <3> QED
      BY <1>4, <2>2, <3>1, <3>2 DEF Linked, Reach
  <2> QED
    BY <2>1, <2>2
<1>7. \A m \in Names : m \notin Reach(t) => table'[m] = table[m]
  BY <1>1, <1>4, <1>6
<1>8. ASSUME NEW m \in local[t].on, Clean(t) PROVE Agree(m)'
  <2>1. CASE m = n
    BY <1>1, <1>5, <1>8, <2>1, AgreeAfter
  <2>2. CASE m # n
    <3>1. m = old /\ Named(m) = {} /\ table'[m] = NoRow
      BY <1>1, <1>5, <1>8, <2>2
    <3>2. Named(m)' = {}
      BY <1>1, <3>1, ReturnsFacts, NamedSame
    <3> QED
      BY <3>1, <3>2 DEF Agree
  <2> QED
    BY <2>1, <2>2
<1>9. Agreed'
  BY <1>1, <1>2, <1>7, <1>8, ReturnsAgreed
<1>10. Clean(t) => table'[n].passWord = usr.passWord
  BY <1>1, <1>5 DEF UsrInfo
<1> QED
  BY <1>7, <1>9, <1>10
-----------------------------------------------------------------------------
(* Passwords that were confirmed. *)

LEMMA ConfirmedSame ==
    ASSUME Closed, Confirmed, NEW t \in Workers, acked' = acked,
           \A u \in Workers : local'[u].on = local[u].on \/ local'[u].on = {},
           disturbed' \subseteq disturbed \cup local[t].on,
           \A n \in Names : n \notin Reach(t) => table'[n] = table[n]
    PROVE  Confirmed'
<1> SUFFICES ASSUME NEW n \in Names, acked[n] # NoPass
             PROVE  Quiet(n)' /\ table'[n].passWord = acked[n]
  BY DEF Confirmed
<1>1. Quiet(n) /\ table[n].passWord = acked[n]
  BY DEF Confirmed
<1>2. n \notin disturbed /\ \A u \in Workers : n \notin local[u].on
  BY <1>1 DEF Quiet
<1>3. n \notin Reach(t)
  BY <1>2 DEF Reach
<1>4. Quiet(n)'
  BY <1>2 DEF Quiet
<1> QED
  BY <1>1, <1>3, <1>4

LEMMA OpensConfirmed ==
    ASSUME Typed, Confirmed, NEW t \in Workers, NEW label, NEW c, Opens(t, label, c)
    PROVE  Confirmed'
<1>1. Goes(t, label, c) /\ table' = table
  BY OpensGoes
<1>2. /\ local'[t] = c /\ \A u \in Workers : u # t => local'[u] = local[u]
  BY <1>1, GoesFacts
<1>3. \A x \in disturbed' : x \notin disturbed =>
          \/ x \in c.on
          \/ \E u \in Workers : x \in local[u].on /\ local[u].on \cap c.on # {}
  BY OpensDisturbs
<1>4. acked' = [n \in Names |-> IF n \in c.on THEN NoPass ELSE acked[n]]
  BY DEF Opens, Begin
<1> SUFFICES ASSUME NEW n \in Names, acked'[n] # NoPass
             PROVE  Quiet(n)' /\ table'[n].passWord = acked'[n]
  BY DEF Confirmed
<1>5. n \notin c.on /\ acked'[n] = acked[n]
  BY <1>4
<1>6. Quiet(n) /\ table[n].passWord = acked[n]
  BY <1>5 DEF Confirmed
<1>7. Quiet(n)'
  BY <1>2, <1>3, <1>5, <1>6 DEF Quiet
<1> QED
  BY <1>1, <1>5, <1>6, <1>7

LEMMA ConfirmsConfirmed ==
    ASSUME Typed, Closed, Confined, Confirmed, NEW t \in Workers, Confirms(t), pc[t] # "idle",
           \A n \in Names : n \notin Reach(t) => table'[n] = table[n],
           Clean(t) => table'[local[t].usr.usrname].passWord = local[t].usr.passWord
    PROVE  Confirmed'
<1> SUFFICES ASSUME NEW n, NEW p, n = local[t].usr.usrname, p = local[t].usr.passWord
             PROVE  Confirmed'
  OBVIOUS
<1>1. /\ Returns(t) /\ disturbed' = disturbed
      /\ acked' = [acked EXCEPT ![n] = IF Clean(t) THEN p ELSE @]
  BY DEF Confirms, Clean
<1>2. local'[t].on = {} /\ \A u \in Workers : u # t => local'[u] = local[u]
  BY <1>1, ReturnsFacts
<1>3. n \in Names
  BY CallFacts, RowFacts
<1> SUFFICES ASSUME NEW m \in Names, acked'[m] # NoPass
             PROVE  Quiet(m)' /\ table'[m].passWord = acked'[m]
  BY DEF Confirmed
<1>4. CASE m = n /\ Clean(t)
  <2>1. acked'[m] = p
    BY <1>1, <1>3, <1>4, TypesNow
  <2>2. m \in local[t].on
    BY <1>4 DEF Confined, Reach
  <2>3. m \notin disturbed /\ \A u \in Workers : u # t => m \notin local[u].on
    BY <1>4, <2>2 DEF Closed, Clean
  <2>4. Quiet(m)'
    BY <1>1, <1>2, <2>3 DEF Quiet
  <2> QED
    BY <1>4, <2>1, <2>4
<1>5. CASE ~(m = n /\ Clean(t))
  <2>1. acked'[m] = acked[m]
    BY <1>1, <1>3, <1>5, TypesNow
  <2>2. Quiet(m) /\ table[m].passWord = acked[m]
    BY <2>1 DEF Confirmed
  <2>3. m \notin disturbed /\ \A u \in Workers : m \notin local[u].on
    BY <2>2 DEF Quiet
  <2>4. m \notin Reach(t)
    BY <2>3 DEF Reach
  <2>5. Quiet(m)'
    BY <1>1, <1>2, <2>3 DEF Quiet
  <2> QED
    BY <2>1, <2>2, <2>4, <2>5
<1> QED
  BY <1>4, <1>5

LEMMA InsertsConfirmed ==
    ASSUME Typed, Closed, Confined, Agreed, Confirmed, NEW t \in Workers, Inserts(t)
    PROVE  Confirmed'
<1> SUFFICES ASSUME NEW b, NEW usr, b = local[t].info, usr = usrInfo[b]
             PROVE  Confirmed'
  OBVIOUS
<1>1. /\ Confirms(t) /\ pc[t] = "addcb"
      /\ table' = [table EXCEPT ![usr.usrname] = RowOf(usr)]
  BY DEF Inserts
<1>2. usr \in UsrInfos /\ b # NoBlock /\ usr.usrname \in Names
  BY <1>1, CallFacts, RowFacts
<1>3. usr.usrname \in Reach(t)
  BY <1>2 DEF Confined
<1>4. /\ \A n \in Names : n \notin Reach(t) => table'[n] = table[n]
      /\ table'[usr.usrname] = RowOf(usr)
  BY <1>1, <1>2, <1>3, TypesNow
<1>5. Clean(t) => usr = local[t].usr
  BY <1>1 DEF Agreed, Ready
<1>6. RowOf(usr).passWord = usr.passWord
  BY DEF RowOf
<1> QED
  BY <1>1, <1>4, <1>5, <1>6, ConfirmsConfirmed
-----------------------------------------------------------------------------
(* The invariant. *)

LEMMA OpensInv ==
    ASSUME UsrInv, NEW t \in Workers, NEW label, NEW c, Opens(t, label, c)
    PROVE  UsrInv'
<1>1. Typed /\ Fresh /\ Bounded /\ Closed
  BY DEF UsrInv
<1>2. Goes(t, label, c) /\ label # "add" /\ InList' = InList /\ idRisk' = idRisk
  BY <1>1, OpensGoes
<1>3. Typed' /\ Fresh' /\ Bounded' /\ Closed'
  BY <1>1, <1>2, OpensTyped, FreshStep, OpensBounded, OpensClosed
<1>4. ASSUME ~idRisk' PROVE Owned' /\ Confined' /\ Agreed' /\ Confirmed'
  <2>1. Owned /\ Confined /\ Agreed /\ Confirmed
    BY <1>2, <1>4 DEF UsrInv
  <2> QED
    BY <1>1, <1>3, <2>1, OpensOwned, OpensConfined, OpensAgreed, OpensConfirmed
<1> QED
  BY <1>3, <1>4 DEF UsrInv

LEMMA MakesInv ==
    ASSUME UsrInv, NEW t \in Workers, NEW id, NEW b, Makes(t, id, b)
    PROVE  UsrInv'
<1>1. Typed /\ Fresh /\ Bounded /\ Closed
  BY DEF UsrInv
<1> DEFINE c == [local[t] EXCEPT !.info = b, !.usr = [local[t].usr EXCEPT !.usrID = id]]
<1>2. /\ Goes(t, "add", c) /\ UNCHANGED <<table, disturbed, acked>> /\ (~idRisk' => ~idRisk)
      /\ local[t] \in CallVars
  BY <1>1, CallFacts DEF Makes
<1>3. \A u \in Workers : local'[u].on = local[u].on
  <2>1. c.on = local[t].on
    BY <1>2 DEF CallVars
  <2> HIDE DEF c
  <2> QED
    BY <1>1, <1>2, <2>1, GoesFacts
<1>4. Typed' /\ Fresh' /\ Bounded' /\ Closed'
  BY <1>1, <1>2, <1>3, MakesTyped, MakesFresh, MakesBounded, ClosedSame
<1>5. ASSUME ~idRisk' PROVE Owned' /\ Confined' /\ Agreed' /\ Confirmed'
  <2>1. Owned /\ Confined /\ Agreed /\ Confirmed
    BY <1>2, <1>5 DEF UsrInv
  <2>2. Confirmed'
    BY <1>1, <1>2, <1>3, <2>1, ConfirmedSame
  <2> QED
    BY <1>1, <1>4, <1>5, <2>1, <2>2, MakesOwned, MakesConfined, MakesAgreed
<1> QED
  BY <1>4, <1>5 DEF UsrInv

LEMMA EditsInv ==
    ASSUME UsrInv, NEW t \in Workers, NEW label, NEW usr, NEW new, Edits(t, label, usr, new)
    PROVE  UsrInv'
<1>1. Typed /\ Fresh /\ Bounded /\ Closed
  BY DEF UsrInv
<1>2. PICK c : EditsTo(t, label, c, usr, new)
  BY <1>1, EditsGoes
<1>3. /\ Goes(t, label, c) /\ c.on = local[t].on /\ InList' = InList
      /\ UNCHANGED <<table, disturbed, acked, idRisk>>
  BY <1>2 DEF EditsTo
<1>4. label # "add"
  BY DEF Edits
<1>5. \A u \in Workers : local'[u].on = local[u].on
  BY <1>1, <1>3, GoesFacts
<1>6. Typed' /\ Fresh' /\ Bounded' /\ Closed'
  BY <1>1, <1>3, <1>4, <1>5, EditsTyped, FreshStep, EditsBounded, ClosedSame
<1>7. ASSUME ~idRisk' PROVE Owned' /\ Confined' /\ Agreed' /\ Confirmed'
  <2>1. Owned /\ Confined /\ Agreed /\ Confirmed
    BY <1>3, <1>7 DEF UsrInv
  <2>2. Confirmed'
    BY <1>1, <1>3, <1>5, <2>1, ConfirmedSame
  <2> QED
    BY <1>1, <1>6, <2>1, <2>2, EditsOwned, EditsConfined, EditsAgreed
<1> QED
  BY <1>6, <1>7 DEF UsrInv

LEMMA MovesInv ==
    ASSUME UsrInv, NEW t \in Workers, Adds(t) \/ Removes(t)
    PROVE  UsrInv'
<1>1. Typed /\ Fresh /\ Bounded /\ Closed
  BY DEF UsrInv
<1>2. PICK label : Goes(t, label, local[t]) /\ (Removes(t) => label = "delcb")
  BY DEF Adds, Removes
<1>3. UNCHANGED <<table, disturbed, acked, idRisk>>
  BY DEF Adds, Removes, usrHistVars
<1>4. \A u \in Workers : local'[u].on = local[u].on
  BY <1>1, <1>2, GoesFacts
<1>5. Typed' /\ Fresh' /\ Bounded' /\ Closed'
  <2>1. Closed'
    BY <1>1, <1>3, <1>4, ClosedSame
  <2>2. CASE Adds(t)
    BY <1>1, <2>1, <2>2, AddsTyped, AddsFresh, AddsBounded
  <2>3. CASE Removes(t)
    BY <1>1, <1>2, <2>1, <2>3, RemovesTyped, FreshStep, RemovesBounded
  <2> QED
    BY <2>2, <2>3
<1>6. ASSUME ~idRisk' PROVE Owned' /\ Confined' /\ Agreed' /\ Confirmed'
  <2>1. Owned /\ Confined /\ Agreed /\ Confirmed
    BY <1>3, <1>6 DEF UsrInv
  <2>2. Confirmed'
    BY <1>1, <1>3, <1>4, <2>1, ConfirmedSame
  <2>3. Owned' /\ Agreed'
    BY <1>1, <2>1, AddsOwned, RemovesOwned, AddsAgreed, RemovesAgreed
  <2>4. Confined'
    BY <1>1, <1>5, <2>1, MovesConfined
  <2> QED
    BY <2>2, <2>3, <2>4
<1> QED
  BY <1>5, <1>6 DEF UsrInv

LEMMA ReturnsFresh ==
    ASSUME Typed, Fresh, NEW t \in Workers, Returns(t)
    PROVE  Fresh' /\ \A u \in Workers : local'[u].on = local[u].on \/ local'[u].on = {}
<1>1. /\ Goes(t, "idle", NoCall) /\ InList' = InList /\ local'[t].on = {}
      /\ \A u \in Workers : u # t => local'[u] = local[u]
  BY ReturnsFacts DEF Returns
<1> QED
  BY <1>1, FreshStep

LEMMA RefusesInv ==
    ASSUME UsrInv, NEW t \in Workers, Refuses(t)
    PROVE  UsrInv'
<1>1. Typed /\ Fresh /\ Bounded /\ Closed
  BY DEF UsrInv
<1>2. Returns(t) /\ UNCHANGED <<table, disturbed, acked, idRisk>>
  BY DEF Refuses, usrHistVars
<1>3. Fresh' /\ \A u \in Workers : local'[u].on = local[u].on \/ local'[u].on = {}
  BY <1>1, <1>2, ReturnsFresh
<1>4. Typed' /\ Bounded' /\ Closed'
  BY <1>1, <1>2, <1>3, RefusesFailsTyped, RefusesFailsBounded, ClosedSame
<1>5. ASSUME ~idRisk' PROVE Owned' /\ Confined' /\ Agreed' /\ Confirmed'
  <2>1. Owned /\ Confined /\ Agreed /\ Confirmed
    BY <1>2, <1>5 DEF UsrInv
  <2>2. Confirmed'
    BY <1>1, <1>2, <1>3, <2>1, ConfirmedSame
  <2> QED
    BY <1>1, <1>4, <2>1, <2>2, RefusesFailsOwned, RefusesConfined, RefusesAgreed
<1> QED
  BY <1>3, <1>4, <1>5 DEF UsrInv

LEMMA FailsInv ==
    ASSUME UsrInv, NEW t \in Workers, Fails(t)
    PROVE  UsrInv'
<1>1. Typed /\ Fresh /\ Bounded /\ Closed
  BY DEF UsrInv
<1>2. Returns(t) /\ UNCHANGED <<table, acked, idRisk>> /\ disturbed' = disturbed \cup local[t].on
  BY DEF Fails
<1>3. Fresh' /\ \A u \in Workers : local'[u].on = local[u].on \/ local'[u].on = {}
  BY <1>1, <1>2, ReturnsFresh
<1>4. Typed' /\ Bounded' /\ Closed'
  BY <1>1, RefusesFailsTyped, RefusesFailsBounded, FailsClosed
<1>5. ASSUME ~idRisk' PROVE Owned' /\ Confined' /\ Agreed' /\ Confirmed'
  <2>1. Owned /\ Confined /\ Agreed /\ Confirmed
    BY <1>2, <1>5 DEF UsrInv
  <2>2. Confirmed'
    BY <1>1, <1>2, <1>3, <2>1, ConfirmedSame
  <2> QED
    BY <1>1, <1>4, <2>1, <2>2, RefusesFailsOwned, FailsConfined, FailsAgreed
<1> QED
  BY <1>3, <1>4, <1>5 DEF UsrInv

LEMMA StoresInv ==
    ASSUME UsrInv, NEW t \in Workers, Stores(t)
    PROVE  UsrInv'
<1>1. Typed /\ Fresh /\ Bounded /\ Closed
  BY DEF UsrInv
<1>2. /\ Confirms(t) /\ pc[t] # "idle" /\ (~idRisk' => ~idRisk)
  BY <1>1, StoresTable DEF Stores, Inserts, Updates, RenamesNone, Renames
<1>3. Returns(t) /\ disturbed' = disturbed
  BY <1>2 DEF Confirms
<1>4. Fresh' /\ \A u \in Workers : local'[u].on = local[u].on \/ local'[u].on = {}
  BY <1>1, <1>3, ReturnsFresh
<1>5. Typed' /\ Bounded' /\ Closed'
  BY <1>1, <1>3, <1>4, StoresTyped, StoresBounded, ClosedSame
<1>6. ASSUME ~idRisk' PROVE Owned' /\ Confined' /\ Agreed' /\ Confirmed'
  <2>1. Owned /\ Confined /\ Agreed /\ Confirmed
    BY <1>2, <1>6 DEF UsrInv
  <2>2. CASE Inserts(t)
    BY <1>1, <1>5, <2>1, <2>2, InsertsOwned, InsertsConfined, InsertsAgreed, InsertsConfirmed
  <2>3. CASE Updates(t)
    <3>1. local[t].usr.usrname \in Reach(t)
      BY <1>2, <2>1 DEF Confined
    <3>2. /\ Agreed' /\ \A n \in Names : n \notin Reach(t) => table'[n] = table[n]
          /\ Clean(t) => table'[local[t].usr.usrname].passWord = local[t].usr.passWord
      BY <1>1, <2>1, <2>3, <3>1, UpdatesAgreed
    <3>3. Confirmed'
      BY <1>1, <1>2, <2>1, <3>2, ConfirmsConfirmed
    <3> QED
      BY <1>1, <1>5, <2>1, <2>3, <3>2, <3>3, UpdatesOwned, UpdatesConfined
  <2>4. CASE RenamesNone(t)
    <3>1. Agreed' /\ ~Clean(t)
      BY <1>1, <2>1, <2>4, RenamesNoneAgreed
    <3>2. table' = table
      BY <2>4 DEF RenamesNone
    <3>3. Confirmed'
      BY <1>1, <1>2, <2>1, <3>1, <3>2, ConfirmsConfirmed
    <3> QED
      BY <1>1, <1>5, <2>1, <2>4, <3>1, <3>3, RenamesNoneOwned, RenamesNoneConfined
  <2>5. CASE \E old \in Names : Renames(t, old)
    <3>1. PICK old \in Names : Renames(t, old)
      BY <2>5
    <3>2. /\ Agreed' /\ \A n \in Names : n \notin Reach(t) => table'[n] = table[n]
          /\ Clean(t) => table'[local[t].usr.usrname].passWord = local[t].usr.passWord
      BY <1>1, <2>1, <3>1, RenamesAgreed
    <3>3. Confirmed'
      BY <1>1, <1>2, <2>1, <3>2, ConfirmsConfirmed
    <3>4. Owned'
      BY <1>1, <1>6, <2>1, <3>1, RenamesOwned
    <3>5. Confined'
      BY <1>1, <1>5, <1>6, <2>1, <3>1, RenamesConfined
    <3> QED
      BY <3>2, <3>3, <3>4, <3>5
  <2> QED
    BY <2>2, <2>3, <2>4, <2>5 DEF Stores
<1> QED
  BY <1>4, <1>5, <1>6 DEF UsrInv

LEMMA StepInv ==
    ASSUME UsrInv, NEW t \in Workers, Step(t)
    PROVE  UsrInv'
<1>1. Typed /\ Bounded
  BY DEF UsrInv
<1>2. CASE CreateUsrid(t)
  BY <1>1, <1>2, CreateUsridIs, MakesInv
<1>3. CASE AddHandle(t)
  BY <1>1, <1>3, AddHandleIs, MovesInv
<1>4. CASE WritePassword(t)
  BY <1>1, <1>4, WritePasswordIs, EditsInv, RefusesInv
<1>5. CASE Memcpy(t) \/ Restore(t) \/ Compose(t) \/ Bind(t)
  BY <1>1, <1>5, MemcpyIs, RestoreIs, ComposeIs, BindIs, EditsInv
<1>6. CASE DelHandle(t)
  BY <1>1, <1>6, DelHandleIs, MovesInv, RefusesInv
<1>7. CASE MySqlCtrlAddUsrInfo(t) \/ MySqlCtrlSetUsrInfo(t) \/ MySqlCtrlModifyUsrBindInfo(t)
  <2>1. Fails(t) \/ Stores(t)
    BY <1>1, <1>7, StatementIs DEF Stores
  <2> QED
    BY <2>1, FailsInv, StoresInv
<1>8. CASE MySqlCtrlDelUsrInfo(t)
  <2>1. Die /\ UNCHANGED <<table, calls, acked, idRisk>> /\ calls <= MaxCalls
    BY <1>1, <1>8, MadeFacts DEF MySqlCtrlDelUsrInfo
  <2> QED
    BY <2>1, DieInvariant
<1> QED
  BY <1>2, <1>3, <1>4, <1>5, <1>6, <1>7, <1>8 DEF Step

LEMMA CallInv ==
    ASSUME UsrInv, NEW t \in Workers, NEW n \in Names,
           \/ \E p \in Passwords, l \in Levels : AddUsr(t, n, p, l)
           \/ \E p, q \in Passwords : ModifyPassword(t, n, p, q)
           \/ \E p \in Passwords : ResetPassword(t, n, p)
           \/ \E p \in Passwords, l \in Levels, c \in Customs \ {NoCustom} :
                  ModifyUsrInfo(t, n, p, l, c)
           \/ \E m \in Names : ModifyUsrBindInfo(t, n, m)
           \/ DelUsr(t, n)
    PROVE  UsrInv'
<1>1. Typed
  BY DEF UsrInv
<1>2. \E label, c : Opens(t, label, c)
  <2>1. CASE \E p \in Passwords, l \in Levels : AddUsr(t, n, p, l)
    BY <1>1, <2>1, AddUsrOpens
  <2>2. CASE \E p, q \in Passwords : ModifyPassword(t, n, p, q)
    BY <1>1, <2>2, PasswordOpens DEF ModifyPassword
  <2>3. CASE \E p \in Passwords : ResetPassword(t, n, p)
    BY <1>1, <2>3, PasswordOpens DEF ResetPassword
  <2>4. CASE \E p \in Passwords, l \in Levels, c \in Customs \ {NoCustom} :
                 ModifyUsrInfo(t, n, p, l, c)
    BY <1>1, <2>4, ModifyOpens
  <2>5. CASE \E m \in Names : ModifyUsrBindInfo(t, n, m)
    BY <1>1, <2>5, RenameOpens
  <2>6. CASE DelUsr(t, n)
    BY <1>1, <2>6, DelOpens
  <2> QED
    BY <2>1, <2>2, <2>3, <2>4, <2>5, <2>6
<1> QED
  BY <1>2, OpensInv

LEMMA StutterInv ==
    ASSUME UsrInv, UNCHANGED usrVars
    PROVE  UsrInv'
<1> USE DEF usrVars, usrListVars, usrHistVars
<1>1. InList' = InList /\ \A n : Named(n)' = Named(n)
  BY DEF InList, Named
<1>2. Live' = Live /\ Creating' = Creating /\ Made' = Made
  BY <1>1 DEF Live, Creating, Made
<1>3. Typed'
  BY <1>1, <1>2 DEF UsrInv, Typed, UsrTypeOK
<1>4. Fresh' /\ Bounded' /\ Closed'
  BY <1>1, <1>2 DEF UsrInv, Fresh, Bounded, Closed, Clean
<1>5. ASSUME ~idRisk' PROVE Owned' /\ Confined' /\ Agreed' /\ Confirmed'
  <2>1. Owned /\ Confined /\ Agreed /\ Confirmed
    BY <1>5 DEF UsrInv
  <2>2. Owned'
    BY <1>1, <1>2, <2>1 DEF Owned
  <2>3. Confined'
    BY <1>2, <2>1 DEF Confined, Reach, Clean
  <2>4. Agreed'
    <3>1. \A n : Kept(n)
      BY <1>1 DEF Kept
    <3>2. ASSUME up', NEW n \in Names, Quiet(n)' PROVE Agree(n)'
      <4>1. Quiet(n)
        BY <3>2 DEF Quiet
      <4>2. Agree(n)
        BY <2>1, <3>2, <4>1 DEF Agreed
      <4> QED
        BY <3>1, <4>2, KeptAgree
    <3>3. ASSUME NEW u \in Workers, Clean(u)' PROVE Ready(u)'
      <4>1. Typed /\ Clean(u)
        BY <3>3 DEF UsrInv, Clean
      <4>2. Ready(u)
        BY <2>1, <4>1 DEF Agreed
      <4> QED
        BY <2>1, <3>1, <4>1, <4>2, KeptReady
    <3> QED
      BY <3>2, <3>3 DEF Agreed
  <2>5. Confirmed'
    BY <2>1 DEF Confirmed, Quiet
  <2> QED
    BY <2>2, <2>3, <2>4, <2>5
<1> QED
  BY <1>3, <1>4, <1>5 DEF UsrInv

(***************************************************************************)
(* UsrInv is an invariant: calls that do not overlap keep to their users,  *)
(* in the list and in the table, and each finds its users as it left them. *)
(***************************************************************************)
THEOREM UsrInvHolds == UsrSpec => []UsrInv
<1>1. UsrInit => UsrInv
  BY InitInv
<1>2. ASSUME UsrInv, [UsrNext]_usrVars PROVE UsrInv'
  <2>1. CASE \E t \in Workers : Step(t)
    BY <1>2, <2>1, StepInv
  <2>2. CASE \E n \in Names : ModifyPasswordOfNobody(n)
    <3>1. Typed /\ Bounded
      BY <1>2 DEF UsrInv
    <3>2. Die /\ UNCHANGED <<table, acked, idRisk>> /\ calls' = calls + 1 /\ calls < MaxCalls
      BY <2>2 DEF ModifyPasswordOfNobody
    <3>3. calls' <= MaxCalls
      BY <3>1, <3>2, MadeFacts
    <3> QED
      BY <1>2, <3>2, <3>3, DieInvariant
  <2>3. CASE Crash
    <3>1. Typed /\ Bounded
      BY <1>2 DEF UsrInv
    <3>2. Die /\ UNCHANGED <<table, calls, acked, idRisk>>
      BY <2>3 DEF Crash
    <3>3. calls' <= MaxCalls
      BY <3>1, <3>2, MadeFacts
    <3> QED
      BY <1>2, <3>2, <3>3, DieInvariant
  <2>4. CASE UsrManageInit
    BY <1>2, <2>4, StartInvariant
  <2>5. CASE UNCHANGED usrVars
    BY <1>2, <2>5, StutterInv
  <2>6. CASE \E t \in Workers, n \in Names :
                \/ \E p \in Passwords, l \in Levels : AddUsr(t, n, p, l)
                \/ \E p, q \in Passwords : ModifyPassword(t, n, p, q)
                \/ \E p \in Passwords : ResetPassword(t, n, p)
                \/ \E p \in Passwords, l \in Levels, c \in Customs \ {NoCustom} :
                    ModifyUsrInfo(t, n, p, l, c)
                \/ \E m \in Names : ModifyUsrBindInfo(t, n, m)
                \/ DelUsr(t, n)
    BY <1>2, <2>6, CallInv
  <2> QED
    BY <1>2, <2>1, <2>2, <2>3, <2>4, <2>5, <2>6 DEF UsrNext
<1> QED
  BY <1>1, <1>2, PTL DEF UsrSpec

LEMMA MatchesNow ==
    ASSUME UsrInv
    PROVE  ListMatchesTable
<1>1. UsrTypeOK /\ Typed
  BY DEF UsrInv, Typed
<1>2. ASSUME up, ~idRisk, NEW n \in Names, Quiet(n)
      PROVE  {usrInfo[b] : b \in {c \in InList : usrInfo[c].usrname = n}}
                 = {UsrInfo(n, r) : r \in {table[n]} \ {NoRow}}
  <2>1. Agree(n)
    BY <1>2 DEF UsrInv, Agreed
  <2>2. {usrInfo[b] : b \in Named(n)} = {UsrInfo(n, r) : r \in {table[n]} \ {NoRow}}
    <3>1. CASE table[n] = NoRow
      BY <2>1, <3>1 DEF Agree
    <3>2. CASE table[n] # NoRow
      <4>1. Named(n) # {} /\ \A b \in Named(n) : usrInfo[b] = UsrInfo(n, table[n])
        BY <2>1, <3>2 DEF Agree
      <4> HIDE DEF Named
      <4>2. {usrInfo[b] : b \in Named(n)} = {UsrInfo(n, table[n])}
        BY <4>1
      <4>3. {UsrInfo(n, r) : r \in {table[n]} \ {NoRow}} = {UsrInfo(n, table[n])}
        BY <3>2
      <4> QED
        BY <4>2, <4>3
    <3> QED
      BY <3>1, <3>2
  <2> QED
    BY <2>2 DEF Named
<1> QED
  BY <1>1, <1>2 DEF ListMatchesTable

(***************************************************************************)
(* List and table agree of every user for whom no call is in progress, for *)
(* any number of threads, users and restarts.                              *)
(***************************************************************************)
THEOREM ListMatchesTableHolds == UsrSpec => []ListMatchesTable
  BY UsrInvHolds, MatchesNow, PTL

LEMMA StoredNow ==
    ASSUME UsrInv
    PROVE  AcknowledgedIsStored
<1> SUFFICES ASSUME ~idRisk, NEW n \in Names, acked[n] # NoPass
             PROVE  /\ table[n].passWord = acked[n]
                    /\ up => Authentication(n, acked[n]) = table[n].userLevel
  BY DEF AcknowledgedIsStored
<1>1. Typed /\ Agreed /\ Confirmed
  BY DEF UsrInv
<1>2. Quiet(n) /\ table[n].passWord = acked[n]
  BY <1>1 DEF Confirmed
<1>3. ASSUME up PROVE Authentication(n, acked[n]) = table[n].userLevel
  <2>1. Agree(n)
    BY <1>1, <1>2, <1>3 DEF Agreed
  <2>2. table[n] # NoRow
    BY <1>2 DEF NoRow
  <2>3. Named(n) # {}
    BY <2>1, <2>2 DEF Agree
  <2>4. GetHandleByStr(n) \in Named(n) /\ GetHandleByStr(n) # NoBlock
    BY <1>1, <2>3, Lookup
  <2>5. usrInfo[GetHandleByStr(n)] = UsrInfo(n, table[n])
    BY <2>1, <2>4 DEF Agree
  <2>6. /\ usrInfo[GetHandleByStr(n)].passWord = acked[n]
        /\ usrInfo[GetHandleByStr(n)].userLevel = table[n].userLevel
    BY <1>2, <2>5 DEF UsrInfo
  <2> QED
    BY <2>4, <2>6 DEF Authentication
<1> QED
  BY <1>2, <1>3

(***************************************************************************)
(* A password that a call has confirmed is in the table, and lets the user *)
(* in once the server is up, wherever the process died before.             *)
(***************************************************************************)
THEOREM AcknowledgedIsStoredHolds == UsrSpec => []AcknowledgedIsStored
  BY UsrInvHolds, StoredNow, PTL

LEMMA UniqueNow ==
    ASSUME UsrInv
    PROVE  IdsUnique
<1> SUFFICES ASSUME ~idRisk
             PROVE  /\ \A b, c \in InList : usrInfo[b].usrID = usrInfo[c].usrID => b = c
                    /\ \A n, m \in Names :
                        table[n] # NoRow /\ table[m] # NoRow
                            /\ table[n].usrID = table[m].usrID => n = m
  BY DEF IdsUnique
<1> QED
  BY DEF UsrInv, Owned, Live

(***************************************************************************)
(* No id is given twice, as the comment in AddUsr says, unless one of the  *)
(* three things has happened that idRisk records.                          *)
(***************************************************************************)
THEOREM IdsUniqueHolds == UsrSpec => []IdsUnique
  BY UsrInvHolds, UniqueNow, PTL
=============================================================================
