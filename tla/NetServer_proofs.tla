--------------------------- MODULE NetServer_proofs ---------------------------
(***************************************************************************)
(* The descriptors of the TCP servers, for every set of servers, number of *)
(* descriptors, connections and parts of a request.                        *)
(***************************************************************************)
EXTENDS NetServer, FiniteSetTheorems, SequenceTheorems, TLAPS

ConnRec == [server : Servers, state : {"backlog", "open", "closed"},
            sent : 0 .. Parts, unread : 0 .. Parts, hung : BOOLEAN]
AtNode == {"recv", "readcb", "close", "closecb", "badcb", "badclose"}
Labels == {"select", "walk", "recv", "readcb", "close", "closecb", "fstat", "badcb", "badclose"}

Typed ==
    /\ conns \in Seq(ConnRec)
    /\ Len(conns) <= MaxConns
    /\ \A c \in DOMAIN conns : conns[c].unread <= conns[c].sent
    /\ files \in [Fds -> Conns \cup {None}]
    /\ list \in [Servers -> Seq(Node)]
    /\ pc \in [Servers -> Labels]
    /\ ready \in [Servers -> SUBSET (Fds \cup {None})]
    /\ pos \in [Servers -> Nat]
    /\ got \in [Servers -> Seq(Conns)]
    /\ events \in 0 .. MaxEvents
    /\ mixed \in BOOLEAN
    /\ strike \subseteq [by : Servers, victim : Conns]

\* The walk is at a node of the list, or behind its end.
Placed ==
    \A s \in Servers : /\ pos[s] <= Len(list[s]) + 1
                       /\ pc[s] \in AtNode => pos[s] >= 1 /\ pos[s] <= Len(list[s])

\* Behind a descriptor is an open connection, and behind no other the same.
FilesOpen ==
    /\ \A f \in Fds : files[f] # None =>
           files[f] \in DOMAIN conns /\ conns[files[f]].state = "open"
    /\ \A f, g \in Fds : files[f] = files[g] /\ files[f] # None => f = g

\* Where select saw a connection to accept there still is one: only the server
\* itself accepts it.
BacklogWaits ==
    \A s \in Servers : pc[s] = "walk" /\ pos[s] = 0 /\ None \in ready[s] => Backlog(s) # {}

StrikesOthers ==
    \A k \in strike : k.victim \in DOMAIN conns /\ conns[k.victim].server # k.by

\* A socket in a list is a connection that the server has accepted.
NodesAccepted ==
    \A s \in Servers : \A n \in DOMAIN list[s] :
        LET c == list[s][n].conn
        IN  c \in DOMAIN conns /\ conns[c].server = s /\ conns[c].state # "backlog"

\* Its descriptor is its own, until the loop has closed it for the first time.
NodesOwn ==
    \A s \in Servers : \A n \in DOMAIN list[s] :
        \/ files[list[s][n].fd] = list[s][n].conn
        \/ pc[s] = "closecb" /\ pos[s] = n

\* From then on it is nobody's, or that of a connection of another server.
ClosedOnce ==
    \A s \in Servers : pc[s] = "closecb" =>
        /\ conns[list[s][pos[s]].conn].state = "closed"
        /\ files[Fd(s)] # None => conns[files[Fd(s)]].server # s

NodesDistinct ==
    \A s, r \in Servers : \A n \in DOMAIN list[s], m \in DOMAIN list[r] :
        list[s][n].conn = list[r][m].conn => s = r /\ n = m

OpenListed ==
    \A c \in DOMAIN conns : conns[c].state = "open" =>
        \E s \in Servers : \E n \in DOMAIN list[s] : list[s][n].conn = c

GotOwn ==
    \A s \in Servers :
        /\ pc[s] \in {"recv", "readcb"} =>
               \A k \in DOMAIN got[s] : got[s][k] = list[s][pos[s]].conn
        /\ pc[s] = "readcb" => got[s] # << >>

NoBadNodes == \A s \in Servers : pc[s] \notin {"fstat", "badcb", "badclose"}

Own ==
    /\ NodesAccepted
    /\ NodesOwn
    /\ ClosedOnce
    /\ NodesDistinct
    /\ OpenListed
    /\ GotOwn
    /\ NoBadNodes
    /\ ~mixed

NetInv ==
    /\ Typed
    /\ Placed
    /\ FilesOpen
    /\ BacklogWaits
    /\ StrikesOthers
    /\ strike = {} => Own
-----------------------------------------------------------------------------
(***************************************************************************)
(* Lists and searches.                                                     *)
(***************************************************************************)

\* RemoveAt takes one element out and leaves the others in their order.
LEMMA RemoveAtIs ==
    ASSUME NEW S, NEW l \in Seq(S), NEW k \in 1 .. Len(l)
    PROVE  /\ RemoveAt(l, k) \in Seq(S)
           /\ Len(RemoveAt(l, k)) = Len(l) - 1
           /\ \A j \in 1 .. Len(l) - 1 :
                  RemoveAt(l, k)[j] = IF j < k THEN l[j] ELSE l[j + 1]
<1> DEFINE a == SubSeq(l, 1, k - 1)
           b == SubSeq(l, k + 1, Len(l))
<1>1. \A j \in 1 .. Len(l) : l[j] \in S
  OBVIOUS
<1>2. Len(l) \in Nat /\ k \in Nat /\ 1 <= k /\ k <= Len(l)
  OBVIOUS
<1>3. a \in Seq(S) /\ Len(a) = k - 1 /\ \A j \in 1 .. k - 1 : a[j] = l[j]
  BY <1>1, <1>2, SubSeqProperties
<1>4. b \in Seq(S) /\ Len(b) = Len(l) - k /\ \A j \in 1 .. Len(l) - k : b[j] = l[k + j]
  BY <1>1, <1>2, SubSeqProperties
<1>5. RemoveAt(l, k) = a \o b
  BY DEF RemoveAt
<1> HIDE DEF a, b
<1>6. /\ a \o b \in Seq(S)
      /\ Len(a \o b) = Len(l) - 1
      /\ \A j \in 1 .. Len(l) - 1 : (a \o b)[j] = IF j < k THEN a[j] ELSE b[j - (k - 1)]
  <2>1. /\ a \o b \in Seq(S) /\ Len(a \o b) = Len(a) + Len(b)
        /\ \A j \in 1 .. Len(a) + Len(b) : (a \o b)[j] = IF j <= Len(a) THEN a[j] ELSE b[j - Len(a)]
    BY <1>3, <1>4, ConcatProperties
  <2>2. Len(a) + Len(b) = Len(l) - 1
    BY <1>2, <1>3, <1>4
  <2>3. \A j \in 1 .. Len(l) - 1 : j <= Len(a) <=> j < k
    BY <1>2, <1>3
  <2> QED
    BY <1>3, <2>1, <2>2, <2>3
<1>7. \A j \in 1 .. Len(l) - 1 : (a \o b)[j] = IF j < k THEN l[j] ELSE l[j + 1]
  <2> TAKE j \in 1 .. Len(l) - 1
  <2>1. CASE j < k
    BY <1>2, <1>3, <1>6, <2>1
  <2>2. CASE ~(j < k)
    <3>1. j - (k - 1) \in 1 .. Len(l) - k /\ k + (j - (k - 1)) = j + 1
      BY <1>2, <2>2
    <3> QED
      BY <1>2, <1>4, <1>6, <2>2, <3>1
  <2> QED
    BY <2>1, <2>2
<1> QED
  BY <1>5, <1>6, <1>7

\* The least element, for a well-founded relation that contains <.
LEMMA LeastByRelation ==
    ASSUME NEW S, NEW R, S \subseteq Nat, S # {},
           IsWellFoundedOn(R, Nat),
           \A x, y \in Nat : y < x => <<y, x>> \in R
    PROVE  \E x \in S : \A y \in S : x <= y
<1>1. PICK x \in S : \A y \in S : ~(<<y, x>> \in R)
  BY WFMin, Zenon
<1>2. \A y \in S : ~(y < x)
  BY <1>1, Zenon
<1>3. \A y \in S : x <= y
  BY <1>2, SMT
<1> QED
  BY <1>3, Zenon

\* Every non-empty set of naturals has a least element.
LEMMA FirstExists ==
    ASSUME NEW S, S \subseteq Nat, S # {}
    PROVE  \E x \in S : \A y \in S : x <= y
<1>1. \A x, y \in Nat : y < x => <<y, x>> \in OpToRel(<, Nat)
  BY Zenon DEF OpToRel
<1> QED
  BY <1>1, LeastByRelation, NatLessThanWellFounded, Zenon

\* Min is in its set.
LEMMA MinIs ==
    ASSUME NEW S, S \subseteq Nat, S # {}
    PROVE  Min(S) \in S
  BY FirstExists DEF Min

LEMMA ConstFacts ==
    /\ NumFds \in Nat /\ MaxConns \in Nat /\ Parts \in Nat /\ MaxEvents \in Nat
    /\ Fds \subseteq Nat /\ Conns \subseteq Nat
    /\ None \notin Fds /\ None \notin Conns
  BY NetAssumption DEF Fds, Conns, None

\* Numbers of connections and nodes.
LEMMA Domains ==
    ASSUME Typed
    PROVE  /\ Len(conns) \in Nat /\ DOMAIN conns = 1 .. Len(conns) /\ DOMAIN conns \subseteq Conns
           /\ \A c \in DOMAIN conns : conns[c] \in ConnRec
           /\ \A s \in Servers : /\ list[s] \in Seq(Node) /\ Len(list[s]) \in Nat
                                 /\ DOMAIN list[s] = 1 .. Len(list[s])
                                 /\ \A n \in DOMAIN list[s] :
                                       list[s][n].fd \in Fds /\ list[s][n].conn \in Conns
<1>1. MaxConns \in Nat
  BY ConstFacts
<1>2. Len(conns) \in Nat /\ DOMAIN conns = 1 .. Len(conns) /\ DOMAIN conns \subseteq Conns
  BY <1>1 DEF Typed, Conns
<1>3. \A c \in DOMAIN conns : conns[c] \in ConnRec
  BY DEF Typed
<1>4. ASSUME NEW s \in Servers
      PROVE  /\ list[s] \in Seq(Node) /\ Len(list[s]) \in Nat
             /\ DOMAIN list[s] = 1 .. Len(list[s])
             /\ \A n \in DOMAIN list[s] : list[s][n].fd \in Fds /\ list[s][n].conn \in Conns
  <2>1. list[s] \in Seq(Node)
    BY DEF Typed
  <2>2. \A n \in DOMAIN list[s] : list[s][n] \in Node
    BY <2>1
  <2> QED
    BY <2>1, <2>2 DEF Node
<1> QED
  BY <1>2, <1>3, <1>4

\* The node of a thread that is at one.
LEMMA AtNodeIs ==
    ASSUME Typed, Placed, NEW s \in Servers, pc[s] \in AtNode
    PROVE  /\ pos[s] \in DOMAIN list[s] /\ Fd(s) = list[s][pos[s]].fd /\ Fd(s) \in Fds
           /\ list[s][pos[s]].conn \in Conns /\ list[s][pos[s]] \in Node
<1>1. pos[s] \in Nat /\ pos[s] >= 1 /\ pos[s] <= Len(list[s])
  BY DEF Typed, Placed
<1>2. pos[s] \in DOMAIN list[s]
  BY <1>1, Domains
<1>3. list[s][pos[s]] \in Node
  BY <1>2, Domains
<1> QED
  BY <1>2, <1>3, Domains DEF Fd
-----------------------------------------------------------------------------
(***************************************************************************)
(* Steps that leave descriptors and lists alone.                           *)
(***************************************************************************)

\* Connections may come and change, but not their servers and states.
ConnsKept ==
    /\ DOMAIN conns \subseteq DOMAIN conns'
    /\ \A c \in DOMAIN conns : conns'[c].server = conns[c].server /\ conns'[c].state = conns[c].state
    /\ \A c \in DOMAIN conns' : c \notin DOMAIN conns => conns'[c].state = "backlog"

\* What is said of descriptors and lists stays true.
LEMMA TablesKept ==
    ASSUME NetInv, ConnsKept, UNCHANGED <<files, list, strike>>,
           \A s \in Servers : (pc'[s] = "closecb") <=> (pc[s] = "closecb"),
           \A s \in Servers : pc[s] = "closecb" => pos'[s] = pos[s]
    PROVE  /\ FilesOpen' /\ StrikesOthers'
           /\ \A s \in Servers : Backlog(s) \subseteq Backlog(s)'
           /\ strike = {} => /\ NodesAccepted' /\ NodesOwn' /\ ClosedOnce'
                            /\ NodesDistinct' /\ OpenListed'
<1>1. Typed /\ Placed /\ FilesOpen /\ StrikesOthers
  BY DEF NetInv
<1>2. FilesOpen'
  BY <1>1 DEF FilesOpen, ConnsKept
<1>3. StrikesOthers'
  BY <1>1 DEF StrikesOthers, ConnsKept
<1>4. \A s \in Servers : Backlog(s) \subseteq Backlog(s)'
  BY DEF Backlog, ConnsKept
<1>5. ASSUME strike = {}
      PROVE  NodesAccepted' /\ NodesOwn' /\ ClosedOnce' /\ NodesDistinct' /\ OpenListed'
  <2>1. NodesAccepted /\ NodesOwn /\ ClosedOnce /\ NodesDistinct /\ OpenListed
    BY <1>5 DEF NetInv, Own
  <2>2. NodesAccepted'
    BY <2>1 DEF NodesAccepted, ConnsKept
  <2>3. NodesOwn'
    BY <2>1 DEF NodesOwn
  <2>4. ClosedOnce'
    <3> SUFFICES ASSUME NEW s \in Servers, pc'[s] = "closecb"
                 PROVE  /\ conns'[list'[s][pos'[s]].conn].state = "closed"
                        /\ files'[list'[s][pos'[s]].fd] # None =>
                               conns'[files'[list'[s][pos'[s]].fd]].server # s
      BY DEF ClosedOnce, Fd
    <3>1. pc[s] = "closecb" /\ pos'[s] = pos[s]
      OBVIOUS
    <3>2. pos[s] \in DOMAIN list[s] /\ Fd(s) = list[s][pos[s]].fd /\ Fd(s) \in Fds
      BY <1>1, <3>1, AtNodeIs DEF AtNode
    <3>3. /\ conns[list[s][pos[s]].conn].state = "closed"
          /\ files[Fd(s)] # None => conns[files[Fd(s)]].server # s
      BY <2>1, <3>1 DEF ClosedOnce
    <3>4. list[s][pos[s]].conn \in DOMAIN conns
      BY <2>1, <3>2 DEF NodesAccepted
    <3>5. files[Fd(s)] # None => files[Fd(s)] \in DOMAIN conns
      BY <1>1, <3>2 DEF FilesOpen
    <3> QED
      BY <3>1, <3>2, <3>3, <3>4, <3>5 DEF ConnsKept
  <2>5. NodesDistinct'
    BY <2>1 DEF NodesDistinct
  <2>6. OpenListed'
    BY <2>1 DEF OpenListed, ConnsKept
  <2> QED
    BY <2>2, <2>3, <2>4, <2>5, <2>6
<1> QED
  BY <1>2, <1>3, <1>4, <1>5

\* A step of a thread that closes nothing and accepts nothing.
LEMMA LocalKeeps ==
    ASSUME NetInv, NEW s \in Servers, Typed', ConnsKept, UNCHANGED <<files, list, strike>>,
           \A r \in Servers \ {s} : /\ pc'[r] = pc[r] /\ pos'[r] = pos[r]
                                    /\ ready'[r] = ready[r] /\ got'[r] = got[r],
           pc[s] # "closecb", pc'[s] # "closecb",
           pos'[s] <= Len(list[s]) + 1,
           pc'[s] \in AtNode => pos'[s] >= 1 /\ pos'[s] <= Len(list[s]),
           pc'[s] = "walk" /\ pos'[s] = 0 /\ None \in ready'[s] => Backlog(s) # {},
           strike = {} =>
              /\ pc'[s] \in {"recv", "readcb"} =>
                    \A k \in DOMAIN got'[s] : got'[s][k] = list[s][pos'[s]].conn
              /\ pc'[s] = "readcb" => got'[s] # << >>
              /\ pc'[s] \notin {"fstat", "badcb", "badclose"}
              /\ ~mixed'
    PROVE  NetInv'
<1>1. /\ FilesOpen' /\ StrikesOthers'
      /\ \A r \in Servers : Backlog(r) \subseteq Backlog(r)'
      /\ strike = {} => NodesAccepted' /\ NodesOwn' /\ ClosedOnce' /\ NodesDistinct' /\ OpenListed'
  BY TablesKept
<1>2. Placed'
  BY DEF NetInv, Placed
<1>3. BacklogWaits'
  <2> SUFFICES ASSUME NEW r \in Servers, pc'[r] = "walk", pos'[r] = 0, None \in ready'[r]
               PROVE  Backlog(r)' # {}
    BY DEF BacklogWaits
  <2>1. Backlog(r) # {}
    BY DEF NetInv, BacklogWaits
  <2> QED
    BY <1>1, <2>1
<1>4. ASSUME strike = {}
      PROVE  GotOwn' /\ NoBadNodes' /\ ~mixed'
  <2>1. GotOwn /\ NoBadNodes
    BY <1>4 DEF NetInv, Own
  <2>2. GotOwn'
    BY <1>4, <2>1 DEF GotOwn
  <2>3. NoBadNodes'
    BY <1>4, <2>1 DEF NoBadNodes
  <2> QED
    BY <1>4, <2>2, <2>3
<1> QED
  BY <1>1, <1>2, <1>3, <1>4 DEF NetInv, Own

\* The numbers that are typed and do not change with a step.
LEMMA SameConns ==
    ASSUME UNCHANGED conns
    PROVE  ConnsKept
  BY DEF ConnsKept

LEMMA SelectKeeps ==
    ASSUME NetInv, NEW s \in Servers, Select(s), UNCHANGED events
    PROVE  NetInv'
<1>1. Typed /\ Placed
  BY DEF NetInv
<1>2. PICK set : /\ set \subseteq Fds \cup {None} /\ ready' = [ready EXCEPT ![s] = set]
                 /\ None \in set => Backlog(s) # {}
  <2> DEFINE set == {f \in Fds : \E n \in DOMAIN list[s] : list[s][n].fd = f /\ Readable(files[f])}
                       \cup (IF Backlog(s) = {} THEN {} ELSE {None})
  <2>1. ready' = [ready EXCEPT ![s] = set]
    BY DEF Select
  <2>2. set \subseteq Fds \cup {None} /\ (None \in set => Backlog(s) # {})
    BY ConstFacts
  <2> QED
    BY <2>1, <2>2
<1>3. /\ pc[s] = "select" /\ pos' = [pos EXCEPT ![s] = 0] /\ pc' = [pc EXCEPT ![s] = "walk"]
      /\ UNCHANGED <<conns, files, list, got, mixed, strike>>
  BY DEF Select, Goto
<1>4. Typed'
  BY <1>1, <1>2, <1>3 DEF Typed, Labels
<1>5. /\ pc'[s] = "walk" /\ pos'[s] = 0 /\ ready'[s] = set
      /\ \A r \in Servers \ {s} : /\ pc'[r] = pc[r] /\ pos'[r] = pos[r]
                                   /\ ready'[r] = ready[r] /\ got'[r] = got[r]
  BY <1>1, <1>2, <1>3 DEF Typed
<1>6. Len(list[s]) \in Nat
  BY <1>1, Domains
<1>7. strike = {} => ~mixed
  BY DEF NetInv, Own
<1>8. ConnsKept
  BY <1>3, SameConns
<1> QED
  BY <1>2, <1>3, <1>4, <1>5, <1>6, <1>7, <1>8, LocalKeeps DEF AtNode

\* While nothing was hit, a server that is not closing has only open sockets.
LEMMA NoneBad ==
    ASSUME NetInv, NEW s \in Servers, strike = {}, pc[s] # "closecb"
    PROVE  BadNodes(s) = {}
<1>1. NodesOwn /\ Typed
  BY DEF NetInv, Own
<1>2. \A n \in DOMAIN list[s] : list[s][n].conn # None
  BY <1>1, Domains, ConstFacts
<1> QED
  BY <1>1, <1>2 DEF BadNodes, NodesOwn

LEMMA ErrorKeeps ==
    ASSUME NetInv, NEW s \in Servers, SelectError(s) \/ Fstat(s), UNCHANGED events
    PROVE  NetInv'
<1>1. Typed /\ Placed
  BY DEF NetInv
<1>2. Len(list[s]) \in Nat /\ DOMAIN list[s] = 1 .. Len(list[s]) /\ pos[s] \in Nat
  BY <1>1, Domains DEF Typed
<1>3. strike = {} => ~mixed /\ NoBadNodes
  BY DEF NetInv, Own
<1>4. CASE SelectError(s)
  <2>1. /\ pc[s] = "select" /\ BadNodes(s) # {} /\ pc' = [pc EXCEPT ![s] = "fstat"]
        /\ UNCHANGED <<conns, files, list, ready, pos, got, mixed, strike>>
    BY <1>4 DEF SelectError, Goto
  <2>2. strike # {}
    BY <2>1, NoneBad
  <2>3. Typed'
    BY <1>1, <2>1 DEF Typed, Labels
  <2>4. pc'[s] = "fstat" /\ \A r \in Servers \ {s} : pc'[r] = pc[r]
    BY <1>1, <2>1 DEF Typed
  <2>5. pos[s] <= Len(list[s]) + 1
    BY <1>1 DEF Placed
  <2>6. ConnsKept
    BY <2>1, SameConns
  <2> QED
    BY <2>1, <2>2, <2>3, <2>4, <2>5, <2>6, LocalKeeps DEF AtNode
<1>5. CASE Fstat(s)
  <2>1. /\ pc[s] = "fstat" /\ UNCHANGED <<conns, files, list, ready, got, mixed, strike>>
    BY <1>5 DEF Fstat
  <2>2. strike # {}
    BY <1>3, <2>1 DEF NoBadNodes
  <2>3. ConnsKept
    BY <2>1, SameConns
  <2>4. CASE BadNodes(s) # {}
    <3>1. BadNodes(s) \subseteq Nat /\ BadNodes(s) \subseteq DOMAIN list[s]
      BY <1>2 DEF BadNodes
    <3>2. Min(BadNodes(s)) \in DOMAIN list[s]
      BY <2>4, <3>1, MinIs
    <3>3. /\ pos' = [pos EXCEPT ![s] = Min(BadNodes(s))] /\ pc' = [pc EXCEPT ![s] = "badcb"]
      BY <1>5, <2>4 DEF Fstat, Goto
    <3>4. PICK m \in DOMAIN list[s] : pos' = [pos EXCEPT ![s] = m]
      BY <3>2, <3>3
    <3>5. m \in Nat /\ m >= 1 /\ m <= Len(list[s])
      BY <1>2
    <3>6. Typed'
      BY <1>1, <2>1, <3>3, <3>4, <3>5 DEF Typed, Labels
    <3>7. /\ pc'[s] = "badcb" /\ pos'[s] = m
          /\ \A r \in Servers \ {s} : pc'[r] = pc[r] /\ pos'[r] = pos[r]
      BY <1>1, <3>3, <3>4 DEF Typed
    <3>8. pos'[s] <= Len(list[s]) + 1
      BY <1>2, <3>5, <3>7
    <3> QED
      BY <2>1, <2>2, <2>3, <3>5, <3>6, <3>7, <3>8, LocalKeeps
  <2>5. CASE BadNodes(s) = {}
    <3>1. pc' = [pc EXCEPT ![s] = "select"] /\ pos' = pos
      BY <1>5, <2>5 DEF Fstat, Goto
    <3>2. Typed'
      BY <1>1, <2>1, <3>1 DEF Typed, Labels
    <3>3. pc'[s] = "select" /\ \A r \in Servers \ {s} : pc'[r] = pc[r]
      BY <1>1, <3>1 DEF Typed
    <3>4. pos'[s] <= Len(list[s]) + 1
      BY <1>1, <3>1 DEF Placed
    <3> QED
      BY <2>1, <2>2, <2>3, <3>1, <3>2, <3>3, <3>4, LocalKeeps DEF AtNode
  <2> QED
    BY <2>4, <2>5
<1> QED
  BY <1>4, <1>5

LEMMA WalkKeeps ==
    ASSUME NetInv, NEW s \in Servers, Visit(s) \/ Wait(s), UNCHANGED events
    PROVE  NetInv'
<1>1. Typed /\ Placed
  BY DEF NetInv
<1>2. Len(list[s]) \in Nat /\ DOMAIN list[s] = 1 .. Len(list[s]) /\ pos[s] \in Nat
  BY <1>1, Domains DEF Typed
<1>3. strike = {} => ~mixed
  BY DEF NetInv, Own
<1>4. CASE Visit(s)
  <2>1. /\ pc[s] = "walk" /\ pos[s] > 0 /\ Nodes(s) # {}
        /\ pos' = [pos EXCEPT ![s] = Min(Nodes(s))]
        /\ got' = [got EXCEPT ![s] = << >>] /\ pc' = [pc EXCEPT ![s] = "recv"]
        /\ UNCHANGED <<conns, files, list, ready, mixed, strike>>
    BY <1>4 DEF Visit, Goto
  <2>2. Nodes(s) \subseteq Nat /\ Nodes(s) \subseteq DOMAIN list[s]
    BY <1>2, <2>1 DEF Nodes
  <2>3. Min(Nodes(s)) \in DOMAIN list[s]
    BY <2>1, <2>2, MinIs
  <2>4. PICK m \in DOMAIN list[s] : pos' = [pos EXCEPT ![s] = m]
    BY <2>1, <2>3
  <2>5. m \in Nat /\ m >= 1 /\ m <= Len(list[s])
    BY <1>2
  <2>6. Typed'
    BY <1>1, <2>1, <2>4, <2>5 DEF Typed, Labels
  <2>7. /\ pc'[s] = "recv" /\ pos'[s] = m /\ got'[s] = << >>
        /\ \A r \in Servers \ {s} : pc'[r] = pc[r] /\ pos'[r] = pos[r] /\ got'[r] = got[r]
    BY <1>1, <2>1, <2>4 DEF Typed
  <2>8. pos'[s] <= Len(list[s]) + 1
    BY <1>2, <2>5, <2>7
  <2>9. \A k \in DOMAIN got'[s] : FALSE
    BY <2>7
  <2>10. ConnsKept
    BY <2>1, SameConns
  <2> QED
    BY <1>3, <2>1, <2>5, <2>6, <2>7, <2>8, <2>9, <2>10, LocalKeeps
<1>5. CASE Wait(s)
  <2>1. /\ pc[s] = "walk" /\ pc' = [pc EXCEPT ![s] = "select"]
        /\ ready' = [ready EXCEPT ![s] = {}] /\ pos' = [pos EXCEPT ![s] = 0]
        /\ UNCHANGED <<conns, files, list, got, mixed, strike>>
    BY <1>5 DEF Wait, Goto
  <2>2. Typed'
    BY <1>1, <2>1 DEF Typed, Labels
  <2>3. /\ pc'[s] = "select" /\ pos'[s] = 0 /\ ready'[s] = {}
        /\ \A r \in Servers \ {s} : pc'[r] = pc[r] /\ pos'[r] = pos[r] /\ ready'[r] = ready[r]
    BY <1>1, <2>1 DEF Typed
  <2>4. ConnsKept
    BY <2>1, SameConns
  <2> QED
    BY <1>2, <1>3, <2>1, <2>2, <2>3, <2>4, LocalKeeps DEF AtNode
<1> QED
  BY <1>4, <1>5

\* The connection c is changed in what it has sent, not in server or state.
LEMMA ConnChanged ==
    ASSUME Typed, NEW c \in DOMAIN conns, NEW r \in ConnRec, r.unread <= r.sent,
           conns' = [conns EXCEPT ![c] = r], r.server = conns[c].server
    PROVE  /\ conns' \in Seq(ConnRec) /\ Len(conns') = Len(conns)
           /\ DOMAIN conns' = DOMAIN conns /\ Len(conns') <= MaxConns
           /\ \A d \in DOMAIN conns' : conns'[d].unread <= conns'[d].sent
           /\ \A d \in DOMAIN conns : conns'[d] = IF d = c THEN r ELSE conns[d]
           /\ r.state = conns[c].state => ConnsKept
<1>1. c \in 1 .. Len(conns) /\ conns \in Seq(ConnRec)
  BY DEF Typed
<1>2. /\ conns' \in Seq(ConnRec) /\ Len(conns') = Len(conns)
      /\ \A d \in 1 .. Len(conns) : conns'[d] = IF d = c THEN r ELSE conns[d]
  BY <1>1, ExceptSeq
<1>3. DOMAIN conns' = DOMAIN conns /\ DOMAIN conns = 1 .. Len(conns)
  BY <1>1, <1>2
<1>4. \A d \in DOMAIN conns' : conns'[d].unread <= conns'[d].sent
  BY <1>2, <1>3 DEF Typed
<1>5. Len(conns') <= MaxConns
  BY <1>2 DEF Typed
<1>6. r.state = conns[c].state => ConnsKept
  BY <1>2, <1>3 DEF ConnsKept
<1> QED
  BY <1>2, <1>3, <1>4, <1>5, <1>6

LEMMA RecvKeeps ==
    ASSUME NetInv, NEW s \in Servers, Recv(s), UNCHANGED events
    PROVE  NetInv'
<1>1. Typed /\ Placed /\ FilesOpen
  BY DEF NetInv
<1>2. pc[s] = "recv" /\ pos[s] \in DOMAIN list[s] /\ Fd(s) = list[s][pos[s]].fd /\ Fd(s) \in Fds
  BY <1>1, AtNodeIs DEF Recv, AtNode
<1>3. PICK c \in DOMAIN conns :
           /\ c = files[Fd(s)] /\ conns[c].unread > 0
           /\ got' = [got EXCEPT ![s] = @ \o [n \in 1 .. conns[c].unread |-> c]]
           /\ conns' = [conns EXCEPT ![c].unread = 0]
  BY <1>1, <1>2 DEF Recv, FilesOpen
<1>4. /\ UNCHANGED <<files, list, ready, pos, mixed, strike>>
      /\ \E label \in {"recv", "readcb"} : pc' = [pc EXCEPT ![s] = label]
  BY DEF Recv, Goto
<1>5. PICK label \in {"recv", "readcb"} : pc' = [pc EXCEPT ![s] = label]
  BY <1>4
<1>6. c \in Conns /\ conns[c] \in ConnRec
  BY <1>1, Domains
<1>7. conns[c].unread \in Nat /\ conns[c].sent \in Nat
  BY <1>6, ConstFacts DEF ConnRec
<1>8. PICK r \in ConnRec : /\ r = [conns[c] EXCEPT !.unread = 0]
                           /\ r.unread <= r.sent /\ r.server = conns[c].server
                           /\ r.state = conns[c].state
  <2> DEFINE r == [conns[c] EXCEPT !.unread = 0]
  <2>1. 0 \in 0 .. Parts
    BY ConstFacts
  <2>2. /\ r \in ConnRec /\ r.unread = 0 /\ r.sent = conns[c].sent
        /\ r.server = conns[c].server /\ r.state = conns[c].state
    BY <1>6, <2>1 DEF ConnRec
  <2>3. r = [conns[c] EXCEPT !.unread = 0]
    OBVIOUS
  <2> HIDE DEF r
  <2>4. r.unread <= r.sent
    BY <1>7, <2>2
  <2> QED
    BY <2>2, <2>3, <2>4
<1>9. conns' = [conns EXCEPT ![c] = r]
  BY <1>3, <1>8
<1>10. /\ conns' \in Seq(ConnRec) /\ Len(conns') <= MaxConns
       /\ \A d \in DOMAIN conns' : conns'[d].unread <= conns'[d].sent
       /\ ConnsKept
  BY <1>1, <1>8, <1>9, ConnChanged
<1>11. PICK g \in Seq(Conns) :
          /\ g # << >> /\ got' = [got EXCEPT ![s] = g]
          /\ \A k \in DOMAIN g : g[k] = c \/ \E j \in DOMAIN got[s] : g[k] = got[s][j]
  <2> DEFINE old == got[s]
             new == [n \in 1 .. conns[c].unread |-> c]
             g == old \o new
  <2>1. old \in Seq(Conns)
    BY <1>1 DEF Typed
  <2>2. new \in Seq(Conns) /\ Len(new) = conns[c].unread /\ \A n \in 1 .. Len(new) : new[n] = c
    BY <1>6, <1>7
  <2>3. Len(new) > 0 /\ Len(old) \in Nat /\ Len(new) \in Nat /\ DOMAIN old = 1 .. Len(old)
    BY <1>3, <1>7, <2>1, <2>2
  <2> HIDE DEF old, new
  <2>4. /\ g \in Seq(Conns) /\ Len(g) = Len(old) + Len(new)
        /\ \A k \in 1 .. Len(old) + Len(new) :
               g[k] = IF k <= Len(old) THEN old[k] ELSE new[k - Len(old)]
    BY <2>1, <2>2, ConcatProperties
  <2> HIDE DEF g
  <2>5. g # << >> /\ DOMAIN g = 1 .. Len(old) + Len(new)
    BY <2>3, <2>4
  <2>6. \A k \in DOMAIN g : g[k] = c \/ \E j \in DOMAIN old : g[k] = old[j]
    <3> TAKE k \in DOMAIN g
    <3>1. CASE k <= Len(old)
      BY <2>3, <2>4, <2>5, <3>1
    <3>2. CASE k > Len(old)
      <4>1. k - Len(old) \in 1 .. Len(new) /\ g[k] = new[k - Len(old)]
        BY <2>3, <2>4, <2>5, <3>2
      <4> QED
        BY <2>2, <4>1
    <3> QED
      BY <2>3, <2>5, <3>1, <3>2
  <2>7. got' = [got EXCEPT ![s] = g]
    BY <1>3 DEF g, old, new
  <2> QED
    BY <2>4, <2>5, <2>6, <2>7 DEF old
<1>12. Typed'
  BY <1>1, <1>4, <1>5, <1>10, <1>11 DEF Typed, Labels
<1>13. /\ pc'[s] = label /\ pos'[s] = pos[s] /\ got'[s] = g
       /\ \A q \in Servers \ {s} : pc'[q] = pc[q] /\ got'[q] = got[q]
  BY <1>1, <1>4, <1>5, <1>11 DEF Typed
<1>14. strike = {} => ~mixed /\ \A k \in DOMAIN g : g[k] = list[s][pos[s]].conn
  <2> SUFFICES ASSUME strike = {}
               PROVE  ~mixed /\ \A k \in DOMAIN g : g[k] = list[s][pos[s]].conn
    OBVIOUS
  <2>1. NodesOwn /\ GotOwn /\ ~mixed
    BY DEF NetInv, Own
  <2>2. c = list[s][pos[s]].conn
    BY <1>2, <1>3, <2>1 DEF NodesOwn
  <2>3. \A j \in DOMAIN got[s] : got[s][j] = list[s][pos[s]].conn
    BY <1>2, <2>1 DEF GotOwn
  <2> QED
    BY <1>11, <2>1, <2>2, <2>3
<1>15. pos[s] <= Len(list[s]) + 1 /\ pos[s] >= 1 /\ pos[s] <= Len(list[s])
  BY <1>1, <1>2 DEF Placed, AtNode
<1>16. /\ UNCHANGED <<files, list, strike>> /\ mixed' = mixed
       /\ \A q \in Servers \ {s} : pos'[q] = pos[q] /\ ready'[q] = ready[q]
  BY <1>4
<1> QED
  BY <1>2, <1>10, <1>11, <1>12, <1>13, <1>14, <1>15, <1>16, LocalKeeps

LEMMA RecvErrorKeeps ==
    ASSUME NetInv, NEW s \in Servers, RecvError(s), UNCHANGED events
    PROVE  NetInv'
<1>1. Typed /\ Placed
  BY DEF NetInv
<1>2. /\ pc[s] = "recv" /\ pc' = [pc EXCEPT ![s] = "close"]
      /\ UNCHANGED <<conns, files, list, ready, pos, got, mixed, strike>>
  BY DEF RecvError, Goto
<1>3. Typed'
  BY <1>1, <1>2 DEF Typed, Labels
<1>4. pc'[s] = "close" /\ \A r \in Servers \ {s} : pc'[r] = pc[r]
  BY <1>1, <1>2 DEF Typed
<1>5. pos[s] <= Len(list[s]) + 1 /\ pos[s] >= 1 /\ pos[s] <= Len(list[s])
  BY <1>1, <1>2 DEF Placed, AtNode
<1>6. strike = {} => ~mixed
  BY DEF NetInv, Own
<1>7. ConnsKept
  BY <1>2, SameConns
<1> QED
  BY <1>2, <1>3, <1>4, <1>5, <1>6, <1>7, LocalKeeps

LEMMA ReadCbKeeps ==
    ASSUME NetInv, NEW s \in Servers, ReadCb(s), UNCHANGED events
    PROVE  NetInv'
<1>1. Typed /\ Placed
  BY DEF NetInv
<1>2. /\ pc[s] = "readcb" /\ pc' = [pc EXCEPT ![s] = "walk"]
      /\ pos' = [pos EXCEPT ![s] = @ + 1]
      /\ mixed' = (mixed \/ (files[Fd(s)] # None /\ ToSet(got[s]) # {files[Fd(s)]}))
      /\ UNCHANGED <<conns, files, list, ready, got, strike>>
  BY DEF ReadCb, Goto
<1>3. pos[s] \in Nat /\ pos[s] >= 1 /\ pos[s] <= Len(list[s]) /\ Len(list[s]) \in Nat
  BY <1>1, <1>2, Domains DEF Typed, Placed, AtNode
<1>4. mixed' \in BOOLEAN
  BY <1>1, <1>2 DEF Typed
<1>5. pos' \in [Servers -> Nat] /\ pos'[s] = pos[s] + 1 /\ \A r \in Servers \ {s} : pos'[r] = pos[r]
  BY <1>1, <1>2, <1>3 DEF Typed
<1>6. pc' \in [Servers -> Labels] /\ pc'[s] = "walk" /\ \A r \in Servers \ {s} : pc'[r] = pc[r]
  BY <1>1, <1>2 DEF Typed, Labels
<1>7. Typed'
  BY <1>1, <1>2, <1>4, <1>5, <1>6 DEF Typed
<1>8. strike = {} => ~mixed'
  <2> SUFFICES ASSUME strike = {}
               PROVE  ~mixed'
    OBVIOUS
  <2>1. NodesOwn /\ GotOwn /\ ~mixed
    BY DEF NetInv, Own
  <2>2. pos[s] \in DOMAIN list[s] /\ Fd(s) = list[s][pos[s]].fd
    BY <1>1, <1>2, AtNodeIs DEF AtNode
  <2>3. files[Fd(s)] = list[s][pos[s]].conn
    BY <1>2, <2>1, <2>2 DEF NodesOwn
  <2>4. got[s] # << >> /\ \A k \in DOMAIN got[s] : got[s][k] = files[Fd(s)]
    BY <1>2, <2>1, <2>3 DEF GotOwn
  <2>5. got[s] \in Seq(Conns)
    BY <1>1 DEF Typed
  <2>6. 1 \in DOMAIN got[s]
    BY <2>4, <2>5
  <2>7. ToSet(got[s]) = {files[Fd(s)]}
    BY <2>4, <2>6 DEF ToSet
  <2> QED
    BY <1>2, <2>1, <2>7
<1>9. pos'[s] <= Len(list[s]) + 1 /\ pos'[s] # 0
  BY <1>3, <1>5
<1>10. ConnsKept
  BY <1>2, SameConns
<1> QED
  BY <1>2, <1>5, <1>6, <1>7, <1>8, <1>9, <1>10, LocalKeeps DEF AtNode
-----------------------------------------------------------------------------
(***************************************************************************)
(* Clients.                                                                *)
(***************************************************************************)
LEMMA ClientsKeep ==
    ASSUME NetInv, Clients
    PROVE  NetInv'
<1>1. Typed /\ Placed
  BY DEF NetInv
<1>2. /\ events < MaxEvents /\ events' = events + 1
      /\ UNCHANGED <<files, list, pc, ready, pos, got, mixed, strike>>
  BY DEF Clients
<1>3. /\ conns' \in Seq(ConnRec) /\ Len(conns') <= MaxConns
      /\ \A d \in DOMAIN conns' : conns'[d].unread <= conns'[d].sent
      /\ ConnsKept
  <2>1. ASSUME NEW s \in Servers, ClientConnects(s)
        PROVE  <1>3
    <3> DEFINE r == [server |-> s, state |-> "backlog", sent |-> 0, unread |-> 0, hung |-> FALSE]
    <3>1. r \in ConnRec /\ r.state = "backlog" /\ r.unread = 0 /\ r.sent = 0
      BY ConstFacts DEF ConnRec
    <3>2. conns' = Append(conns, r) /\ Len(conns) < MaxConns
      BY <2>1 DEF ClientConnects
    <3> HIDE DEF r
    <3>3. /\ conns' \in Seq(ConnRec) /\ Len(conns') = Len(conns) + 1
          /\ \A d \in 1 .. Len(conns) : conns'[d] = conns[d]
          /\ conns'[Len(conns) + 1] = r
      BY <1>1, <3>1, <3>2, AppendProperties DEF Typed
    <3>4. /\ DOMAIN conns = 1 .. Len(conns) /\ Len(conns) \in Nat
          /\ DOMAIN conns' = 1 .. Len(conns) + 1
      BY <1>1, <3>3, Domains
    <3>5. Len(conns') <= MaxConns
      BY <3>2, <3>3, <3>4, ConstFacts
    <3>6. \A d \in DOMAIN conns' : d \in DOMAIN conns \/ d = Len(conns) + 1
      BY <3>4
    <3>7. \A d \in DOMAIN conns' : conns'[d].unread <= conns'[d].sent
      BY <1>1, <3>1, <3>3, <3>4, <3>6 DEF Typed
    <3>8. ConnsKept
      BY <3>1, <3>3, <3>4, <3>6 DEF ConnsKept
    <3> QED
      BY <3>3, <3>5, <3>7, <3>8
  <2>2. ASSUME NEW c \in DOMAIN conns, ClientSends(c)
        PROVE  <1>3
    <3> DEFINE r == [conns[c] EXCEPT !.sent = @ + 1, !.unread = @ + 1]
    <3>1. conns[c] \in ConnRec /\ conns[c].unread <= conns[c].sent
      BY <1>1, Domains DEF Typed
    <3>2. /\ conns[c].sent < Parts /\ conns[c].sent \in Nat /\ conns[c].unread \in Nat
          /\ Parts \in Nat
      BY <2>2, <3>1, ConstFacts DEF ClientSends, ConnRec
    <3>3. conns[c].sent + 1 \in 0 .. Parts /\ conns[c].unread + 1 \in 0 .. Parts
      BY <3>1, <3>2
    <3>4. /\ r \in ConnRec /\ r.sent = conns[c].sent + 1 /\ r.unread = conns[c].unread + 1
          /\ r.server = conns[c].server /\ r.state = conns[c].state
      BY <3>1, <3>3 DEF ConnRec
    <3>5. conns' = [conns EXCEPT ![c] = r]
      BY <2>2 DEF ClientSends
    <3> HIDE DEF r
    <3>6. r.unread <= r.sent
      BY <3>1, <3>2, <3>4
    <3> QED
      BY <1>1, <3>4, <3>5, <3>6, ConnChanged
  <2>3. ASSUME NEW c \in DOMAIN conns, ClientHangsUp(c)
        PROVE  <1>3
    <3> DEFINE r == [conns[c] EXCEPT !.hung = TRUE]
    <3>1. conns[c] \in ConnRec /\ conns[c].unread <= conns[c].sent
      BY <1>1, Domains DEF Typed
    <3>2. /\ r \in ConnRec /\ r.sent = conns[c].sent /\ r.unread = conns[c].unread
          /\ r.server = conns[c].server /\ r.state = conns[c].state
      BY <3>1 DEF ConnRec
    <3>3. conns' = [conns EXCEPT ![c] = r]
      BY <2>3 DEF ClientHangsUp
    <3> HIDE DEF r
    <3>4. r.unread <= r.sent
      BY <3>1, <3>2
    <3> QED
      BY <1>1, <3>2, <3>3, <3>4, ConnChanged
  <2> QED
    BY <2>1, <2>2, <2>3 DEF Clients
<1>4. events' \in 0 .. MaxEvents
  BY <1>1, <1>2, ConstFacts DEF Typed
<1>5. Typed'
  BY <1>1, <1>2, <1>3, <1>4 DEF Typed
<1>6. /\ FilesOpen' /\ StrikesOthers'
      /\ \A s \in Servers : Backlog(s) \subseteq Backlog(s)'
      /\ strike = {} => NodesAccepted' /\ NodesOwn' /\ ClosedOnce' /\ NodesDistinct' /\ OpenListed'
  BY <1>2, <1>3, TablesKept
<1>7. Placed'
  BY <1>1, <1>2 DEF Placed
<1>8. BacklogWaits'
  <2> SUFFICES ASSUME NEW r \in Servers, pc'[r] = "walk", pos'[r] = 0, None \in ready'[r]
               PROVE  Backlog(r)' # {}
    BY DEF BacklogWaits
  <2>1. Backlog(r) # {}
    BY <1>2 DEF NetInv, BacklogWaits
  <2> QED
    BY <1>6, <2>1
<1>9. strike = {} => GotOwn' /\ NoBadNodes' /\ ~mixed'
  BY <1>2 DEF NetInv, Own, GotOwn, NoBadNodes
<1> QED
  BY <1>2, <1>5, <1>6, <1>7, <1>8, <1>9 DEF NetInv, Own
-----------------------------------------------------------------------------
(***************************************************************************)
(* Closing.                                                                *)
(***************************************************************************)

\* What close does to the connections and descriptors.
LEMMA CloseIs ==
    ASSUME NetInv, NEW s \in Servers, NEW f \in Fds, NEW meant \in Conns, Close(s, f, meant),
           strike = {} /\ files[f] \notin {None, meant} => conns[files[f]].server # s
    PROVE  /\ conns' \in Seq(ConnRec) /\ Len(conns') <= MaxConns
           /\ \A d \in DOMAIN conns' : conns'[d].unread <= conns'[d].sent
           /\ DOMAIN conns' = DOMAIN conns
           /\ \A d \in DOMAIN conns :
                  /\ conns'[d].server = conns[d].server
                  /\ conns'[d].state = IF d = files[f] THEN "closed" ELSE conns[d].state
           /\ files' \in [Fds -> Conns \cup {None}]
           /\ \A g \in Fds : files'[g] = IF g = f THEN None ELSE files[g]
           /\ strike' \subseteq [by : Servers, victim : Conns]
           /\ FilesOpen' /\ StrikesOthers'
           /\ strike' = {} => strike = {} /\ files[f] \in {None, meant}
           /\ \A r \in Servers : Backlog(r)' = Backlog(r)
<1>1. Typed /\ FilesOpen /\ StrikesOthers
  BY DEF NetInv
<1>2. files' = [files EXCEPT ![f] = None] /\ files \in [Fds -> Conns \cup {None}]
  BY <1>1 DEF Close, Typed
<1>3. files' \in [Fds -> Conns \cup {None}] /\ \A g \in Fds : files'[g] = IF g = f THEN None ELSE files[g]
  BY <1>2
<1>4. files[f] # None => files[f] \in DOMAIN conns /\ conns[files[f]].state = "open"
  BY <1>1 DEF FilesOpen
<1>5. None \notin DOMAIN conns
  BY <1>1, Domains, ConstFacts
<1>6. /\ conns' \in Seq(ConnRec) /\ Len(conns') <= MaxConns
      /\ \A d \in DOMAIN conns' : conns'[d].unread <= conns'[d].sent
      /\ DOMAIN conns' = DOMAIN conns
      /\ \A d \in DOMAIN conns :
             /\ conns'[d].server = conns[d].server
             /\ conns'[d].state = IF d = files[f] THEN "closed" ELSE conns[d].state
  <2>1. CASE files[f] = None
    BY <1>1, <1>5, <2>1 DEF Close, Typed
  <2>2. CASE files[f] # None
    <3>1. PICK c \in DOMAIN conns : c = files[f]
      BY <1>4, <2>2
    <3> DEFINE r == [conns[c] EXCEPT !.state = "closed", !.unread = 0]
    <3>2. conns[c] \in ConnRec /\ conns[c].unread <= conns[c].sent
      BY <1>1, Domains DEF Typed
    <3>3. 0 \in 0 .. Parts
      BY ConstFacts
    <3>4. /\ r \in ConnRec /\ r.sent = conns[c].sent /\ r.unread = 0
          /\ r.server = conns[c].server /\ r.state = "closed"
      BY <3>2, <3>3 DEF ConnRec
    <3>5. conns' = [conns EXCEPT ![c] = r]
      BY <2>2, <3>1 DEF Close
    <3> HIDE DEF r
    <3>6. r.unread <= r.sent
      BY <3>2, <3>4, ConstFacts DEF ConnRec
    <3>7. /\ conns' \in Seq(ConnRec) /\ Len(conns') = Len(conns)
          /\ DOMAIN conns' = DOMAIN conns /\ Len(conns') <= MaxConns
          /\ \A d \in DOMAIN conns' : conns'[d].unread <= conns'[d].sent
          /\ \A d \in DOMAIN conns : conns'[d] = IF d = c THEN r ELSE conns[d]
      BY <1>1, <3>4, <3>5, <3>6, ConnChanged
    <3> QED
      BY <3>1, <3>4, <3>7
  <2> QED
    BY <2>1, <2>2
<1>7. FilesOpen'
  <2>1. \A g \in Fds : files'[g] # None => files'[g] \in DOMAIN conns' /\ conns'[files'[g]].state = "open"
    BY <1>1, <1>3, <1>6 DEF FilesOpen
  <2>2. \A g, h \in Fds : files'[g] = files'[h] /\ files'[g] # None => g = h
    BY <1>1, <1>3 DEF FilesOpen
  <2> QED
    BY <2>1, <2>2 DEF FilesOpen
<1>8. \A r \in Servers : Backlog(r)' = Backlog(r)
  <2>1. \A d \in DOMAIN conns : (conns'[d].state = "backlog") <=> (conns[d].state = "backlog")
    BY <1>4, <1>5, <1>6
  <2> QED
    BY <1>6, <2>1 DEF Backlog
<1>9. CASE strike = {} /\ files[f] \notin {None, meant}
  <2>1. strike' = {[by |-> s, victim |-> files[f]]}
    BY <1>9 DEF Close
  <2>2. files[f] \in DOMAIN conns /\ files[f] \in Conns /\ conns[files[f]].server # s
    BY <1>1, <1>4, <1>9, Domains
  <2>3. strike' \subseteq [by : Servers, victim : Conns] /\ strike' # {}
    BY <2>1, <2>2
  <2>4. StrikesOthers'
    BY <1>6, <2>1, <2>2 DEF StrikesOthers
  <2> QED
    BY <1>3, <1>6, <1>7, <1>8, <2>3, <2>4
<1>10. CASE ~(strike = {} /\ files[f] \notin {None, meant})
  <2>1. strike' = strike
    BY <1>10 DEF Close
  <2>2. StrikesOthers'
    BY <1>1, <1>6, <2>1 DEF StrikesOthers
  <2>3. strike' \subseteq [by : Servers, victim : Conns]
    BY <1>1, <2>1 DEF Typed
  <2> QED
    BY <1>3, <1>6, <1>7, <1>10, <1>8, <2>1, <2>2, <2>3
<1> QED
  BY <1>9, <1>10

\* The first closing, of CheckSelectRead.
LEMMA CloseSocketKeeps ==
    ASSUME NetInv, NEW s \in Servers, CloseSocket(s), UNCHANGED events
    PROVE  NetInv'
<1> DEFINE f == Fd(s)
           meant == list[s][pos[s]].conn
<1>1. Typed /\ Placed /\ FilesOpen /\ BacklogWaits
  BY DEF NetInv
<1>2. /\ pc[s] = "close" /\ Close(s, f, meant) /\ pc' = [pc EXCEPT ![s] = "closecb"]
      /\ UNCHANGED <<list, ready, pos, got, mixed>>
  BY DEF CloseSocket, Goto
<1>3. /\ pos[s] \in DOMAIN list[s] /\ f = list[s][pos[s]].fd /\ f \in Fds /\ meant \in Conns
  BY <1>1, <1>2, AtNodeIs DEF AtNode
<1>4. strike = {} => files[f] = meant
  BY <1>2, <1>3 DEF NetInv, Own, NodesOwn
<1> HIDE DEF f, meant
<1>5. /\ conns' \in Seq(ConnRec) /\ Len(conns') <= MaxConns
      /\ \A d \in DOMAIN conns' : conns'[d].unread <= conns'[d].sent
      /\ DOMAIN conns' = DOMAIN conns
      /\ \A d \in DOMAIN conns :
             /\ conns'[d].server = conns[d].server
             /\ conns'[d].state = IF d = files[f] THEN "closed" ELSE conns[d].state
      /\ files' \in [Fds -> Conns \cup {None}]
      /\ \A g \in Fds : files'[g] = IF g = f THEN None ELSE files[g]
      /\ strike' \subseteq [by : Servers, victim : Conns]
      /\ FilesOpen' /\ StrikesOthers'
      /\ strike' = {} => strike = {} /\ files[f] \in {None, meant}
      /\ \A r \in Servers : Backlog(r)' = Backlog(r)
  BY <1>2, <1>3, <1>4, CloseIs
<1>6. pc' \in [Servers -> Labels] /\ pc'[s] = "closecb" /\ \A r \in Servers \ {s} : pc'[r] = pc[r]
  BY <1>1, <1>2 DEF Typed, Labels
<1>7. Typed'
  BY <1>1, <1>2, <1>5, <1>6 DEF Typed
<1>8. Placed'
  BY <1>1, <1>2, <1>6 DEF Placed, AtNode
<1>9. BacklogWaits'
  <2> SUFFICES ASSUME NEW r \in Servers, pc'[r] = "walk", pos'[r] = 0, None \in ready'[r]
               PROVE  Backlog(r)' # {}
    BY DEF BacklogWaits
  <2>1. r # s /\ pc[r] = "walk" /\ pos[r] = 0 /\ None \in ready[r]
    BY <1>2, <1>6
  <2> QED
    BY <1>1, <1>5, <2>1 DEF BacklogWaits
<1>10. ASSUME strike' = {}
       PROVE  Own'
  <2>1. strike = {} /\ Own
    BY <1>5, <1>10 DEF NetInv
  <2>2. NodesAccepted /\ NodesOwn /\ ClosedOnce /\ NodesDistinct /\ OpenListed /\ GotOwn /\ NoBadNodes /\ ~mixed
    BY <2>1 DEF Own
  <2>3. files[f] = meant /\ meant \in DOMAIN conns
    BY <1>3, <1>4, <2>1, <2>2 DEF NodesAccepted, meant
  <2>4. NodesAccepted'
    BY <1>2, <1>5, <2>2 DEF NodesAccepted
  <2>5. NodesOwn'
    <3> SUFFICES ASSUME NEW r \in Servers, NEW n \in DOMAIN list[r], ~(pc'[r] = "closecb" /\ pos[r] = n)
                 PROVE  files'[list[r][n].fd] = list[r][n].conn
      BY <1>2 DEF NodesOwn
    <3>1. ~(r = s /\ n = pos[s])
      BY <1>6
    <3>2. ~(pc[r] = "closecb" /\ pos[r] = n)
      BY <1>2, <1>6
    <3>3. files[list[r][n].fd] = list[r][n].conn /\ list[r][n].fd \in Fds
      BY <1>1, <2>2, <3>2, Domains DEF NodesOwn
    <3>4. list[r][n].conn # meant
      BY <1>3, <2>2, <3>1 DEF NodesDistinct, meant
    <3> QED
      BY <1>5, <2>3, <3>3, <3>4
  <2>6. ClosedOnce'
    <3> SUFFICES ASSUME NEW r \in Servers, pc'[r] = "closecb"
                 PROVE  /\ conns'[list[r][pos[r]].conn].state = "closed"
                        /\ files'[list[r][pos[r]].fd] # None =>
                               conns'[files'[list[r][pos[r]].fd]].server # r
      BY <1>2 DEF ClosedOnce, Fd
    <3>1. CASE r = s
      BY <1>3, <1>5, <2>3, <3>1 DEF meant, f, Fd
    <3>2. CASE r # s
      <4>1. pc[r] = "closecb"
        BY <1>6, <3>2
      <4>2. pos[r] \in DOMAIN list[r] /\ Fd(r) = list[r][pos[r]].fd /\ Fd(r) \in Fds
        BY <1>1, <4>1, AtNodeIs DEF AtNode
      <4>3. /\ conns[list[r][pos[r]].conn].state = "closed"
            /\ files[Fd(r)] # None => conns[files[Fd(r)]].server # r
        BY <2>2, <4>1 DEF ClosedOnce
      <4>4. list[r][pos[r]].conn \in DOMAIN conns
        BY <2>2, <4>2 DEF NodesAccepted
      <4>5. files[Fd(r)] # None => files[Fd(r)] \in DOMAIN conns
        BY <1>1, <4>2 DEF FilesOpen
      <4>6. files'[Fd(r)] = None \/ files'[Fd(r)] = files[Fd(r)]
        BY <1>5, <4>2
      <4> QED
        BY <1>5, <4>2, <4>3, <4>4, <4>5, <4>6
    <3> QED
      BY <3>1, <3>2
  <2>7. NodesDistinct'
    BY <1>2, <2>2 DEF NodesDistinct
  <2>8. OpenListed'
    BY <1>2, <1>5, <2>2 DEF OpenListed
  <2>9. GotOwn' /\ NoBadNodes' /\ ~mixed'
    BY <1>2, <1>6, <2>2 DEF GotOwn, NoBadNodes
  <2> QED
    BY <2>4, <2>5, <2>6, <2>7, <2>8, <2>9 DEF Own
<1> QED
  BY <1>5, <1>7, <1>8, <1>9, <1>10 DEF NetInv

\* The nodes that are left when one is removed.
LEMMA NodesLeft ==
    ASSUME Typed, NEW s \in Servers, NEW p \in DOMAIN list[s],
           list' = [list EXCEPT ![s] = RemoveAt(@, p)]
    PROVE  /\ list' \in [Servers -> Seq(Node)]
           /\ \A r \in Servers \ {s} : list'[r] = list[r]
           /\ Len(list'[s]) = Len(list[s]) - 1
           /\ \A j \in DOMAIN list'[s] : LET n == IF j < p THEN j ELSE j + 1
                                         IN  n \in DOMAIN list[s] /\ n # p /\ list'[s][j] = list[s][n]
           /\ \A n \in DOMAIN list[s] : n # p => \E j \in DOMAIN list'[s] : list'[s][j] = list[s][n]
<1> DEFINE l == list[s]
           k == RemoveAt(l, p)
<1>1. l \in Seq(Node) /\ Len(l) \in Nat /\ DOMAIN l = 1 .. Len(l) /\ p \in 1 .. Len(l)
  BY Domains
<1>2. /\ k \in Seq(Node) /\ Len(k) = Len(l) - 1
      /\ \A j \in 1 .. Len(l) - 1 : k[j] = IF j < p THEN l[j] ELSE l[j + 1]
  BY <1>1, RemoveAtIs
<1>3. DOMAIN k = 1 .. Len(l) - 1
  BY <1>1, <1>2
<1>4. list' \in [Servers -> Seq(Node)] /\ list'[s] = k /\ \A r \in Servers \ {s} : list'[r] = list[r]
  BY <1>2 DEF Typed
<1> HIDE DEF k
<1>5. \A j \in DOMAIN k : LET n == IF j < p THEN j ELSE j + 1
                          IN  n \in DOMAIN l /\ n # p /\ k[j] = l[n]
  BY <1>1, <1>2, <1>3
<1>6. ASSUME NEW n \in DOMAIN l, n # p
      PROVE  \E j \in DOMAIN k : k[j] = l[n]
  <2>1. CASE n < p
    BY <1>1, <1>2, <1>3, <2>1
  <2>2. CASE n > p
    <3>1. n - 1 \in DOMAIN k /\ k[n - 1] = l[n]
      BY <1>1, <1>2, <1>3, <2>2
    <3> QED
      BY <3>1
  <2> QED
    BY <1>1, <1>6, <2>1, <2>2
<1> QED
  BY <1>2, <1>4, <1>5, <1>6

\* The second closing, of the callback: the node is gone after it.
LEMMA CloseCbKeeps ==
    ASSUME NetInv, NEW s \in Servers, CloseCb(s), UNCHANGED events
    PROVE  NetInv'
<1> DEFINE f == Fd(s)
           meant == list[s][pos[s]].conn
<1>1. Typed /\ Placed /\ FilesOpen /\ BacklogWaits
  BY DEF NetInv
<1>2. /\ pc[s] = "closecb" /\ Close(s, f, meant) /\ pc' = [pc EXCEPT ![s] = "walk"]
      /\ list' = [list EXCEPT ![s] = RemoveAt(@, pos[s])]
      /\ got' = [got EXCEPT ![s] = << >>]
      /\ UNCHANGED <<ready, pos, mixed>>
  BY DEF CloseCb, Goto
<1>3. /\ pos[s] \in DOMAIN list[s] /\ f = list[s][pos[s]].fd /\ f \in Fds /\ meant \in Conns
  BY <1>1, <1>2, AtNodeIs DEF AtNode
<1>4. strike = {} => /\ files[f] # None => conns[files[f]].server # s
                     /\ meant \in DOMAIN conns /\ conns[meant].server = s
                     /\ conns[meant].state = "closed"
  BY <1>2, <1>3 DEF NetInv, Own, ClosedOnce, NodesAccepted
<1> HIDE DEF f, meant
<1>5. /\ conns' \in Seq(ConnRec) /\ Len(conns') <= MaxConns
      /\ \A d \in DOMAIN conns' : conns'[d].unread <= conns'[d].sent
      /\ DOMAIN conns' = DOMAIN conns
      /\ \A d \in DOMAIN conns :
             /\ conns'[d].server = conns[d].server
             /\ conns'[d].state = IF d = files[f] THEN "closed" ELSE conns[d].state
      /\ files' \in [Fds -> Conns \cup {None}]
      /\ \A g \in Fds : files'[g] = IF g = f THEN None ELSE files[g]
      /\ strike' \subseteq [by : Servers, victim : Conns]
      /\ FilesOpen' /\ StrikesOthers'
      /\ strike' = {} => strike = {} /\ files[f] \in {None, meant}
      /\ \A r \in Servers : Backlog(r)' = Backlog(r)
  BY <1>2, <1>3, <1>4, CloseIs
<1>6. pc' \in [Servers -> Labels] /\ pc'[s] = "walk" /\ \A r \in Servers \ {s} : pc'[r] = pc[r]
  BY <1>1, <1>2 DEF Typed, Labels
<1>7. /\ list' \in [Servers -> Seq(Node)]
      /\ \A r \in Servers \ {s} : list'[r] = list[r]
      /\ Len(list'[s]) = Len(list[s]) - 1
      /\ \A j \in DOMAIN list'[s] : LET n == IF j < pos[s] THEN j ELSE j + 1
                                    IN  n \in DOMAIN list[s] /\ n # pos[s] /\ list'[s][j] = list[s][n]
      /\ \A n \in DOMAIN list[s] : n # pos[s] => \E j \in DOMAIN list'[s] : list'[s][j] = list[s][n]
  BY <1>1, <1>2, <1>3, NodesLeft
<1>8. got' \in [Servers -> Seq(Conns)] /\ \A r \in Servers \ {s} : got'[r] = got[r]
  BY <1>1, <1>2 DEF Typed
<1>9. Typed'
  BY <1>1, <1>2, <1>5, <1>6, <1>7, <1>8 DEF Typed
<1>10. pos[s] \in Nat /\ pos[s] >= 1 /\ pos[s] <= Len(list[s]) /\ Len(list[s]) \in Nat
  BY <1>1, <1>3, Domains
<1>11. Placed'
  BY <1>1, <1>2, <1>6, <1>7, <1>10 DEF Placed, AtNode
<1>12. BacklogWaits'
  <2> SUFFICES ASSUME NEW r \in Servers, pc'[r] = "walk", pos'[r] = 0, None \in ready'[r]
               PROVE  Backlog(r)' # {}
    BY DEF BacklogWaits
  <2>1. r # s /\ pc[r] = "walk" /\ pos[r] = 0 /\ None \in ready[r]
    BY <1>2, <1>6, <1>10
  <2> QED
    BY <1>1, <1>5, <2>1 DEF BacklogWaits
<1>13. ASSUME strike' = {}
       PROVE  Own'
  <2>1. strike = {} /\ Own
    BY <1>5, <1>13 DEF NetInv
  <2>2. NodesAccepted /\ NodesOwn /\ ClosedOnce /\ NodesDistinct /\ OpenListed /\ GotOwn /\ NoBadNodes /\ ~mixed
    BY <2>1 DEF Own
  <2>3. files[f] = None
    BY <1>4, <1>5, <1>13, <2>1
  <2>4. \A d \in DOMAIN conns : conns'[d].state = conns[d].state
    <3>1. None \notin DOMAIN conns
      BY <1>1, Domains, ConstFacts
    <3> QED
      BY <1>5, <2>3, <3>1
  <2>5. \A g \in Fds : files'[g] = files[g]
    BY <1>5, <2>3
  <2>6. \A r \in Servers : \A j \in DOMAIN list'[r] : \E n \in DOMAIN list[r] :
            /\ list'[r][j] = list[r][n] /\ ~(r = s /\ n = pos[s])
            /\ n = IF r = s /\ j >= pos[s] THEN j + 1 ELSE j
    <3> TAKE r \in Servers
    <3> TAKE j \in DOMAIN list'[r]
    <3>1. CASE r = s
      <4>1. j \in Nat
        BY <1>7
      <4> QED
        BY <1>7, <1>10, <3>1, <4>1
    <3>2. CASE r # s
      BY <1>7, <3>2
    <3> QED
      BY <3>1, <3>2
  <2>7. NodesAccepted'
    BY <1>5, <2>2, <2>4, <2>6 DEF NodesAccepted
  <2>8. NodesOwn'
    <3> SUFFICES ASSUME NEW r \in Servers, NEW j \in DOMAIN list'[r],
                        ~(pc'[r] = "closecb" /\ pos[r] = j)
                 PROVE  files'[list'[r][j].fd] = list'[r][j].conn
      BY <1>2 DEF NodesOwn
    <3>1. PICK n \in DOMAIN list[r] : /\ list'[r][j] = list[r][n] /\ ~(r = s /\ n = pos[s])
                                      /\ n = IF r = s /\ j >= pos[s] THEN j + 1 ELSE j
      BY <2>6
    <3>2. ~(pc[r] = "closecb" /\ pos[r] = n)
      BY <1>6, <3>1
    <3>3. files[list[r][n].fd] = list[r][n].conn /\ list[r][n].fd \in Fds
      BY <1>1, <2>2, <3>2, Domains DEF NodesOwn
    <3> QED
      BY <2>5, <3>1, <3>3
  <2>9. ClosedOnce'
    <3> SUFFICES ASSUME NEW r \in Servers, pc'[r] = "closecb"
                 PROVE  /\ conns'[list'[r][pos[r]].conn].state = "closed"
                        /\ files'[list'[r][pos[r]].fd] # None =>
                               conns'[files'[list'[r][pos[r]].fd]].server # r
      BY <1>2 DEF ClosedOnce, Fd
    <3>1. r # s /\ pc[r] = "closecb" /\ list'[r] = list[r]
      BY <1>6, <1>7
    <3>2. pos[r] \in DOMAIN list[r] /\ Fd(r) = list[r][pos[r]].fd /\ Fd(r) \in Fds
      BY <1>1, <3>1, AtNodeIs DEF AtNode
    <3>3. /\ conns[list[r][pos[r]].conn].state = "closed"
          /\ files[Fd(r)] # None => conns[files[Fd(r)]].server # r
      BY <2>2, <3>1 DEF ClosedOnce
    <3>4. list[r][pos[r]].conn \in DOMAIN conns
      BY <2>2, <3>2 DEF NodesAccepted
    <3>5. files[Fd(r)] # None => files[Fd(r)] \in DOMAIN conns
      BY <1>1, <3>2 DEF FilesOpen
    <3> QED
      BY <1>5, <2>4, <2>5, <3>1, <3>2, <3>3, <3>4, <3>5
  <2>10. NodesDistinct'
    <3> SUFFICES ASSUME NEW r \in Servers, NEW q \in Servers,
                        NEW j \in DOMAIN list'[r], NEW i \in DOMAIN list'[q],
                        list'[r][j].conn = list'[q][i].conn
                 PROVE  r = q /\ j = i
      BY DEF NodesDistinct
    <3>1. PICK n \in DOMAIN list[r] : /\ list'[r][j] = list[r][n] /\ ~(r = s /\ n = pos[s])
                                      /\ n = IF r = s /\ j >= pos[s] THEN j + 1 ELSE j
      BY <2>6
    <3>2. PICK m \in DOMAIN list[q] : /\ list'[q][i] = list[q][m] /\ ~(q = s /\ m = pos[s])
                                      /\ m = IF q = s /\ i >= pos[s] THEN i + 1 ELSE i
      BY <2>6
    <3>3. r = q /\ n = m
      BY <2>2, <3>1, <3>2 DEF NodesDistinct
    <3>4. j \in Nat /\ i \in Nat
      BY <1>7, <3>3
    <3> QED
      BY <1>10, <3>1, <3>2, <3>3, <3>4
  <2>11. OpenListed'
    <3> SUFFICES ASSUME NEW c \in DOMAIN conns, conns[c].state = "open"
                 PROVE  \E r \in Servers : \E j \in DOMAIN list'[r] : list'[r][j].conn = c
      BY <1>5, <2>4 DEF OpenListed
    <3>1. PICK r \in Servers : \E n \in DOMAIN list[r] : list[r][n].conn = c
      BY <2>2 DEF OpenListed
    <3>2. PICK n \in DOMAIN list[r] : list[r][n].conn = c
      BY <3>1
    <3>3. ~(r = s /\ n = pos[s])
      BY <1>4, <2>1, <3>2 DEF meant
    <3>4. \E j \in DOMAIN list'[r] : list'[r][j] = list[r][n]
      BY <1>7, <3>3
    <3> QED
      BY <3>2, <3>4
  <2>12. GotOwn' /\ NoBadNodes' /\ ~mixed'
    BY <1>2, <1>6, <1>7, <1>8, <2>2 DEF GotOwn, NoBadNodes
  <2> QED
    BY <2>7, <2>8, <2>9, <2>10, <2>11, <2>12 DEF Own
<1> QED
  BY <1>5, <1>9, <1>11, <1>12, <1>13 DEF NetInv

\* The closings of a socket that select complained of come after a first hit.
LEMMA BadKeeps ==
    ASSUME NetInv, NEW s \in Servers, BadCloseCb(s) \/ BadClose(s), UNCHANGED events
    PROVE  NetInv'
<1> DEFINE f == Fd(s)
           meant == list[s][pos[s]].conn
<1>1. Typed /\ Placed /\ BacklogWaits
  BY DEF NetInv
<1>2. /\ pc[s] \in {"badcb", "badclose"} /\ Close(s, f, meant)
      /\ UNCHANGED <<ready, got, mixed>>
  BY DEF BadCloseCb, BadClose
<1>3. pos[s] \in DOMAIN list[s] /\ f \in Fds /\ meant \in Conns
  BY <1>1, <1>2, AtNodeIs DEF AtNode
<1>4. strike # {}
  BY <1>2 DEF NetInv, Own, NoBadNodes
<1> HIDE DEF f, meant
<1>5. /\ conns' \in Seq(ConnRec) /\ Len(conns') <= MaxConns
      /\ \A d \in DOMAIN conns' : conns'[d].unread <= conns'[d].sent
      /\ DOMAIN conns' = DOMAIN conns
      /\ files' \in [Fds -> Conns \cup {None}]
      /\ strike' \subseteq [by : Servers, victim : Conns]
      /\ FilesOpen' /\ StrikesOthers'
      /\ strike' = {} => strike = {}
      /\ \A r \in Servers : Backlog(r)' = Backlog(r)
  BY <1>2, <1>3, <1>4, CloseIs
<1>6. pos[s] \in Nat /\ pos[s] >= 1 /\ pos[s] <= Len(list[s]) /\ Len(list[s]) \in Nat
  BY <1>1, <1>3, Domains
<1>7. CASE BadCloseCb(s)
  <2>1. pc' = [pc EXCEPT ![s] = "badclose"] /\ UNCHANGED <<list, pos>>
    BY <1>7 DEF BadCloseCb, Goto
  <2>2. pc' \in [Servers -> Labels] /\ pc'[s] = "badclose" /\ \A r \in Servers \ {s} : pc'[r] = pc[r]
    BY <1>1, <2>1 DEF Typed, Labels
  <2>3. Typed'
    BY <1>1, <1>2, <1>5, <2>1, <2>2 DEF Typed
  <2>4. Placed'
    BY <1>1, <1>6, <2>1, <2>2 DEF Placed
  <2>5. BacklogWaits'
    <3> SUFFICES ASSUME NEW r \in Servers, pc'[r] = "walk", pos'[r] = 0, None \in ready'[r]
                 PROVE  Backlog(r)' # {}
      BY DEF BacklogWaits
    <3>1. r # s /\ pc[r] = "walk" /\ pos[r] = 0 /\ None \in ready[r]
      BY <1>2, <2>1, <2>2
    <3> QED
      BY <1>1, <1>5, <3>1 DEF BacklogWaits
  <2> QED
    BY <1>4, <1>5, <2>3, <2>4, <2>5 DEF NetInv
<1>8. CASE BadClose(s)
  <2>1. /\ pc' = [pc EXCEPT ![s] = "select"] /\ pos' = [pos EXCEPT ![s] = 0]
        /\ list' = [list EXCEPT ![s] = RemoveAt(@, pos[s])]
    BY <1>8 DEF BadClose, Goto
  <2>2. /\ pc' \in [Servers -> Labels] /\ pos' \in [Servers -> Nat]
        /\ pc'[s] = "select" /\ pos'[s] = 0
        /\ \A r \in Servers \ {s} : pc'[r] = pc[r] /\ pos'[r] = pos[r]
    BY <1>1, <2>1 DEF Typed, Labels
  <2>3. /\ list' \in [Servers -> Seq(Node)]
        /\ \A r \in Servers \ {s} : list'[r] = list[r]
        /\ Len(list'[s]) = Len(list[s]) - 1
    BY <1>1, <1>3, <2>1, NodesLeft
  <2>4. Typed'
    BY <1>1, <1>2, <1>5, <2>2, <2>3 DEF Typed
  <2>5. Placed'
    <3> SUFFICES ASSUME NEW r \in Servers
                 PROVE  /\ pos'[r] <= Len(list'[r]) + 1
                        /\ pc'[r] \in AtNode => pos'[r] >= 1 /\ pos'[r] <= Len(list'[r])
      BY DEF Placed
    <3>1. CASE r = s
      <4>1. pos'[r] = 0 /\ Len(list'[r]) \in Nat
        BY <1>6, <2>2, <2>3, <3>1
      <4>2. pc'[r] \notin AtNode
        BY <2>2, <3>1 DEF AtNode
      <4> QED
        BY <4>1, <4>2
    <3>2. CASE r # s
      <4>1. pos'[r] = pos[r] /\ pc'[r] = pc[r] /\ list'[r] = list[r]
        BY <2>2, <2>3, <3>2
      <4> QED
        BY <1>1, <4>1 DEF Placed
    <3> QED
      BY <3>1, <3>2
  <2>6. BacklogWaits'
    <3> SUFFICES ASSUME NEW r \in Servers, pc'[r] = "walk", pos'[r] = 0, None \in ready'[r]
                 PROVE  Backlog(r)' # {}
      BY DEF BacklogWaits
    <3>1. r # s /\ pc[r] = "walk" /\ pos[r] = 0 /\ None \in ready[r]
      BY <1>2, <2>2
    <3> QED
      BY <1>1, <1>5, <3>1 DEF BacklogWaits
  <2> QED
    BY <1>4, <1>5, <2>4, <2>5, <2>6 DEF NetInv
<1> QED
  BY <1>7, <1>8
-----------------------------------------------------------------------------
(***************************************************************************)
(* Accepting.                                                              *)
(***************************************************************************)

\* What accept does when there is a connection and a descriptor for it.
LEMMA AcceptIs ==
    ASSUME NetInv, NEW s \in Servers, Accept(s),
           None \in ready[s], \E f \in Fds : files[f] = None
    PROVE  \E f \in Fds, c \in Backlog(s), node \in Node :
              /\ files[f] = None /\ node.fd = f /\ node.conn = c
              /\ files' = [files EXCEPT ![f] = c]
              /\ conns' = [conns EXCEPT ![c].state = "open"]
              /\ list' = [list EXCEPT ![s] = Append(@, node)]
<1> DEFINE free == {f \in Fds : files[f] = None}
<1>1. Typed /\ BacklogWaits /\ pc[s] = "walk" /\ pos[s] = 0
  BY DEF NetInv, Accept
<1>2. free # {} /\ free \subseteq Nat
  BY ConstFacts
<1>3. Min(free) \in free
  BY <1>2, MinIs
<1>4. Backlog(s) # {} /\ Backlog(s) \subseteq DOMAIN conns
  BY <1>1 DEF BacklogWaits, Backlog
<1>5. Backlog(s) \subseteq Nat /\ Backlog(s) \subseteq Conns
  BY <1>1, <1>4, Domains
<1>6. Min(Backlog(s)) \in Backlog(s)
  BY <1>4, <1>5, MinIs
<1>7. /\ files' = [files EXCEPT ![Min(free)] = Min(Backlog(s))]
      /\ conns' = [conns EXCEPT ![Min(Backlog(s))].state = "open"]
      /\ list' = [list EXCEPT ![s] = Append(@, [fd |-> Min(free), conn |-> Min(Backlog(s))])]
  BY <1>2 DEF Accept
<1>8. PICK f \in Fds : f = Min(free) /\ files[f] = None
  BY <1>3
<1>9. PICK c \in Backlog(s) : c = Min(Backlog(s))
  BY <1>6
<1> DEFINE node == [fd |-> f, conn |-> c]
<1>10. node \in Node /\ node.fd = f /\ node.conn = c
  BY <1>5 DEF Node
<1>11. /\ files' = [files EXCEPT ![f] = c]
       /\ conns' = [conns EXCEPT ![c].state = "open"]
       /\ list' = [list EXCEPT ![s] = Append(@, node)]
  BY <1>7, <1>8, <1>9
<1> HIDE DEF node
<1> QED
  BY <1>8, <1>10, <1>11

LEMMA AcceptKeeps ==
    ASSUME NetInv, NEW s \in Servers, Accept(s), UNCHANGED events
    PROVE  NetInv'
<1>1. Typed /\ Placed /\ FilesOpen /\ BacklogWaits /\ StrikesOthers
  BY DEF NetInv
<1>2. /\ pc[s] = "walk" /\ pos[s] = 0 /\ pos' = [pos EXCEPT ![s] = 1]
      /\ UNCHANGED <<pc, ready, got, mixed, strike>>
  BY DEF Accept
<1>3. pos' \in [Servers -> Nat] /\ pos'[s] = 1 /\ \A r \in Servers \ {s} : pos'[r] = pos[r]
  BY <1>1, <1>2 DEF Typed
<1>4. Len(list[s]) \in Nat /\ DOMAIN list[s] = 1 .. Len(list[s])
  BY <1>1, Domains
<1>5. CASE None \notin ready[s] \/ ~(\E f \in Fds : files[f] = None)
  <2>1. UNCHANGED <<conns, files, list>>
    BY <1>5 DEF Accept
  <2>2. Typed'
    BY <1>1, <1>2, <1>3, <2>1 DEF Typed
  <2>3. strike = {} => ~mixed
    BY DEF NetInv, Own
  <2>4. ConnsKept
    BY <2>1, SameConns
  <2>5. pos'[s] <= Len(list[s]) + 1
    BY <1>3, <1>4
  <2> QED
    BY <1>2, <1>3, <2>1, <2>2, <2>3, <2>4, <2>5, LocalKeeps DEF AtNode
<1>6. CASE None \in ready[s] /\ \E f \in Fds : files[f] = None
  <2>1. PICK f \in Fds, c \in Backlog(s), node \in Node :
              /\ files[f] = None /\ node.fd = f /\ node.conn = c
              /\ files' = [files EXCEPT ![f] = c]
              /\ conns' = [conns EXCEPT ![c].state = "open"]
              /\ list' = [list EXCEPT ![s] = Append(@, node)]
    BY <1>6, AcceptIs
  <2>2. /\ c \in DOMAIN conns /\ conns[c].server = s /\ conns[c].state = "backlog" /\ c \in Conns
        /\ conns[c] \in ConnRec /\ conns[c].unread <= conns[c].sent
    BY <1>1, Domains DEF Backlog, Typed
  <2>3. /\ conns' \in Seq(ConnRec) /\ Len(conns') <= MaxConns /\ DOMAIN conns' = DOMAIN conns
        /\ \A d \in DOMAIN conns' : conns'[d].unread <= conns'[d].sent
        /\ \A d \in DOMAIN conns : /\ conns'[d].server = conns[d].server
                                  /\ conns'[d].state = IF d = c THEN "open" ELSE conns[d].state
    <3> DEFINE r == [conns[c] EXCEPT !.state = "open"]
    <3>1. /\ r \in ConnRec /\ r.sent = conns[c].sent /\ r.unread = conns[c].unread
          /\ r.server = conns[c].server /\ r.state = "open"
      BY <2>2 DEF ConnRec
    <3>2. conns' = [conns EXCEPT ![c] = r]
      BY <2>1
    <3> HIDE DEF r
    <3>3. /\ conns' \in Seq(ConnRec) /\ Len(conns') <= MaxConns /\ DOMAIN conns' = DOMAIN conns
          /\ \A d \in DOMAIN conns' : conns'[d].unread <= conns'[d].sent
          /\ \A d \in DOMAIN conns : conns'[d] = IF d = c THEN r ELSE conns[d]
      BY <1>1, <2>2, <3>1, <3>2, ConnChanged
    <3> QED
      BY <3>1, <3>3
  <2>4. /\ files' \in [Fds -> Conns \cup {None}]
        /\ \A g \in Fds : files'[g] = IF g = f THEN c ELSE files[g]
    BY <1>1, <2>1, <2>2 DEF Typed
  <2>5. /\ list' \in [Servers -> Seq(Node)]
        /\ \A r \in Servers \ {s} : list'[r] = list[r]
        /\ DOMAIN list'[s] = 1 .. Len(list[s]) + 1 /\ Len(list'[s]) = Len(list[s]) + 1
        /\ \A n \in DOMAIN list[s] : list'[s][n] = list[s][n]
        /\ list'[s][Len(list[s]) + 1] = node
    <3>1. list[s] \in Seq(Node)
      BY <1>1 DEF Typed
    <3>2. /\ Append(list[s], node) \in Seq(Node)
          /\ Len(Append(list[s], node)) = Len(list[s]) + 1
          /\ \A n \in 1 .. Len(list[s]) : Append(list[s], node)[n] = list[s][n]
          /\ Append(list[s], node)[Len(list[s]) + 1] = node
      BY <2>1, <3>1, AppendProperties
    <3>3. /\ list' \in [Servers -> Seq(Node)] /\ list'[s] = Append(list[s], node)
          /\ \A r \in Servers \ {s} : list'[r] = list[r]
      BY <1>1, <2>1, <3>2 DEF Typed
    <3>4. DOMAIN list'[s] = 1 .. Len(list[s]) + 1
      BY <1>4, <3>2, <3>3
    <3> QED
      BY <1>4, <3>2, <3>3, <3>4
  <2>6. Typed'
    BY <1>1, <1>2, <1>3, <2>3, <2>4, <2>5 DEF Typed
  <2>7. Placed'
    BY <1>1, <1>2, <1>3, <1>4, <2>5 DEF Placed, AtNode
  <2>8. FilesOpen'
    <3>1. \A g \in Fds : files[g] # c
      BY <1>1, <2>2, ConstFacts DEF FilesOpen
    <3>2. c # None
      BY <2>2, ConstFacts
    <3> QED
      BY <1>1, <2>2, <2>3, <2>4, <3>1, <3>2 DEF FilesOpen
  <2>9. BacklogWaits'
    <3> SUFFICES ASSUME NEW r \in Servers, pc'[r] = "walk", pos'[r] = 0, None \in ready'[r]
                 PROVE  Backlog(r)' # {}
      BY DEF BacklogWaits
    <3>1. r # s /\ pc[r] = "walk" /\ pos[r] = 0 /\ None \in ready[r]
      BY <1>2, <1>3
    <3>2. PICK d \in DOMAIN conns : conns[d].server = r /\ conns[d].state = "backlog"
      BY <1>1, <3>1 DEF BacklogWaits, Backlog
    <3>3. d # c
      BY <2>2, <3>1, <3>2
    <3> QED
      BY <2>3, <3>2, <3>3 DEF Backlog
  <2>10. StrikesOthers'
    BY <1>1, <1>2, <2>3 DEF StrikesOthers
  <2>11. ASSUME strike = {}
         PROVE  Own'
    <3>1. NodesAccepted /\ NodesOwn /\ ClosedOnce /\ NodesDistinct /\ OpenListed /\ GotOwn /\ NoBadNodes /\ ~mixed
      BY <2>11 DEF NetInv, Own
    <3>2. \A r \in Servers : \A n \in DOMAIN list'[r] :
              \/ n \in DOMAIN list[r] /\ list'[r][n] = list[r][n]
              \/ r = s /\ n = Len(list[s]) + 1 /\ list'[r][n] = node
      BY <1>4, <2>5
    <3>3. \A r \in Servers : \A n \in DOMAIN list[r] : list[r][n].conn # c /\ list[r][n].conn # None
      BY <1>1, <2>2, <3>1, Domains, ConstFacts DEF NodesAccepted
    <3>4. NodesAccepted'
      BY <2>1, <2>2, <2>3, <3>1, <3>2 DEF NodesAccepted
    <3>5. NodesOwn'
      <4> SUFFICES ASSUME NEW r \in Servers, NEW n \in DOMAIN list'[r],
                          ~(pc'[r] = "closecb" /\ pos'[r] = n)
                   PROVE  files'[list'[r][n].fd] = list'[r][n].conn
        BY DEF NodesOwn
      <4>1. CASE n \in DOMAIN list[r] /\ list'[r][n] = list[r][n]
        <5>1. ~(pc[r] = "closecb" /\ pos[r] = n)
          BY <1>2, <1>3
        <5>2. files[list[r][n].fd] = list[r][n].conn /\ list[r][n].fd \in Fds
          BY <1>1, <3>1, <4>1, <5>1, Domains DEF NodesOwn
        <5> QED
          BY <2>1, <2>4, <3>3, <4>1, <5>2
      <4>2. CASE list'[r][n] = node
        BY <2>1, <2>4, <4>2
      <4> QED
        BY <3>2, <4>1, <4>2
    <3>6. ClosedOnce'
      <4> SUFFICES ASSUME NEW r \in Servers, pc'[r] = "closecb"
                   PROVE  /\ conns'[list'[r][pos'[r]].conn].state = "closed"
                          /\ files'[list'[r][pos'[r]].fd] # None =>
                                 conns'[files'[list'[r][pos'[r]].fd]].server # r
        BY DEF ClosedOnce, Fd
      <4>1. r # s /\ pc[r] = "closecb" /\ list'[r] = list[r] /\ pos'[r] = pos[r]
        BY <1>2, <1>3, <2>5
      <4>2. pos[r] \in DOMAIN list[r] /\ Fd(r) = list[r][pos[r]].fd /\ Fd(r) \in Fds
        BY <1>1, <4>1, AtNodeIs DEF AtNode
      <4>3. /\ conns[list[r][pos[r]].conn].state = "closed"
            /\ files[Fd(r)] # None => conns[files[Fd(r)]].server # r
        BY <3>1, <4>1 DEF ClosedOnce
      <4>4. list[r][pos[r]].conn \in DOMAIN conns /\ list[r][pos[r]].conn # c
        BY <3>1, <3>3, <4>2 DEF NodesAccepted
      <4>5. files[Fd(r)] # None => files[Fd(r)] \in DOMAIN conns
        BY <1>1, <4>2 DEF FilesOpen
      <4>6. files'[Fd(r)] = c \/ files'[Fd(r)] = files[Fd(r)]
        BY <2>4, <4>2
      <4> QED
        BY <2>2, <2>3, <4>1, <4>2, <4>3, <4>4, <4>5, <4>6
    <3>7. NodesDistinct'
      BY <2>1, <3>1, <3>2, <3>3 DEF NodesDistinct
    <3>8. OpenListed'
      <4> SUFFICES ASSUME NEW d \in DOMAIN conns, conns'[d].state = "open"
                   PROVE  \E r \in Servers : \E n \in DOMAIN list'[r] : list'[r][n].conn = d
        BY <2>3 DEF OpenListed
      <4>1. CASE d = c
        <5>1. Len(list[s]) + 1 \in DOMAIN list'[s]
          BY <1>4, <2>5
        <5> QED
          BY <2>1, <2>5, <4>1, <5>1
      <4>2. CASE d # c
        <5>1. conns[d].state = "open"
          BY <2>3, <4>2
        <5>2. PICK r \in Servers : \E n \in DOMAIN list[r] : list[r][n].conn = d
          BY <3>1, <5>1 DEF OpenListed
        <5>3. PICK n \in DOMAIN list[r] : list[r][n].conn = d
          BY <5>2
        <5>4. n \in DOMAIN list'[r] /\ list'[r][n] = list[r][n]
          <6>1. CASE r = s
            <7>1. n \in 1 .. Len(list[s]) + 1
              BY <1>4, <6>1
            <7> QED
              BY <2>5, <6>1, <7>1
          <6>2. CASE r # s
            BY <2>5, <6>2
          <6> QED
            BY <6>1, <6>2
        <5> QED
          BY <5>3, <5>4
      <4> QED
        BY <4>1, <4>2
    <3>9. GotOwn'
      <4> SUFFICES ASSUME NEW r \in Servers
                   PROVE  /\ pc'[r] \in {"recv", "readcb"} =>
                                \A k \in DOMAIN got'[r] : got'[r][k] = list'[r][pos'[r]].conn
                          /\ pc'[r] = "readcb" => got'[r] # << >>
        BY DEF GotOwn
      <4>1. CASE r = s
        BY <1>2, <4>1
      <4>2. CASE r # s
        BY <1>2, <1>3, <2>5, <3>1, <4>2 DEF GotOwn
      <4> QED
        BY <4>1, <4>2
    <3>10. NoBadNodes' /\ ~mixed'
      BY <1>2, <3>1 DEF NoBadNodes
    <3> QED
      BY <3>4, <3>5, <3>6, <3>7, <3>8, <3>9, <3>10 DEF Own
  <2> QED
    BY <1>2, <2>6, <2>7, <2>8, <2>9, <2>10, <2>11 DEF NetInv
<1> QED
  BY <1>5, <1>6
-----------------------------------------------------------------------------
LEMMA NetInvInit == Init => NetInv
<1> SUFFICES ASSUME Init
             PROVE  NetInv
  OBVIOUS
<1>1. MaxConns \in Nat /\ MaxEvents \in Nat
  BY ConstFacts
<1>2. Typed
  <2>1. /\ conns \in Seq(ConnRec) /\ Len(conns) <= MaxConns /\ DOMAIN conns = {}
        /\ events \in 0 .. MaxEvents
    BY <1>1 DEF Init
  <2>2. list \in [Servers -> Seq(Node)] /\ got \in [Servers -> Seq(Conns)]
    BY DEF Init
  <2>3. /\ files \in [Fds -> Conns \cup {None}] /\ pc \in [Servers -> Labels]
        /\ ready \in [Servers -> SUBSET (Fds \cup {None})] /\ pos \in [Servers -> Nat]
    BY DEF Init, Labels
  <2>4. mixed \in BOOLEAN /\ strike \subseteq [by : Servers, victim : Conns]
    BY DEF Init
  <2> QED
    BY <2>1, <2>2, <2>3, <2>4 DEF Typed
<1>3. Placed /\ FilesOpen /\ BacklogWaits /\ StrikesOthers
  BY DEF Init, Placed, FilesOpen, BacklogWaits, StrikesOthers, AtNode
<1>4. NodesAccepted /\ NodesOwn /\ ClosedOnce /\ NodesDistinct
  BY DEF Init, NodesAccepted, NodesOwn, ClosedOnce, NodesDistinct
<1>5. OpenListed /\ GotOwn /\ NoBadNodes /\ ~mixed
  BY DEF Init, OpenListed, GotOwn, NoBadNodes
<1> QED
  BY <1>2, <1>3, <1>4, <1>5 DEF NetInv, Own

LEMMA NetInvStep == NetInv /\ [Next]_vars => NetInv'
<1> SUFFICES ASSUME NetInv, [Next]_vars
             PROVE  NetInv'
  OBVIOUS
<1>1. ASSUME NEW s \in Servers, NetServerThead(s), UNCHANGED events
      PROVE  NetInv'
  <2>1. CASE Select(s)
    BY <1>1, <2>1, SelectKeeps
  <2>2. CASE SelectError(s) \/ Fstat(s)
    BY <1>1, <2>2, ErrorKeeps
  <2>3. CASE BadCloseCb(s) \/ BadClose(s)
    BY <1>1, <2>3, BadKeeps
  <2>4. CASE Accept(s)
    BY <1>1, <2>4, AcceptKeeps
  <2>5. CASE Visit(s) \/ Wait(s)
    BY <1>1, <2>5, WalkKeeps
  <2>6. CASE Recv(s)
    BY <1>1, <2>6, RecvKeeps
  <2>7. CASE RecvError(s)
    BY <1>1, <2>7, RecvErrorKeeps
  <2>8. CASE ReadCb(s)
    BY <1>1, <2>8, ReadCbKeeps
  <2>9. CASE CloseSocket(s)
    BY <1>1, <2>9, CloseSocketKeeps
  <2>10. CASE CloseCb(s)
    BY <1>1, <2>10, CloseCbKeeps
  <2> QED
    BY <1>1, <2>1, <2>2, <2>3, <2>4, <2>5, <2>6, <2>7, <2>8, <2>9, <2>10 DEF NetServerThead
<1>2. CASE Clients
  BY <1>2, ClientsKeep
<1>3. CASE UNCHANGED vars
  <2>1. Typed' /\ Placed' /\ FilesOpen' /\ StrikesOthers'
    BY <1>3 DEF vars, NetInv, Typed, Placed, FilesOpen, StrikesOthers
  <2>2. BacklogWaits'
    BY <1>3 DEF vars, NetInv, BacklogWaits, Backlog
  <2>3. strike' = {} => Own'
    BY <1>3 DEF vars, NetInv, Own, NodesAccepted, NodesOwn, ClosedOnce, NodesDistinct,
                OpenListed, GotOwn, NoBadNodes, Fd
  <2> QED
    BY <2>1, <2>2, <2>3 DEF NetInv
<1> QED
  BY <1>1, <1>2, <1>3 DEF Next

(***************************************************************************)
(* What every server has in its list, and what is behind the descriptors,  *)
(* until the first closing that hits another connection, and what stays    *)
(* true after it (accept, recv and close of NetServerThead).               *)
(***************************************************************************)
THEOREM NetInvHolds == Spec => []NetInv
  BY NetInvInit, NetInvStep, PTL DEF Spec

\* A list without repetitions is not longer than what it may contain.
LEMMA ListFits ==
    ASSUME NetInv, strike = {}, NEW s \in Servers
    PROVE  Len(list[s]) <= MaxConns
<1> DEFINE L == Len(list[s])
           C == Len(conns)
           g == [n \in 1 .. L |-> list[s][n].conn]
<1>1. Typed /\ NodesAccepted /\ NodesDistinct
  BY DEF NetInv, Own
<1>2. L \in Nat /\ C \in Nat /\ DOMAIN list[s] = 1 .. L /\ DOMAIN conns = 1 .. C /\ C <= MaxConns
  BY <1>1, Domains DEF Typed
<1>3. \A n \in 1 .. L : list[s][n].conn \in 1 .. C
  BY <1>1, <1>2 DEF NodesAccepted
<1>4. \A m, n \in 1 .. L : list[s][m].conn = list[s][n].conn => m = n
  BY <1>1, <1>2 DEF NodesDistinct
<1> HIDE DEF L, C
<1>5. g \in Injection(1 .. L, 1 .. C)
  BY <1>3, <1>4 DEF Injection, IsInjective
<1> HIDE DEF g
<1>6. IsFiniteSet(1 .. L) /\ IsFiniteSet(1 .. C)
  BY <1>2, FS_Interval
<1>7. Cardinality(1 .. L) <= Cardinality(1 .. C)
  BY <1>5, <1>6, FS_Injection
<1>8. Cardinality(1 .. L) = L /\ Cardinality(1 .. C) = C
  BY <1>2, FS_Interval
<1> QED
  BY <1>2, <1>7, <1>8, ConstFacts DEF L

(***************************************************************************)
(* Until a second closing has hit a connection of another server, every    *)
(* socket in a list is open and is the connection that was accepted; and   *)
(* the first that is hit is one of another server (CheckSelectRead and the *)
(* callbacks that close, against accept).                                  *)
(***************************************************************************)
THEOREM SocketsAreOwnHolds == Spec => []SocketsAreOwn
<1>1. NetInv => SocketsAreOwn
  <2> SUFFICES ASSUME NetInv
               PROVE  SocketsAreOwn
    OBVIOUS
  <2>1. Typed /\ Placed /\ StrikesOthers
    BY DEF NetInv
  <2>2. TypeOK
    <3>1. \A s \in Servers : ToSet(list[s]) \subseteq Node
      <4> TAKE s \in Servers
      <4>1. list[s] \in Seq(Node)
        BY <2>1 DEF Typed
      <4> QED
        BY <4>1 DEF ToSet
    <3>2. \A s \in Servers : ToSet(got[s]) \subseteq Conns
      <4> TAKE s \in Servers
      <4>1. got[s] \in Seq(Conns)
        BY <2>1 DEF Typed
      <4> QED
        BY <4>1 DEF ToSet
    <3>3. \A s \in Servers : pos[s] \in 0 .. Len(list[s]) + 1
      <4> TAKE s \in Servers
      <4>1. pos[s] \in Nat /\ Len(list[s]) \in Nat /\ pos[s] <= Len(list[s]) + 1
        BY <2>1, Domains DEF Typed, Placed
      <4> QED
        BY <4>1
    <3>4. \A c \in DOMAIN conns : conns[c] \in ConnRec
      BY <2>1, Domains
    <3> QED
      BY <2>1, <3>1, <3>2, <3>3, <3>4 DEF Typed, TypeOK, ConnRec, Labels
  <2>3. \A k \in strike : conns[k.victim].server # k.by
    BY <2>1 DEF StrikesOthers
  <2>4. ASSUME strike = {}
        PROVE  /\ \A s \in Servers : \A n \in DOMAIN list[s] :
                      files[list[s][n].fd] = list[s][n].conn \/ Closing(s, n)
               /\ \A c \in DOMAIN conns :
                      conns[c].state = "open" =>
                          Cardinality({p \in Servers \X (1 .. MaxConns) :
                                         p[2] \in DOMAIN list[p[1]] /\ list[p[1]][p[2]].conn = c}) = 1
    <3>1. NodesOwn /\ NodesDistinct /\ OpenListed
      BY <2>4 DEF NetInv, Own
    <3>2. ASSUME NEW c \in DOMAIN conns, conns[c].state = "open"
          PROVE  Cardinality({p \in Servers \X (1 .. MaxConns) :
                                p[2] \in DOMAIN list[p[1]] /\ list[p[1]][p[2]].conn = c}) = 1
      <4> DEFINE places == {p \in Servers \X (1 .. MaxConns) :
                              p[2] \in DOMAIN list[p[1]] /\ list[p[1]][p[2]].conn = c}
      <4>1. PICK s \in Servers : \E n \in DOMAIN list[s] : list[s][n].conn = c
        BY <3>1, <3>2 DEF OpenListed
      <4>2. PICK n \in DOMAIN list[s] : list[s][n].conn = c
        BY <4>1
      <4>3. n \in 1 .. Len(list[s]) /\ Len(list[s]) <= MaxConns /\ Len(list[s]) \in Nat
        BY <2>1, <2>4, Domains, ListFits
      <4>4. n \in 1 .. MaxConns
        BY <4>3, ConstFacts
      <4>5. <<s, n>> \in places
        BY <4>2, <4>4
      <4>6. \A p \in places : p = <<s, n>>
        <5> TAKE p \in places
        <5>1. /\ p = <<p[1], p[2]>> /\ p[1] \in Servers
              /\ p[2] \in DOMAIN list[p[1]] /\ list[p[1]][p[2]].conn = c
          OBVIOUS
        <5>2. p[1] = s /\ p[2] = n
          BY <3>1, <4>2, <5>1 DEF NodesDistinct
        <5> QED
          BY <5>1, <5>2
      <4>7. places = {<<s, n>>}
        BY <4>5, <4>6
      <4> QED
        BY <4>7, FS_Singleton
    <3>3. \A s \in Servers : \A n \in DOMAIN list[s] :
              files[list[s][n].fd] = list[s][n].conn \/ Closing(s, n)
      BY <3>1 DEF NodesOwn, Closing
    <3> QED
      BY <3>2, <3>3
  <2> QED
    BY <2>2, <2>3, <2>4 DEF SocketsAreOwn
<1> QED
  BY <1>1, NetInvHolds, PTL

(***************************************************************************)
(* Until then a request is made of the parts of one client, who gets the   *)
(* answer (recv into recvmsg, and readcb).                                 *)
(***************************************************************************)
THEOREM AnswersAreOwnHolds == Spec => []AnswersAreOwn
<1>1. NetInv => AnswersAreOwn
  BY DEF NetInv, Own, AnswersAreOwn
<1> QED
  BY <1>1, NetInvHolds, PTL
=============================================================================
