------------------------------- MODULE NetServer -------------------------------
(***************************************************************************)
(* ExtLibs/TSocket/tsocket.c: NetServerThead, the loop of a TCP server.    *)
(* The HTTP server, the web server and the HJ212 server have a thread and  *)
(* a list of sockets each; what they share is the table of file            *)
(* descriptors of the process.  A connection that ends is closed twice, by *)
(* the loop and by the callback of the server, and the number of a closed  *)
(* descriptor is given to whoever asks next.                               *)
(*                                                                         *)
(* Connections are numbered as they come.  What a client sends are parts;  *)
(* a request of the HTTP server has Parts of them, the other servers take  *)
(* what a recv returns for a request.  Urgent data, the errors of malloc   *)
(* and the end of the servers are left out.                                *)
(***************************************************************************)
EXTENDS Integers, Sequences, FiniteSets, SequencesExt, FiniteSetsExt

CONSTANTS
    Servers,     \* the servers
    Http,        \* those of them that wait for the whole request
    Parts,       \* parts of a request
    NumFds,      \* descriptors that the process may have for connections
    MaxConns,    \* bound: connections
    MaxEvents    \* bound: connections, parts and hang-ups

ASSUME NetAssumption ==
    /\ Http \subseteq Servers
    /\ Parts \in Nat \ {0} /\ NumFds \in Nat \ {0} /\ MaxConns \in Nat \ {0}
    /\ MaxEvents \in Nat

Conns == 1 .. MaxConns
Fds == 1 .. NumFds
None == 0

VARIABLES
    conns,       \* the connections so far: server, state, parts sent and not yet read
    files,       \* the connection behind a descriptor
    list,        \* the sockets in the list of a server, and their connection (history)
    pc,          \* what the thread of a server does next
    ready,       \* readfds, as select left it
    pos,         \* node: place in the list, 0 is the main socket
    got,         \* recvmsg: the connections whose parts are in it, in order
    events,      \* connections, parts and hang-ups so far
    mixed,       \* history: a request had parts of others than who was answered
    strike       \* history: the first connection closed by a thread that meant another

vars == <<conns, files, list, pc, ready, pos, got, events, mixed, strike>>

Node == [fd : Fds, conn : Conns]

TypeOK ==
    /\ Len(conns) \leq MaxConns
    /\ \A c \in DOMAIN conns :
           conns[c] \in [server : Servers, state : {"backlog", "open", "closed"},
                         sent : 0 .. Parts, unread : 0 .. Parts, hung : BOOLEAN]
    /\ files \in [Fds -> Conns \cup {None}]
    /\ \A s \in Servers : ToSet(list[s]) \subseteq Node
    /\ pc \in [Servers -> {"select", "walk", "recv", "readcb", "close", "closecb",
                           "fstat", "badcb", "badclose"}]
    /\ ready \in [Servers -> SUBSET (Fds \cup {None})]
    /\ \A s \in Servers : pos[s] \in 0 .. Len(list[s]) + 1
    /\ \A s \in Servers : ToSet(got[s]) \subseteq Conns
    /\ events \in 0 .. MaxEvents
    /\ mixed \in BOOLEAN
    /\ strike \subseteq [by : Servers, victim : Conns]

Init ==
    /\ conns = << >>
    /\ files = [f \in Fds |-> None]
    /\ list = [s \in Servers |-> << >>]
    /\ pc = [s \in Servers |-> "select"]
    /\ ready = [s \in Servers |-> {}]
    /\ pos = [s \in Servers |-> 0]
    /\ got = [s \in Servers |-> << >>]
    /\ events = 0
    /\ mixed = FALSE
    /\ strike = {}
-----------------------------------------------------------------------------
(***************************************************************************)
(* The clients.                                                            *)
(***************************************************************************)
ClientConnects(s) ==
    /\ Len(conns) < MaxConns
    /\ conns' = Append(conns, [server |-> s, state |-> "backlog", sent |-> 0, unread |-> 0,
                               hung |-> FALSE])

ClientSends(c) ==
    /\ conns[c].state # "closed" /\ ~conns[c].hung /\ conns[c].sent < Parts
    /\ conns' = [conns EXCEPT ![c].sent = @ + 1, ![c].unread = @ + 1]

ClientHangsUp(c) ==
    /\ conns[c].state # "closed" /\ ~conns[c].hung
    /\ conns' = [conns EXCEPT ![c].hung = TRUE]

Clients ==
    /\ events < MaxEvents
    /\ events' = events + 1
    /\ \/ \E s \in Servers : ClientConnects(s)
       \/ \E c \in DOMAIN conns : ClientSends(c) \/ ClientHangsUp(c)
    /\ UNCHANGED <<files, list, pc, ready, pos, got, mixed, strike>>
-----------------------------------------------------------------------------
Goto(s, label) == pc' = [pc EXCEPT ![s] = label]
Backlog(s) == {c \in DOMAIN conns : conns[c].server = s /\ conns[c].state = "backlog"}
Readable(c) == conns[c].unread > 0 \/ conns[c].hung
BadNodes(s) == {n \in DOMAIN list[s] : files[list[s][n].fd] = None}
Fd(s) == list[s][pos[s]].fd

\* close(f).  It is whatever connection is behind the descriptor now.
Close(s, f, meant) ==
    /\ files' = [files EXCEPT ![f] = None]
    /\ conns' = IF files[f] = None THEN conns
                ELSE [conns EXCEPT ![files[f]].state = "closed", ![files[f]].unread = 0]
    /\ strike' = IF strike = {} /\ files[f] \notin {None, meant}
                 THEN {[by |-> s, victim |-> files[f]]} ELSE strike

(***************************************************************************)
(* NetServerThead: select, with the descriptors of all sockets.            *)
(***************************************************************************)
Select(s) ==
    /\ pc[s] = "select"
    /\ BadNodes(s) = {}
    /\ LET set == {f \in Fds : \E n \in DOMAIN list[s] :
                                  list[s][n].fd = f /\ Readable(files[f])}
                  \cup (IF Backlog(s) = {} THEN {} ELSE {None})
       IN  set # {} /\ ready' = [ready EXCEPT ![s] = set]
    /\ pos' = [pos EXCEPT ![s] = 0]
    /\ Goto(s, "walk")
    /\ UNCHANGED <<conns, files, list, got, mixed, strike>>

\* A bug: an error of select is only logged.
Mut_SelectError(s) ==
    /\ pc[s] = "select"
    /\ BadNodes(s) # {}
    /\ UNCHANGED <<conns, files, list, pc, ready, pos, got, mixed, strike>>

\* A socket in the list is not open: select returns an error.
SelectError(s) ==
    /\ pc[s] = "select"
    /\ BadNodes(s) # {}
    /\ Goto(s, "fstat")
    /\ UNCHANGED <<conns, files, list, ready, pos, got, mixed, strike>>

\* The first socket that fstat does not know is looked for; there may be none
\* any more.
Fstat(s) ==
    /\ pc[s] = "fstat"
    /\ \/ /\ BadNodes(s) # {}
          /\ pos' = [pos EXCEPT ![s] = Min(BadNodes(s))]
          /\ Goto(s, "badcb")
       \/ /\ BadNodes(s) = {}
          /\ Goto(s, "select")
          /\ UNCHANGED pos
    /\ UNCHANGED <<conns, files, list, ready, got, mixed, strike>>

\* closecb, which closes it.
BadCloseCb(s) ==
    /\ pc[s] = "badcb"
    /\ Close(s, Fd(s), list[s][pos[s]].conn)
    /\ Goto(s, "badclose")
    /\ UNCHANGED <<list, ready, pos, got, mixed>>

\* list_remove, close and free.
BadClose(s) ==
    /\ pc[s] = "badclose"
    /\ Close(s, Fd(s), list[s][pos[s]].conn)
    /\ list' = [list EXCEPT ![s] = RemoveAt(@, pos[s])]
    /\ pos' = [pos EXCEPT ![s] = 0]
    /\ Goto(s, "select")
    /\ UNCHANGED <<ready, got, mixed>>

\* CheckSelectRead for the main socket: accept, which takes the lowest
\* descriptor that is free, or fails.
Accept(s) ==
    /\ pc[s] = "walk" /\ pos[s] = 0
    /\ pos' = [pos EXCEPT ![s] = 1]
    /\ LET free == {f \in Fds : files[f] = None}
       IN  \/ /\ None \in ready[s] /\ free # {}
              /\ \E c \in {Min(Backlog(s))} :
                     /\ files' = [files EXCEPT ![Min(free)] = c]
                     /\ conns' = [conns EXCEPT ![c].state = "open"]
                     /\ list' = [list EXCEPT ![s] = Append(@, [fd |-> Min(free), conn |-> c])]
           \/ /\ None \notin ready[s] \/ free = {}
              /\ UNCHANGED <<conns, files, list>>
    /\ UNCHANGED <<pc, ready, got, mixed, strike>>

\* The sockets from the current one on that select has found ready.
Nodes(s) == {n \in pos[s] .. Len(list[s]) : list[s][n].fd \in ready[s]}

\* A bug: recvmsg is not emptied.
Mut_Visit(s) ==
    /\ pc[s] = "walk" /\ pos[s] > 0 /\ Nodes(s) # {}
    /\ pos' = [pos EXCEPT ![s] = Min(Nodes(s))]
    /\ Goto(s, "recv")
    /\ UNCHANGED <<conns, files, list, ready, got, mixed, strike>>

\* The walk over the other sockets, with an empty recvmsg for each.
Visit(s) ==
    /\ pc[s] = "walk" /\ pos[s] > 0 /\ Nodes(s) # {}
    /\ pos' = [pos EXCEPT ![s] = Min(Nodes(s))]
    /\ got' = [got EXCEPT ![s] = << >>]
    /\ Goto(s, "recv")
    /\ UNCHANGED <<conns, files, list, ready, mixed, strike>>

\* The end of the walk.
Wait(s) ==
    /\ pc[s] = "walk" /\ pos[s] > 0 /\ Nodes(s) = {}
    /\ Goto(s, "select")
    /\ ready' = [ready EXCEPT ![s] = {}]
    /\ pos' = [pos EXCEPT ![s] = 0]
    /\ UNCHANGED <<conns, files, list, got, mixed, strike>>

\* CheckSelectRead for another socket: recv, and checkendcb.
Recv(s) ==
    /\ pc[s] = "recv"
    /\ LET c == files[Fd(s)]
       IN  /\ c # None
           /\ conns[c].unread > 0
           /\ got' = [got EXCEPT ![s] = @ \o [n \in 1 .. conns[c].unread |-> c]]
           /\ conns' = [conns EXCEPT ![c].unread = 0]
    /\ Goto(s, IF s \in Http /\ Len(got'[s]) < Parts THEN "recv" ELSE "readcb")
    /\ UNCHANGED <<files, list, ready, pos, mixed, strike>>

\* The client has closed the connection, the descriptor is not open, or nothing
\* came for more than half a second.
RecvError(s) ==
    /\ pc[s] = "recv"
    /\ LET c == files[Fd(s)]
       IN  c # None => conns[c].unread = 0
    /\ Goto(s, "close")
    /\ UNCHANGED <<conns, files, list, ready, pos, got, mixed, strike>>

\* readcb: the request is worked on, and the answer sent to the socket.
ReadCb(s) ==
    /\ pc[s] = "readcb"
    /\ LET c == files[Fd(s)]
       IN  mixed' = (mixed \/ (c # None /\ ToSet(got[s]) # {c}))
    /\ pos' = [pos EXCEPT ![s] = @ + 1]
    /\ Goto(s, "walk")
    /\ UNCHANGED <<conns, files, list, ready, got, strike>>

\* READ_ERROR: list_remove, close.  (The node is kept here until it is freed.)
CloseSocket(s) ==
    /\ pc[s] = "close"
    /\ Close(s, Fd(s), list[s][pos[s]].conn)
    /\ Goto(s, "closecb")
    /\ UNCHANGED <<list, ready, pos, got, mixed>>

\* A bug: the node stays in the list.
Mut_CloseCb(s) ==
    /\ pc[s] = "closecb"
    /\ Close(s, Fd(s), list[s][pos[s]].conn)
    /\ got' = [got EXCEPT ![s] = << >>]
    /\ pos' = [pos EXCEPT ![s] = @ + 1]
    /\ Goto(s, "walk")
    /\ UNCHANGED <<list, ready, mixed>>

\* HttpClose, WebHttpClose, HJ212Close: the descriptor is closed once more; free.
CloseCb(s) ==
    /\ pc[s] = "closecb"
    /\ Close(s, Fd(s), list[s][pos[s]].conn)
    /\ list' = [list EXCEPT ![s] = RemoveAt(@, pos[s])]
    /\ got' = [got EXCEPT ![s] = << >>]
    /\ Goto(s, "walk")
    /\ UNCHANGED <<ready, pos, mixed>>

NetServerThead(s) ==
    \/ Select(s) \/ SelectError(s) \/ Fstat(s) \/ BadCloseCb(s) \/ BadClose(s)
    \/ Accept(s) \/ Visit(s) \/ Wait(s) \/ Recv(s) \/ RecvError(s) \/ ReadCb(s)
    \/ CloseSocket(s) \/ CloseCb(s)

Next ==
    \/ \E s \in Servers : NetServerThead(s) /\ UNCHANGED events
    \/ Clients

\* The threads are scheduled; clients do as they like.
Spec == Init /\ [][Next]_vars /\ \A s \in Servers : WF_vars(NetServerThead(s) /\ UNCHANGED events)
-----------------------------------------------------------------------------
\* The node is being closed.
Closing(s, n) == pos[s] = n /\ pc[s] \in {"closecb", "badcb", "badclose"}

(***************************************************************************)
(* Until a second closing has hit a connection of another server, every    *)
(* socket in a list is open and is the connection that was accepted, and   *)
(* no connection is in two places.  The first connection that is hit is    *)
(* one of another server: a server alone never meets its own double        *)
(* closing, since it does not accept between the two.  (list_remove, close *)
(* and closecb of CheckSelectRead, against accept in another thread.)      *)
(***************************************************************************)
SocketsAreOwn ==
    /\ TypeOK
    /\ \A k \in strike : conns[k.victim].server # k.by
    /\ strike = {} =>
        /\ \A s \in Servers : \A n \in DOMAIN list[s] :
               files[list[s][n].fd] = list[s][n].conn \/ Closing(s, n)
        /\ \A c \in DOMAIN conns :
               conns[c].state = "open" =>
                   Cardinality({p \in Servers \X (1 .. MaxConns) :
                                  p[2] \in DOMAIN list[p[1]] /\ list[p[1]][p[2]].conn = c}) = 1

(***************************************************************************)
(* A request is made of the parts of one client, and that client gets the  *)
(* answer, at the server it has connected to, as long as no closing has    *)
(* gone wrong.                                                             *)
(***************************************************************************)
AnswersAreOwn ==
    strike = {} => ~mixed

Waiting(c) == c \in DOMAIN conns /\ conns[c].unread > 0
Held(c) == conns[c].state = "backlog" /\ \A f \in Fds : files[f] # None

(***************************************************************************)
(* What a client has sent is read, or its connection is closed, however    *)
(* the other clients behave and whatever has been closed by mistake, as    *)
(* long as there are descriptors: none of them can hold up a server.  A    *)
(* server gets rid of sockets that were closed behind its back.            *)
(***************************************************************************)
EveryoneServed ==
    \A c \in Conns :
        Waiting(c) ~> (Waiting(c) => Held(c))
=============================================================================
