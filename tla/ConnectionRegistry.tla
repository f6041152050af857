------------------------- MODULE ConnectionRegistry -------------------------
(***************************************************************************)
(* The server's connections (ripcqccomponent): RLocalServer accepts them   *)
(* and keeps them in a list, RIpcQcServicesHostPrivate keeps them and the  *)
(* clients for notifications in maps by socket descriptor, both on the     *)
(* main thread; each RIPCServerConnection has a thread of its own and      *)
(* tells the main thread through queued slots that it has finished.  A     *)
(* connection object lives as long as the list or a map holds it.          *)
(***************************************************************************)
EXTENDS Integers, Sequences, FiniteSets

CONSTANTS Conns,           \* connection objects, one for each accept
          Descs,           \* socket descriptors, used again once closed
          NoConn, NoDesc,
          MaxConnections,  \* g_maxConnectionCount
          MaxEmits         \* bound on connectionFinished signals of a connection

ASSUME RegistryAssumption ==
  /\ IsFiniteSet(Conns) /\ NoConn \notin Conns /\ NoDesc \notin Descs
  /\ MaxConnections \in Nat /\ MaxEmits \in Nat \ {0}

VARIABLES
  serverConns,           \* RLocalServerPrivate::m_connections
  hostConns, clients,    \* RIpcQcServicesHostPrivate::m_connections; the connection of m_clients
  queue,                 \* queued slots of the main thread
  notifiedOnce,          \* m_bFirstNotifyAuthorInfo
  status, desc,          \* of the connection and its socket
  inbox,                 \* queued calls of the connection's thread
  emits,
  notified,              \* connections that have been sent a notification
  shadowed               \* accepted while the last owner of the descriptor was still registered

mainvars == <<serverConns, hostConns, clients, notifiedOnce, desc, shadowed>>
vars == <<mainvars, queue, status, inbox, emits, notified>>

Statuses == {"none", "rejected", "new", "open", "closing", "closed", "destroyed"}

TypeOK ==
  /\ serverConns \subseteq Conns
  /\ hostConns \in [Descs -> Conns \cup {NoConn}] /\ clients \in [Descs -> Conns \cup {NoConn}]
  /\ queue \in Seq([slot : {"host", "server"}, conn : Conns]) /\ notifiedOnce \in BOOLEAN
  /\ status \in [Conns -> Statuses] /\ desc \in [Conns -> Descs \cup {NoDesc}]
  /\ inbox \in [Conns -> Seq({"initialize", "sendBuffer"})] /\ emits \in [Conns -> 0..MaxEmits]
  /\ notified \subseteq Conns /\ shadowed \subseteq Conns

Init ==
  /\ serverConns = {} /\ queue = <<>> /\ notifiedOnce = FALSE
  /\ hostConns = [d \in Descs |-> NoConn] /\ clients = [d \in Descs |-> NoConn]
  /\ status = [c \in Conns |-> "none"] /\ desc = [c \in Conns |-> NoDesc]
  /\ inbox = [c \in Conns |-> <<>>] /\ emits = [c \in Conns |-> 0]
  /\ notified = {} /\ shadowed = {}

Exists(c) == status[c] \in {"new", "open", "closing", "closed"}
Holds(c, d) == desc[c] = d /\ status[c] \in {"new", "open", "closing"}

\* The last shared_ptr goes: the destructor ends the connection's thread, waits for
\* it and closes the socket.
Release(st, box) ==
  LET gone == {c \in Conns : /\ st[c] \in {"new", "open", "closing", "closed"}
                             /\ c \notin serverConns' /\ \A d \in Descs : hostConns'[d] # c}
  IN /\ status' = [c \in Conns |-> IF c \in gone THEN "destroyed" ELSE st[c]]
     /\ inbox' = [c \in Conns |-> IF c \in gone THEN <<>> ELSE box[c]]

(***************************************************************************)
(* The main thread                                                         *)
(***************************************************************************)

\* RLocalServer::incomingConnection looks at the list before it adds to it.
Full == Cardinality(serverConns) > MaxConnections

Reject(c) ==
  /\ status[c] = "none" /\ Full
  /\ status' = [status EXCEPT ![c] = "rejected"]
  /\ UNCHANGED <<mainvars, queue, inbox, emits, notified>>

\* The end of a connection on this descriptor has yet to reach the host.
Registered(k, d) == \E i \in DOMAIN queue : queue[i] = [slot |-> "host", conn |-> k] /\ desc[k] = d

\* The host replaces the connection kept under the descriptor and makes a client
\* for it unless there is one.
Accept(c, d) ==
  /\ status[c] = "none" /\ ~Full /\ \A k \in Conns : ~Holds(k, d)
  /\ notifiedOnce' = FALSE
  /\ hostConns' = [hostConns EXCEPT ![d] = c]
  /\ clients' = [clients EXCEPT ![d] = IF @ = NoConn THEN c ELSE @]
  /\ serverConns' = serverConns \cup {c}
  /\ desc' = [desc EXCEPT ![c] = d]
  /\ shadowed' = IF \E k \in Conns : Registered(k, d) THEN shadowed \cup {c} ELSE shadowed
  /\ Release([status EXCEPT ![c] = "new"], [inbox EXCEPT ![c] = <<"initialize">>])
  /\ UNCHANGED <<queue, emits, notified>>

\* RIpcQcServicesHostPrivate::onConnectionFinished erases what is kept under the
\* descriptor; the sender of a connection that has been destroyed is null.
\* (Mutants: one of the maps keeps its entry.)
KeptConns(d) == hostConns
ErasedConns(d) == [hostConns EXCEPT ![d] = NoConn]
KeptClients(d) == clients
ErasedClients(d) == [clients EXCEPT ![d] = NoConn]
HostFinished ==
  /\ queue # <<>> /\ Head(queue).slot = "host"
  /\ LET c == Head(queue).conn IN
       IF Exists(c)
         THEN /\ hostConns' = ErasedConns(desc[c])
              /\ clients' = ErasedClients(desc[c])
         ELSE UNCHANGED <<hostConns, clients>>
  /\ queue' = Tail(queue)
  /\ UNCHANGED <<serverConns, notifiedOnce, desc, shadowed, emits, notified>>
  /\ Release(status, inbox)

\* RLocalServer::onConnectionFinished erases the very connection (mutant: all with
\* its descriptor, as the host does).
OfDescriptor(c) == {k \in serverConns : desc[k] = desc[c]}
Itself(c) == {c}
ServerFinished ==
  /\ queue # <<>> /\ Head(queue).slot = "server"
  /\ LET c == Head(queue).conn IN
       serverConns' = IF Exists(c) THEN serverConns \ Itself(c) ELSE serverConns
  /\ queue' = Tail(queue)
  /\ UNCHANGED <<hostConns, clients, notifiedOnce, desc, shadowed, emits, notified>>
  /\ Release(status, inbox)

\* The timer: onServerAuthorStatus notifies once after each accept, through the
\* client of every descriptor; a QPointer to a destroyed connection is null
\* (mutant: the flag is set by the first connection for good).
DueBeforeConnections == ~notifiedOnce /\ serverConns = {}
Due == ~notifiedOnce
NotifyAuthorStatus ==
  /\ Due
  /\ notifiedOnce' = TRUE
  /\ LET told == {c \in Conns : Exists(c) /\ \E d \in Descs : clients[d] = c}
     IN inbox' = [c \in Conns |-> IF c \in told THEN Append(inbox[c], "sendBuffer") ELSE inbox[c]]
  /\ UNCHANGED <<serverConns, hostConns, clients, desc, shadowed, queue, status, emits, notified>>

(***************************************************************************)
(* A connection's thread                                                   *)
(***************************************************************************)
Called(c, call) == Exists(c) /\ inbox[c] # <<>> /\ Head(inbox[c]) = call

Initialize(c) ==
  /\ Called(c, "initialize")
  /\ status' = [status EXCEPT ![c] = "open"]
  /\ inbox' = [inbox EXCEPT ![c] = Tail(@)]
  /\ UNCHANGED <<mainvars, queue, emits, notified>>

\* sendBuffer drops the message when the socket is not connected.
SendBuffer(c) ==
  /\ Called(c, "sendBuffer") /\ status[c] # "closing"
  /\ inbox' = [inbox EXCEPT ![c] = Tail(@)]
  /\ notified' = IF status[c] = "open" THEN notified \cup {c} ELSE notified
  /\ UNCHANGED <<mainvars, queue, status, emits>>

\* connectionFinished: the host's slot was connected first.
Emit(c) ==
  /\ emits[c] < MaxEmits
  /\ emits' = [emits EXCEPT ![c] = @ + 1]
  /\ queue' = queue \o <<[slot |-> "host", conn |-> c], [slot |-> "server", conn |-> c]>>

\* A farewell, a bad header or too much data: the socket stays open.
Refuses(c) ==
  /\ status[c] = "open" /\ Emit(c)
  /\ UNCHANGED <<mainvars, status, inbox, notified>>

\* The peer has closed: onError emits, then the socket gives the descriptor back.
PeerCloses(c) ==
  /\ status[c] = "open" /\ Emit(c)
  /\ status' = [status EXCEPT ![c] = "closing"]
  /\ UNCHANGED <<mainvars, inbox, notified>>

CloseDesc(c) ==
  /\ status[c] = "closing"
  /\ status' = [status EXCEPT ![c] = "closed"]
  /\ UNCHANGED <<mainvars, queue, inbox, emits, notified>>

Main == HostFinished \/ ServerFinished
OwnThread(c) == Initialize(c) \/ SendBuffer(c) \/ CloseDesc(c)

Next ==
  \/ \E c \in Conns : Reject(c) \/ (\E d \in Descs : Accept(c, d)) \/ Refuses(c) \/ PeerCloses(c)
  \/ Main \/ NotifyAuthorStatus
  \/ \E c \in Conns : OwnThread(c)

Spec == Init /\ [][Next]_vars

\* The event loops run and the timer fires; nobody has to connect or to leave.
FairSpec ==
  /\ Spec
  /\ WF_vars(Main) /\ WF_vars(NotifyAuthorStatus)
  /\ \A c \in Conns : WF_vars(OwnThread(c))

(***************************************************************************)
(* Properties                                                              *)
(***************************************************************************)
Finished(c) == emits[c] > 0

\* A connection that has not finished is never destroyed because of another one's
\* end, although the host's maps confuse the two when they had the same descriptor
\* (rlocalserver.cpp:210-225, ripcqcserviceshostprivate.cpp:209-220).
KeptWhileOpen == \A c \in Conns : Exists(c) \/ status[c] = "destroyed" => c \in serverConns \/ Finished(c)

\* The client of a descriptor belongs to another connection than the one kept there
\* only between the accept of a used descriptor and the end of its last owner
\* (ripcqcserviceshostprivate.cpp:144-186).
ClientOfConnection == \A d \in Descs : clients[d] # hostConns[d] => hostConns[d] \in shadowed

\* A connection that has finished is destroyed, and its socket with it: no map keeps
\* an entry that nobody will erase (rlocalserver.cpp:210-225,
\* ripcqcserviceshostprivate.cpp:188-220, ripcservertoclientchannel.cpp:38-44).
FinishedDestroyed == \A c \in Conns : Finished(c) ~> status[c] = "destroyed"

\* Every accepted connection gets a notification unless it finishes before or has
\* taken over a descriptor whose last owner was still registered
\* (ripcqcserviceshost.cpp:43-110).
NotifiedUnlessShadowed ==
  \A c \in Conns : status[c] = "new" ~> c \in notified \/ Finished(c) \/ c \in shadowed
=============================================================================
