---------------------- MODULE RegistryAndLoggerProofs ----------------------
(***************************************************************************)
(* Proofs about ConnectionRegistry, for any number of connections and      *)
(* descriptors, and about RsLogFile, for any number of threads, paths,     *)
(* names, lines and seconds and any sizes.  Neither part uses the other.   *)
(***************************************************************************)
EXTENDS ConnectionRegistry, RsLogFile, WellFoundedInduction, FiniteSetTheorems, TLAPS

Slots == [slot : {"host", "server"}, conn : Conns]
InboxTypes == [Conns -> Seq({"initialize", "sendBuffer"})]

-----------------------------------------------------------------------------
\* What the steps share.

LEMMA TailSeq ==
  ASSUME NEW S, NEW q \in Seq(S), q # <<>>
  PROVE  Tail(q) \in Seq(S) /\ Head(q) \in S
OBVIOUS

LEMMA TailElements ==
  ASSUME NEW S, NEW q \in Seq(S), q # <<>>
  PROVE  \A i \in DOMAIN Tail(q) : i + 1 \in DOMAIN q /\ Tail(q)[i] = q[i + 1]
<1>1. Len(q) \in Nat \ {0} /\ Len(Tail(q)) = Len(q) - 1
  OBVIOUS
<1>2. DOMAIN q = 1..Len(q) /\ DOMAIN Tail(q) = 1..(Len(q) - 1)
  BY <1>1
<1> QED
  BY <1>1, <1>2

\* Destroying what nobody refers to keeps the connections well typed.
LEMMA ReleaseType ==
  ASSUME NEW st \in [Conns -> Statuses], NEW box \in InboxTypes, Release(st, box)
  PROVE  status' \in [Conns -> Statuses] /\ inbox' \in InboxTypes
BY DEF Release, Statuses, InboxTypes

\* It destroys only what was there and is in no map any more.
LEMMA ReleaseExact ==
  ASSUME NEW st \in [Conns -> Statuses], NEW box, Release(st, box), NEW c \in Conns
  PROVE  \/ status'[c] = st[c]
         \/ /\ st[c] \in {"new", "open", "closing", "closed"} /\ status'[c] = "destroyed"
            /\ c \notin serverConns' /\ \A d \in Descs : hostConns'[d] # c
BY DEF Release

LEMMA EmitType ==
  ASSUME TypeOK, NEW c \in Conns, Emit(c)
  PROVE  emits' \in [Conns -> 0..MaxEmits] /\ queue' \in Seq(Slots)
<1>1. emits' \in [Conns -> 0..MaxEmits]
  BY RegistryAssumption DEF TypeOK, Emit
<1>2. <<[slot |-> "host", conn |-> c], [slot |-> "server", conn |-> c]>> \in Seq(Slots)
  BY DEF Slots
<1> QED
  BY <1>1, <1>2 DEF TypeOK, Emit, Slots

-----------------------------------------------------------------------------
(***************************************************************************)
(* Type correctness.                                                       *)
(***************************************************************************)

LEMMA TypeInit == Init => TypeOK
<1> SUFFICES ASSUME Init PROVE TypeOK
  OBVIOUS
<1>1. inbox \in [Conns -> Seq({"initialize", "sendBuffer"})] /\ queue \in Seq(Slots)
  BY DEF Init
<1>2. emits \in [Conns -> 0..MaxEmits]
  BY RegistryAssumption DEF Init
<1> QED
  BY <1>1, <1>2 DEF Init, TypeOK, Statuses, Slots

LEMMA TypeStep == TypeOK /\ [Next]_vars => TypeOK'
<1> SUFFICES ASSUME TypeOK, [Next]_vars PROVE TypeOK'
  OBVIOUS
<1> USE DEF mainvars
<1>1. ASSUME NEW c \in Conns, Reject(c) PROVE TypeOK'
  BY <1>1 DEF TypeOK, Reject, Statuses
<1>2. ASSUME NEW c \in Conns, NEW d \in Descs, Accept(c, d) PROVE TypeOK'
  <2>1. [status EXCEPT ![c] = "new"] \in [Conns -> Statuses]
    BY DEF TypeOK, Statuses
  <2>2. [inbox EXCEPT ![c] = <<"initialize">>] \in InboxTypes
    BY DEF TypeOK, InboxTypes
  <2>3. status' \in [Conns -> Statuses] /\ inbox' \in InboxTypes
    BY <1>2, <2>1, <2>2, ReleaseType DEF Accept
  <2>4. /\ hostConns' \in [Descs -> Conns \cup {NoConn}] /\ clients' \in [Descs -> Conns \cup {NoConn}]
        /\ desc' \in [Conns -> Descs \cup {NoDesc}] /\ shadowed' \subseteq Conns
        /\ serverConns' \subseteq Conns
    BY <1>2 DEF TypeOK, Accept
  <2> QED
    BY <1>2, <2>3, <2>4 DEF TypeOK, Accept, InboxTypes
<1>3. ASSUME HostFinished PROVE TypeOK'
  <2>1. Tail(queue) \in Seq(Slots) /\ Head(queue) \in Slots
    BY <1>3, TailSeq DEF TypeOK, HostFinished, Slots
  <2>2. status' \in [Conns -> Statuses] /\ inbox' \in InboxTypes
    BY <1>3, ReleaseType DEF TypeOK, HostFinished, InboxTypes
  <2>3. hostConns' \in [Descs -> Conns \cup {NoConn}] /\ clients' \in [Descs -> Conns \cup {NoConn}]
    BY <1>3 DEF TypeOK, HostFinished, ErasedConns, ErasedClients
  <2> QED
    BY <1>3, <2>1, <2>2, <2>3 DEF TypeOK, HostFinished, Slots, InboxTypes
<1>4. ASSUME ServerFinished PROVE TypeOK'
  <2>1. Tail(queue) \in Seq(Slots) /\ Head(queue) \in Slots
    BY <1>4, TailSeq DEF TypeOK, ServerFinished, Slots
  <2>2. status' \in [Conns -> Statuses] /\ inbox' \in InboxTypes
    BY <1>4, ReleaseType DEF TypeOK, ServerFinished, InboxTypes
  <2> QED
    BY <1>4, <2>1, <2>2 DEF TypeOK, ServerFinished, Slots, InboxTypes
<1>5. ASSUME NotifyAuthorStatus PROVE TypeOK'
  <2>1. \A c \in Conns : Append(inbox[c], "sendBuffer") \in Seq({"initialize", "sendBuffer"})
    BY DEF TypeOK
  <2> QED
    BY <1>5, <2>1 DEF TypeOK, NotifyAuthorStatus
<1>6. ASSUME NEW c \in Conns, Refuses(c) \/ PeerCloses(c) PROVE TypeOK'
  BY <1>6, EmitType DEF TypeOK, Refuses, PeerCloses, Statuses, Slots
<1>7. ASSUME NEW c \in Conns, Initialize(c) \/ SendBuffer(c) PROVE TypeOK'
  <2>1. Tail(inbox[c]) \in Seq({"initialize", "sendBuffer"})
    BY <1>7, TailSeq DEF TypeOK, Initialize, SendBuffer, Called
  <2> QED
    BY <1>7, <2>1 DEF TypeOK, Initialize, SendBuffer, Statuses
<1>8. ASSUME NEW c \in Conns, CloseDesc(c) PROVE TypeOK'
  BY <1>8 DEF TypeOK, CloseDesc, Statuses
<1>9. CASE UNCHANGED vars
  BY <1>9 DEF TypeOK, vars
<1> QED
  BY <1>1, <1>2, <1>3, <1>4, <1>5, <1>6, <1>7, <1>8, <1>9 DEF Next, Main, OwnThread

\* The registry keeps the types of its variables in every reachable state.
THEOREM TypeCorrect == Spec => []TypeOK
BY TypeInit, TypeStep, PTL DEF Spec

-----------------------------------------------------------------------------
(***************************************************************************)
(* A connection lives until its own end is known.                          *)
(***************************************************************************)

\* Only a connection that has emitted connectionFinished is named in the queue.
QueueFinished == \A i \in DOMAIN queue : Finished(queue[i].conn)

KeptInv == KeptWhileOpen /\ QueueFinished

LEMMA KeptInit == Init => KeptInv
BY DEF Init, KeptInv, KeptWhileOpen, QueueFinished, Exists

LEMMA QueueTyped ==
  ASSUME TypeOK
  PROVE  DOMAIN queue = 1..Len(queue) /\ \A i \in DOMAIN queue : queue[i].conn \in Conns
<1>1. queue \in Seq(Slots)
  BY DEF TypeOK, Slots
<1>2. \A i \in DOMAIN queue : queue[i] \in Slots
  BY <1>1
<1>3. \A s \in Slots : s.conn \in Conns
  BY DEF Slots
<1> QED
  BY <1>1, <1>2, <1>3

LEMMA QueueStep == TypeOK /\ QueueFinished /\ [Next]_vars => QueueFinished'
<1> SUFFICES ASSUME TypeOK, QueueFinished, [Next]_vars PROVE QueueFinished'
  OBVIOUS
<1> USE DEF mainvars, QueueFinished, Finished
<1>1. ASSUME NEW c \in Conns, Emit(c) PROVE QueueFinished'
  <2>1. \A k \in Conns : emits'[k] >= emits[k] /\ emits'[c] > 0
    BY <1>1, RegistryAssumption DEF TypeOK, Emit
  <2>2. queue \in Seq(Slots) /\ queue' \in Seq(Slots) /\ Len(queue') = Len(queue) + 2
    BY <1>1, EmitType DEF TypeOK, Emit, Slots
  <2>3. \A i \in 1..Len(queue') :
          queue'[i].conn = c \/ (i \in 1..Len(queue) /\ queue'[i] = queue[i])
    BY <1>1, <2>2 DEF Emit
  <2>4. \A i \in 1..Len(queue) : queue[i].conn \in Conns
    BY QueueTyped
  <2>5. \A k \in Conns : emits[k] \in Int /\ emits'[k] \in Int
    BY <1>1, EmitType DEF TypeOK
  <2>6. ASSUME NEW i \in 1..Len(queue') PROVE emits'[queue'[i].conn] > 0
    <3>1. CASE queue'[i].conn = c
      BY <3>1, <2>1
    <3>2. CASE i \in 1..Len(queue) /\ queue'[i] = queue[i]
      BY <3>2, <2>1, <2>2, <2>4, <2>5
    <3> QED
      BY <3>1, <3>2, <2>3
  <2> QED
    BY <2>2, <2>6
<1>2. ASSUME queue # <<>>, queue' = Tail(queue), emits' = emits PROVE QueueFinished'
  <2>1. queue \in Seq(Slots)
    BY DEF TypeOK, Slots
  <2>2. \A i \in DOMAIN Tail(queue) : i + 1 \in DOMAIN queue /\ Tail(queue)[i] = queue[i + 1]
    BY <1>2, <2>1, TailElements
  <2> QED
    BY <1>2, <2>2
<1>3. ASSUME UNCHANGED <<queue, emits>> PROVE QueueFinished'
  BY <1>3
<1> QED
  BY <1>1, <1>2, <1>3 DEF Next, Main, OwnThread, Reject, Accept, HostFinished, ServerFinished,
     NotifyAuthorStatus, Refuses, PeerCloses, Initialize, SendBuffer, CloseDesc, vars

LEMMA KeptStep == TypeOK /\ KeptInv /\ [Next]_vars => KeptWhileOpen'
<1> SUFFICES ASSUME TypeOK, KeptInv, [Next]_vars, NEW k \in Conns, (Exists(k) \/ status[k] = "destroyed")',
                    k \notin serverConns'
             PROVE  Finished(k)'
  BY DEF KeptWhileOpen
<1> USE DEF mainvars, Exists, Finished
<1> DEFINE There(x) == status[x] \in {"new", "open", "closing", "closed", "destroyed"}
<1>1. There(k) => k \in serverConns \/ Finished(k)
  BY DEF KeptInv, KeptWhileOpen
<1>2. ASSUME NEW c \in Conns, Reject(c) PROVE Finished(k)'
  BY <1>1, <1>2 DEF Reject, TypeOK
<1>3. ASSUME NEW c \in Conns, NEW d \in Descs, Accept(c, d) PROVE Finished(k)'
  <2>1. [status EXCEPT ![c] = "new"] \in [Conns -> Statuses]
    BY DEF TypeOK, Statuses
  <2>2. k # c
    BY <1>3 DEF Accept
  <2>3. There(k)
    <3> DEFINE st == [status EXCEPT ![c] = "new"]
    <3>1. status'[k] = st[k] \/ st[k] \in {"new", "open", "closing", "closed"}
      BY <1>3, <2>1, ReleaseExact DEF Accept
    <3>2. st[k] = status[k]
      BY <2>2 DEF TypeOK
    <3> HIDE DEF st
    <3> QED
      BY <3>1, <3>2
  <2>4. serverConns \subseteq serverConns' /\ emits' = emits
    BY <1>3 DEF Accept
  <2> QED
    BY <1>1, <2>3, <2>4
<1>4. ASSUME HostFinished PROVE Finished(k)'
  <2>1. There(k)
    BY <1>4, ReleaseExact DEF HostFinished, TypeOK
  <2> QED
    BY <1>1, <1>4, <2>1 DEF HostFinished
<1>5. ASSUME ServerFinished PROVE Finished(k)'
  <2>1. There(k)
    BY <1>5, ReleaseExact DEF ServerFinished, TypeOK
  <2>2. Finished(Head(queue).conn)
    <3>1. queue \in Seq(Slots) /\ queue # <<>>
      BY <1>5 DEF ServerFinished, TypeOK, Slots
    <3>2. 1 \in DOMAIN queue /\ Head(queue) = queue[1]
      BY <3>1
    <3> QED
      BY <3>2 DEF KeptInv, QueueFinished
  <2>3. k \in serverConns => k = Head(queue).conn
    BY <1>5 DEF ServerFinished, Itself
  <2> QED
    BY <1>1, <1>5, <2>1, <2>2, <2>3 DEF ServerFinished
<1>6. ASSUME NEW c \in Conns, Refuses(c) \/ PeerCloses(c) PROVE Finished(k)'
  <2>1. There(k) /\ serverConns' = serverConns
    BY <1>6 DEF Refuses, PeerCloses, TypeOK
  <2>2. Finished(k)
    BY <1>1, <2>1
  <2>3. Emit(c)
    BY <1>6 DEF Refuses, PeerCloses
  <2> QED
    BY <2>2, <2>3, RegistryAssumption DEF Emit, TypeOK
<1>7. ASSUME NotifyAuthorStatus PROVE Finished(k)'
  BY <1>1, <1>7 DEF NotifyAuthorStatus
<1>8. ASSUME NEW c \in Conns, OwnThread(c) PROVE Finished(k)'
  BY <1>1, <1>8 DEF OwnThread, Initialize, SendBuffer, CloseDesc, Called, TypeOK
<1>9. CASE UNCHANGED vars
  BY <1>1, <1>9 DEF vars
<1> QED
  BY <1>2, <1>3, <1>4, <1>5, <1>6, <1>7, <1>8, <1>9 DEF Next, Main

\* A connection that has not finished is in the list of the server and is never
\* destroyed because of the end of another one.
THEOREM LivesUntilFinished == Spec => []KeptWhileOpen
<1>1. TypeOK /\ KeptInv /\ [Next]_vars => KeptInv'
  BY QueueStep, KeptStep DEF KeptInv
<1>2. KeptInv => KeptWhileOpen
  BY DEF KeptInv
<1> QED
  BY <1>1, <1>2, KeptInit, TypeCorrect, PTL DEF Spec

-----------------------------------------------------------------------------
(***************************************************************************)
(* The two maps of the host agree.                                         *)
(***************************************************************************)

\* What is kept under a descriptor exists and had that descriptor; once it has left
\* it, its own end is still to be handled.
KeptThere ==
  \A d \in Descs : hostConns[d] # NoConn =>
    /\ Exists(hostConns[d]) /\ desc[hostConns[d]] = d
    /\ status[hostConns[d]] \in {"closing", "closed"} => Registered(hostConns[d], d)

SameDescs == \A d \in Descs : (hostConns[d] = NoConn) = (clients[d] = NoConn)

MapsInv == KeptThere /\ SameDescs /\ ClientOfConnection

LEMMA MapsInit == Init => MapsInv
BY DEF Init, MapsInv, KeptThere, SameDescs, ClientOfConnection

\* A step that leaves the maps alone, moves connections only as their threads do and
\* takes nothing from the queue keeps the invariant.
LEMMA MapsKept ==
  ASSUME TypeOK, TypeOK', MapsInv, UNCHANGED <<hostConns, clients, desc, shadowed>>,
         \A c \in Conns : Exists(c) => Exists(c)',
         \A c \in Conns, d \in Descs : Registered(c, d) => Registered(c, d)',
         \A c \in Conns : status'[c] \in {"closing", "closed"} =>
           status[c] \in {"closing", "closed"} \/ Registered(c, desc[c])'
  PROVE  MapsInv'
<1>1. KeptThere'
  <2> SUFFICES ASSUME NEW d \in Descs, hostConns[d] # NoConn
               PROVE  /\ Exists(hostConns[d])' /\ desc[hostConns[d]] = d
                      /\ status'[hostConns[d]] \in {"closing", "closed"} => Registered(hostConns[d], d)'
    BY DEF KeptThere
  <2>1. hostConns[d] \in Conns
    BY DEF TypeOK
  <2>2. Exists(hostConns[d]) /\ desc[hostConns[d]] = d
    BY DEF MapsInv, KeptThere
  <2>3. status[hostConns[d]] \in {"closing", "closed"} => Registered(hostConns[d], d)
    BY DEF MapsInv, KeptThere
  <2> QED
    BY <2>1, <2>2, <2>3
<1> QED
  BY <1>1 DEF MapsInv, SameDescs, ClientOfConnection

LEMMA RegisteredStays ==
  ASSUME TypeOK, NEW c \in Conns, NEW d \in Descs, Registered(c, d), desc' = desc,
         \/ queue' = queue
         \/ \E k \in Conns : Emit(k)
         \/ queue # <<>> /\ queue' = Tail(queue) /\ Head(queue) # [slot |-> "host", conn |-> c]
  PROVE  Registered(c, d)'
<1>1. PICK i \in DOMAIN queue : queue[i] = [slot |-> "host", conn |-> c] /\ desc[c] = d
  BY DEF Registered
<1>2. queue \in Seq(Slots)
  BY DEF TypeOK, Slots
<1>3. CASE queue' = queue
  BY <1>1, <1>3 DEF Registered
<1>4. ASSUME NEW k \in Conns, Emit(k) PROVE Registered(c, d)'
  <2>1. i \in DOMAIN queue' /\ queue'[i] = queue[i]
    BY <1>1, <1>2, <1>4 DEF Emit
  <2> QED
    BY <1>1, <2>1 DEF Registered
<1>5. CASE queue # <<>> /\ queue' = Tail(queue) /\ Head(queue) # [slot |-> "host", conn |-> c]
  <2>1. i # 1
    BY <1>1, <1>2, <1>5
  <2>2. i - 1 \in DOMAIN queue' /\ queue'[i - 1] = queue[i]
    BY <1>1, <1>2, <1>5, <2>1
  <2> QED
    BY <1>1, <2>2 DEF Registered
<1> QED
  BY <1>3, <1>4, <1>5

LEMMA EmitRegisters ==
  ASSUME TypeOK, NEW c \in Conns, Emit(c), desc' = desc
  PROVE  Registered(c, desc[c])'
<1>1. queue \in Seq(Slots) /\ queue' \in Seq(Slots)
  BY EmitType DEF TypeOK, Slots
<1>2. Len(queue) + 1 \in DOMAIN queue' /\ queue'[Len(queue) + 1] = [slot |-> "host", conn |-> c]
  BY <1>1 DEF Emit
<1> QED
  BY <1>2 DEF Registered

LEMMA MapsAccept ==
  ASSUME TypeOK, TypeOK', MapsInv, NEW c \in Conns, NEW e \in Descs, Accept(c, e)
  PROVE  MapsInv'
<1> DEFINE st == [status EXCEPT ![c] = "new"]
<1>1. st \in [Conns -> Statuses] /\ st[c] = "new" /\ \A k \in Conns \ {c} : st[k] = status[k]
  BY DEF TypeOK, Statuses
<1>2. \A k \in Conns : (\E d \in Descs : hostConns'[d] = k) => status'[k] = st[k]
  BY <1>1, ReleaseExact, ZenonT(40) DEF Accept
<1> HIDE DEF st
<1>3. /\ hostConns'[e] = c /\ \A d \in Descs \ {e} : hostConns'[d] = hostConns[d] /\ clients'[d] = clients[d]
      /\ clients'[e] = IF clients[e] = NoConn THEN c ELSE clients[e]
      /\ desc'[c] = e /\ \A k \in Conns \ {c} : desc'[k] = desc[k]
      /\ queue' = queue /\ shadowed \subseteq shadowed'
  BY DEF Accept, TypeOK
<1>4. c # NoConn
  BY RegistryAssumption
<1>5. \A d \in Descs : hostConns[d] # c
  BY <1>4 DEF Accept, MapsInv, KeptThere, Exists
<1>6. KeptThere'
  <2> SUFFICES ASSUME NEW d \in Descs, hostConns'[d] # NoConn
               PROVE  /\ Exists(hostConns[d])' /\ desc'[hostConns'[d]] = d
                      /\ status'[hostConns'[d]] \in {"closing", "closed"} => Registered(hostConns[d], d)'
    BY DEF KeptThere
  <2>1. CASE d = e
    BY <1>1, <1>2, <1>3, <2>1 DEF Exists
  <2>2. CASE d # e
    <3>1. hostConns'[d] = hostConns[d] /\ hostConns[d] \in Conns \ {c}
      BY <1>3, <1>5, <2>2 DEF TypeOK
    <3>2. status'[hostConns[d]] = status[hostConns[d]] /\ desc'[hostConns[d]] = desc[hostConns[d]]
      BY <1>1, <1>2, <1>3, <3>1
    <3>3. Exists(hostConns[d]) /\ desc[hostConns[d]] = d
      BY <3>1 DEF MapsInv, KeptThere
    <3>4. status[hostConns[d]] \in {"closing", "closed"} => Registered(hostConns[d], d)
      BY <3>1 DEF MapsInv, KeptThere
    <3> QED
      BY <1>3, <3>1, <3>2, <3>3, <3>4 DEF Exists, Registered
  <2> QED
    BY <2>1, <2>2
<1>7. SameDescs'
  BY <1>3, <1>4 DEF MapsInv, SameDescs
<1>8. ASSUME clients[e] # NoConn PROVE c \in shadowed'
  <2>1. hostConns[e] # NoConn /\ hostConns[e] \in Conns
    BY <1>8 DEF MapsInv, SameDescs, TypeOK
  <2>2. Exists(hostConns[e]) /\ desc[hostConns[e]] = e
    BY <2>1 DEF MapsInv, KeptThere
  <2>3. ~Holds(hostConns[e], e)
    BY <2>1 DEF Accept
  <2>4. Registered(hostConns[e], e)
    BY <2>1, <2>2, <2>3 DEF MapsInv, KeptThere, Exists, Holds
  <2> QED
    BY <2>1, <2>4 DEF Accept
<1>9. ClientOfConnection'
  <2> SUFFICES ASSUME NEW d \in Descs, clients'[d] # hostConns'[d] PROVE hostConns'[d] \in shadowed'
    BY DEF ClientOfConnection
  <2>1. CASE d = e
    BY <1>3, <1>8, <2>1
  <2>2. CASE d # e
    BY <1>3, <2>2 DEF MapsInv, ClientOfConnection
  <2> QED
    BY <2>1, <2>2
<1> QED
  BY <1>6, <1>7, <1>9 DEF MapsInv

LEMMA MapsFinished ==
  ASSUME TypeOK, TypeOK', MapsInv, HostFinished
  PROVE  MapsInv'
<1> DEFINE h == Head(queue).conn
<1>1. queue \in Seq(Slots) /\ queue # <<>> /\ Head(queue) = [slot |-> "host", conn |-> h] /\ h \in Conns
  <2>1. queue \in Seq(Slots) /\ queue # <<>> /\ Head(queue).slot = "host"
    BY DEF TypeOK, HostFinished, Slots
  <2>2. Head(queue) \in Slots
    BY <2>1, TailSeq
  <2> QED
    BY <2>1, <2>2 DEF Slots
<1> HIDE DEF h
<1>2. /\ Exists(h) => hostConns' = ErasedConns(desc[h]) /\ clients' = ErasedClients(desc[h])
      /\ ~Exists(h) => UNCHANGED <<hostConns, clients>>
      /\ desc' = desc /\ shadowed' = shadowed /\ queue' = Tail(queue)
  BY DEF HostFinished, h
<1>3. ASSUME NEW d \in Descs
      PROVE  \/ hostConns'[d] = hostConns[d] /\ clients'[d] = clients[d]
             \/ hostConns'[d] = NoConn /\ clients'[d] = NoConn
  BY <1>2, <1>3 DEF ErasedConns, ErasedClients, TypeOK
<1>4. ASSUME NEW d \in Descs, hostConns'[d] # NoConn
      PROVE  hostConns'[d] = hostConns[d] /\ hostConns[d] # h
  <2>1. hostConns'[d] = hostConns[d]
    BY <1>3, <1>4
  <2>2. ASSUME hostConns[d] = h PROVE FALSE
    <3>1. Exists(h) /\ desc[h] = d
      BY <1>4, <2>1, <2>2 DEF MapsInv, KeptThere
    <3> QED
      BY <1>2, <1>4, <3>1 DEF ErasedConns, TypeOK
  <2> QED
    BY <2>1, <2>2
<1>5. KeptThere'
  <2> SUFFICES ASSUME NEW d \in Descs, hostConns'[d] # NoConn
               PROVE  /\ Exists(hostConns[d])' /\ desc'[hostConns'[d]] = d
                      /\ status'[hostConns'[d]] \in {"closing", "closed"} => Registered(hostConns[d], d)'
    BY DEF KeptThere
  <2>1. hostConns'[d] = hostConns[d] /\ hostConns[d] # h /\ hostConns[d] \in Conns
    BY <1>4 DEF TypeOK
  <2>2. status'[hostConns[d]] = status[hostConns[d]]
    BY <2>1, ReleaseExact, ZenonT(40) DEF HostFinished, TypeOK
  <2>3. Exists(hostConns[d]) /\ desc[hostConns[d]] = d
    BY <2>1 DEF MapsInv, KeptThere
  <2>4. status[hostConns[d]] \in {"closing", "closed"} => Registered(hostConns[d], d)
    BY <2>1 DEF MapsInv, KeptThere
  <2>5. Registered(hostConns[d], d) => Registered(hostConns[d], d)'
    <3>1. Head(queue) # [slot |-> "host", conn |-> hostConns[d]]
      BY <1>1, <2>1
    <3>2. Registered(hostConns[d], d) =>
            \E i \in DOMAIN queue' : queue'[i] = [slot |-> "host", conn |-> hostConns[d]] /\ desc[hostConns[d]] = d
      BY <1>1, <1>2, <2>1, <3>1, RegisteredStays DEF Registered
    <3> QED
      BY <1>2, <2>1, <3>2 DEF Registered
  <2> QED
    BY <1>2, <2>1, <2>2, <2>3, <2>4, <2>5 DEF Exists
<1>6. SameDescs' /\ ClientOfConnection'
  BY <1>2, <1>3 DEF MapsInv, SameDescs, ClientOfConnection
<1> QED
  BY <1>5, <1>6 DEF MapsInv

LEMMA MapsStep == TypeOK /\ TypeOK' /\ MapsInv /\ [Next]_vars => MapsInv'
<1> SUFFICES ASSUME TypeOK, TypeOK', MapsInv, [Next]_vars PROVE MapsInv'
  OBVIOUS
<1> USE DEF mainvars
<1>1. ASSUME UNCHANGED <<hostConns, clients, desc, shadowed, queue>>,
             \A c \in Conns : Exists(c) => Exists(c)',
             \A c \in Conns : status'[c] \in {"closing", "closed"} => status[c] \in {"closing", "closed"}
      PROVE  MapsInv'
  <2>1. \A c \in Conns, d \in Descs : Registered(c, d) => Registered(c, d)'
    BY <1>1 DEF Registered
  <2> QED
    BY <1>1, <2>1, MapsKept
<1>2. ASSUME NEW c \in Conns, Reject(c) PROVE MapsInv'
  BY <1>1, <1>2 DEF Reject, Exists, TypeOK
<1>3. ASSUME ServerFinished PROVE MapsInv'
  <2>1. queue \in Seq(Slots) /\ queue # <<>> /\ Head(queue).slot = "server"
    BY <1>3 DEF TypeOK, ServerFinished, Slots
  <2>2. \A c \in Conns, d \in Descs : Registered(c, d) => Registered(c, d)'
    <3>1. \A c \in Conns : Head(queue) # [slot |-> "host", conn |-> c]
      BY <2>1
    <3> QED
      BY <1>3, <2>1, <3>1, RegisteredStays DEF ServerFinished
  <2>3. ASSUME NEW d \in Descs, hostConns[d] # NoConn
        PROVE  status'[hostConns[d]] = status[hostConns[d]] /\ hostConns[d] \in Conns
    BY <1>3, <2>3, ReleaseExact, ZenonT(40) DEF ServerFinished, TypeOK
  <2>4. KeptThere'
    BY <1>3, <2>2, <2>3 DEF MapsInv, KeptThere, Exists, ServerFinished
  <2> QED
    BY <1>3, <2>4 DEF MapsInv, SameDescs, ClientOfConnection, ServerFinished
<1>4. ASSUME NEW c \in Conns, Emit(c), UNCHANGED mainvars,
             status' = status \/ status' = [status EXCEPT ![c] = "closing"], status[c] = "open"
      PROVE  MapsInv'
  <2>1. \A k \in Conns, d \in Descs : Registered(k, d) => Registered(k, d)'
    BY <1>4, RegisteredStays
  <2>2. Registered(c, desc[c])'
    BY <1>4, EmitRegisters
  <2>3. \A k \in Conns : Exists(k) => Exists(k)'
    BY <1>4 DEF Exists, TypeOK
  <2>4. \A k \in Conns : status'[k] \in {"closing", "closed"} =>
          status[k] \in {"closing", "closed"} \/ k = c
    BY <1>4 DEF TypeOK
  <2> QED
    BY <1>4, <2>1, <2>2, <2>3, <2>4, MapsKept
<1>5. ASSUME NEW c \in Conns, OwnThread(c) PROVE MapsInv'
  <2>1. \A k \in Conns : Exists(k) => Exists(k)'
    BY <1>5 DEF OwnThread, Initialize, SendBuffer, CloseDesc, Called, Exists, TypeOK
  <2>2. \A k \in Conns : status'[k] \in {"closing", "closed"} => status[k] \in {"closing", "closed"}
    BY <1>5 DEF OwnThread, Initialize, SendBuffer, CloseDesc, TypeOK
  <2> QED
    BY <1>1, <1>5, <2>1, <2>2 DEF OwnThread, Initialize, SendBuffer, CloseDesc
<1>6. CASE NotifyAuthorStatus
  BY <1>1, <1>6 DEF NotifyAuthorStatus, Exists
<1>7. CASE UNCHANGED vars
  BY <1>1, <1>7 DEF vars, Exists
<1> QED
  BY <1>2, <1>3, <1>4, <1>5, <1>6, <1>7, MapsAccept, MapsFinished
  DEF Next, Main, Refuses, PeerCloses

\* The client of a descriptor is of the connection kept there, unless that one took
\* the descriptor over before the end of its last owner had reached the host.
THEOREM ClientAndConnection == Spec => []ClientOfConnection
<1>1. TypeOK /\ MapsInv /\ [Next]_vars => MapsInv'
  BY TypeStep, MapsStep
<1>2. MapsInv => ClientOfConnection
  BY DEF MapsInv
<1> QED
  BY <1>1, <1>2, MapsInit, TypeCorrect, PTL DEF Spec

-----------------------------------------------------------------------------
(***************************************************************************)
(* The logger: the names of its files.                                     *)
(***************************************************************************)

\* A set of numbers that is not empty has a least one.
LEMMA LeastNumber ==
  ASSUME NEW S \in SUBSET Nat, S # {}
  PROVE  \E n \in S : \A m \in S : n <= m
<1> DEFINE R == OpToRel(<, Nat)
<1>1. IsWellFoundedOn(R, Nat)
  BY NatLessThanWellFounded, Zenon
<1>2. R = {ss \in Nat \X Nat : ss[1] < ss[2]}
  BY Zenon DEF OpToRel
<1> HIDE DEF R
<1>3. PICK n \in S : \A m \in S : ~(<<m, n>> \in R)
  BY <1>1, WFMin, Zenon
<1>4. ASSUME NEW m \in S PROVE n <= m
  <2>1. m \in Nat /\ n \in Nat /\ <<m, n>> \notin R
    BY <1>3
  <2>2. <<m, n>> \in R <=> m < n
    BY <1>2, <2>1
  <2> QED
    BY <2>1, <2>2
<1> QED
  BY <1>3, <1>4

Names == Bases \X (0..MaxSeconds)

\* What a name is made of can be read off it.
LEMMA NumberedName ==
  ASSUME NEW p \in Paths, NEW nm \in Names, NEW n \in Nat
  PROVE  LET f == Numbered(p, nm, n) IN
         /\ f[1] = p /\ f[2] = nm[1] /\ f[3] = nm[2] /\ f[4] = n
         /\ n \in 0..MaxLines => f \in FileNames
         /\ nm = <<nm[1], nm[2]>> /\ nm[2] \in 0..MaxSeconds
BY DEF Numbered, FileNames, Names

LEMMA PlainName ==
  ASSUME NEW p, NEW nm
  PROVE  Plain(p, nm) = Numbered(p, nm, 0)
BY DEF Plain, Numbered

LEMMA FileName ==
  ASSUME NEW f \in FileNames
  PROVE  /\ f[1] \in Paths /\ f[2] \in Bases /\ f[3] \in 0..MaxSeconds /\ f[4] \in 0..MaxLines
         /\ f = Numbered(f[1], <<f[2], f[3]>>, f[4]) /\ <<f[2], f[3]>> \in Names
BY DEF FileNames, Names, Numbered

\* Two files that agree in path, base, second and number are one.
LEMMA SameFile ==
  ASSUME NEW f \in FileNames, NEW g \in FileNames,
         f[1] = g[1], f[2] = g[2], f[3] = g[3], f[4] = g[4]
  PROVE  f = g
BY DEF FileNames

\* rollFile() finds a free number, at most one above the highest in use.
LEMMA FreeNumber ==
  ASSUME NEW fs, NEW p \in Paths, NEW nm \in Names, NEW n \in 0..MaxLines,
         \A f \in DOMAIN fs : f[4] <= n
  PROVE  LET last == FirstFree(fs, p, nm) IN
         /\ last \in 1..n + 1 /\ Numbered(p, nm, last) \notin DOMAIN fs
         /\ \A k \in 1..last - 1 : Numbered(p, nm, k) \in DOMAIN fs
<1> DEFINE Free(k) == /\ Numbered(p, nm, k) \notin DOMAIN fs
                      /\ \A i \in 1..k - 1 : Numbered(p, nm, i) \in DOMAIN fs
           S == {k \in 1..MaxLines + 1 : Numbered(p, nm, k) \notin DOMAIN fs}
<1>1. MaxLines \in Nat
  BY LogAssumption
<1>2. n + 1 \in 1..MaxLines + 1 /\ Numbered(p, nm, n + 1) \notin DOMAIN fs
  <2>1. n + 1 \in 1..MaxLines + 1 /\ n + 1 \in Nat /\ ~(n + 1 <= n)
    BY <1>1
  <2> DEFINE k == n + 1
  <2>2. Numbered(p, nm, n + 1)[4] = n + 1
    BY <2>1, NumberedName
  <2> QED
    BY <2>1, <2>2
<1>3. n + 1 \in S /\ S \in SUBSET Nat
  BY <1>1, <1>2
<1>4. PICK k \in S : \A m \in S : k <= m
  BY <1>3, LeastNumber
<1>5. ASSUME NEW i \in 1..k - 1 PROVE Numbered(p, nm, i) \in DOMAIN fs
  <2>1. i \in 1..MaxLines + 1 /\ ~(k <= i)
    BY <1>1
  <2> QED
    BY <2>1, <1>4
<1>6. k \in 1..MaxLines + 1 /\ Free(k)
  BY <1>5
<1>7. FirstFree(fs, p, nm) \in 1..MaxLines + 1 /\ Free(FirstFree(fs, p, nm))
  BY <1>6 DEF FirstFree
<1> DEFINE last == FirstFree(fs, p, nm)
<1> HIDE DEF last
<1>8. last \in 1..MaxLines + 1 /\ Free(last)
  BY <1>7 DEF last
<1>9. last <= n + 1
  <2>1. SUFFICES ASSUME last > n + 1 PROVE FALSE
    BY <1>8
  <2>2. n + 1 \in 1..last - 1
    BY <1>8, <2>1, <1>1
  <2> QED
    BY <2>2, <1>8, <1>2
<1>10. last \in 1..n + 1
  BY <1>8, <1>9, <1>1
<1> QED
  BY <1>10, <1>8 DEF last

\* gs is fs with log0 renamed to one, a, unless it is log0, to b, and log0 empty.
Shifted(fs, gs, log0, one, a, b) ==
  /\ log0 \in DOMAIN gs /\ gs[log0] = <<>>
  /\ one \in DOMAIN gs /\ gs[one] = fs[log0]
  /\ a # log0 => b \in DOMAIN gs /\ gs[b] = fs[a]
  /\ \A f \in DOMAIN gs :
       \/ f = log0
       \/ f = one
       \/ a # log0 /\ f = b
       \/ f \in DOMAIN fs /\ f # a /\ gs[f] = fs[f]
  /\ \A f \in DOMAIN fs : f \notin {log0, one, a} => f \in DOMAIN gs /\ gs[f] = fs[f]

\* The renames of a roll, of files a to b (if any) and of log to one, then an empty log.
LEMMA Renamed ==
  ASSUME NEW fs, NEW log0, NEW one, NEW a, NEW b, NEW s1,
         log0 \in DOMAIN fs, one # log0,
         \/ s1 = fs /\ a = log0
         \/ s1 = Rename(fs, a, b) /\ a \in DOMAIN fs /\ b \notin DOMAIN fs /\ a # log0 /\ b # log0 /\ b # one,
         NEW gs, gs = Reset(Rename(Remove(s1, one), log0, one), log0)
  PROVE  Shifted(fs, gs, log0, one, a, b)
<1>0. PICK s2, s3 : s2 = Remove(s1, one) /\ s3 = Rename(s2, log0, one)
  OBVIOUS
<1>1. a # log0 => /\ DOMAIN s1 = (DOMAIN fs \ {a}) \cup {b} /\ s1[b] = fs[a]
                  /\ \A f \in DOMAIN fs \ {a} : f # b => s1[f] = fs[f]
  BY DEF Rename, Store, Remove, Restrict
<1>2. a = log0 => s1 = fs
  OBVIOUS
<1>3. log0 \in DOMAIN s1 /\ s1[log0] = fs[log0]
  BY <1>1, <1>2
<1>4. DOMAIN s2 = DOMAIN s1 \ {one} /\ \A f \in DOMAIN s1 \ {one} : s2[f] = s1[f]
  BY <1>0 DEF Remove, Restrict
<1>5. log0 \in DOMAIN s2 /\ s2[log0] = fs[log0]
  BY <1>3, <1>4
<1>6. /\ DOMAIN s3 = (DOMAIN s2 \ {log0}) \cup {one} /\ s3[one] = fs[log0]
      /\ \A f \in DOMAIN s2 \ {log0} : f # one => s3[f] = s2[f]
  BY <1>0, <1>5 DEF Rename, Store, Remove, Restrict
<1>7. gs = Reset(s3, log0)
  BY <1>0
<1>8. /\ DOMAIN gs = DOMAIN s3 \cup {log0} /\ gs[log0] = <<>>
      /\ \A f \in DOMAIN s3 : f # log0 => gs[f] = s3[f]
  BY <1>7 DEF Reset, Store
<1>9. log0 \in DOMAIN gs /\ gs[log0] = <<>> /\ one \in DOMAIN gs /\ gs[one] = fs[log0]
  BY <1>6, <1>8
<1>10. ASSUME a # log0 PROVE b \in DOMAIN gs /\ gs[b] = fs[a]
  BY <1>10, <1>1, <1>4, <1>6, <1>8
<1>11. ASSUME NEW f \in DOMAIN gs, f # log0, f # one, ~(a # log0 /\ f = b)
       PROVE  f \in DOMAIN fs /\ f # a /\ gs[f] = fs[f]
  <2>1. f \in DOMAIN s1 /\ gs[f] = s1[f]
    BY <1>11, <1>4, <1>6, <1>8
  <2> QED
    BY <2>1, <1>1, <1>2, <1>11
<1>12. ASSUME NEW f \in DOMAIN fs, f # log0, f # one, f # a
       PROVE  f \in DOMAIN gs /\ gs[f] = fs[f]
  <2>1. f \in DOMAIN s1 /\ s1[f] = fs[f]
    BY <1>12, <1>1, <1>2
  <2> QED
    BY <2>1, <1>12, <1>4, <1>6, <1>8
<1> QED
  BY <1>9, <1>10, <1>11, <1>12 DEF Shifted

-----------------------------------------------------------------------------
(***************************************************************************)
(* What the files of the directories hold.                                 *)
(***************************************************************************)

\* A line in a file, the order of lines in one and between two, files of one log.
Has(q, n) == \E i \in DOMAIN q : q[i] = n
Increasing(q) == \A i, j \in DOMAIN q : i < j => q[i] < q[j]
AllBefore(q, r) == \A i \in DOMAIN q, j \in DOMAIN r : q[i] < r[j]
SameLog(f, g) == f[1] = g[1] /\ f[2] = g[2] /\ f[3] = g[3]

\* Names up to second s and number m; lines up to n; the log of a numbered file is
\* there; older is higher; every line but those of l is in a file; and in one only.
Named(fs, s, m) == \A f \in DOMAIN fs : f \in FileNames /\ f[3] <= s /\ f[4] <= m
Written(fs, n) == \A f \in DOMAIN fs : fs[f] \in Seq(1..n)
HasPlain(fs) == \A f \in DOMAIN fs : Plain(f[1], <<f[2], f[3]>>) \in DOMAIN fs
Ordered(fs) ==
  \A f, g \in DOMAIN fs :
    Increasing(fs[f]) /\ (SameLog(f, g) /\ f[4] > g[4] => AllBefore(fs[f], fs[g]))
Kept(fs, n, l) == \A k \in 1..n : (\E f \in DOMAIN fs : Has(fs[f], k)) <=> k \notin l
Single(fs) == \A f, g \in DOMAIN fs : \A k : Has(fs[f], k) /\ Has(fs[g], k) => f = g

\* An empty file satisfies all that is asked of one file.
LEMMA NoLines ==
  ASSUME NEW n \in Nat
  PROVE  /\ <<>> \in Seq(1..n) /\ Increasing(<<>>) /\ \A k : ~Has(<<>>, k)
         /\ \A q : AllBefore(<<>>, q) /\ AllBefore(q, <<>>)
BY DEF Increasing, Has, AllBefore

\* A line with a new highest number at the end of a file.
LEMMA OneMore ==
  ASSUME NEW n \in Nat, NEW q \in Seq(1..n), NEW r, r = Append(q, n + 1)
  PROVE  /\ r \in Seq(1..n + 1)
         /\ Increasing(q) => Increasing(r)
         /\ ~Has(q, n + 1)
         /\ \A s \in Seq(1..n) : AllBefore(s, q) => AllBefore(s, r)
<1>1. q \in Seq(1..n + 1)
  <2>1. \A i \in 1..Len(q) : q[i] \in 1..n + 1
    OBVIOUS
  <2> QED
    BY <2>1
<1>2. r \in Seq(1..n + 1)
  BY <1>1
<1>3. PICK l \in Nat : l = Len(q)
  OBVIOUS
<1>4. /\ DOMAIN q = 1..l /\ DOMAIN r = 1..l + 1 /\ r[l + 1] = n + 1
      /\ \A i \in 1..l : r[i] = q[i] /\ q[i] \in Nat /\ q[i] < n + 1
  BY <1>3
<1>5. ASSUME Increasing(q), NEW i \in DOMAIN r, NEW j \in DOMAIN r, i < j PROVE r[i] < r[j]
  <2>1. i \in 1..l
    BY <1>4, <1>5
  <2>2. j \in 1..l \/ j = l + 1
    BY <1>4
  <2> QED
    BY <2>1, <2>2, <1>4, <1>5 DEF Increasing
<1>6. ~Has(q, n + 1)
  BY <1>4 DEF Has
<1>7. ASSUME NEW s \in Seq(1..n), AllBefore(s, q), NEW i \in DOMAIN s, NEW j \in DOMAIN r
      PROVE  s[i] < r[j]
  <2>1. s[i] < n + 1
    OBVIOUS
  <2>2. CASE j = l + 1
    BY <2>1, <2>2, <1>4
  <2>3. CASE j # l + 1
    <3>1. j \in 1..l + 1
      BY <1>4
    <3>2. j \in 1..l
      BY ONLY <3>1, <2>3, <1>3
    <3>3. j \in DOMAIN q /\ r[j] = q[j]
      BY <3>2, <1>4
    <3> QED
      BY <3>3, <1>7 DEF AllBefore
  <2> QED
    BY <2>2, <2>3
<1> QED
  BY <1>2, <1>5, <1>6, <1>7 DEF Increasing, AllBefore

\* The same, of the lines that are there.
LEMMA OneMoreHas ==
  ASSUME NEW n \in Nat, NEW q \in Seq(1..n), NEW r, r = Append(q, n + 1), NEW k
  PROVE  Has(r, k) <=> Has(q, k) \/ k = n + 1
<1>1. PICK l \in Nat : l = Len(q)
  OBVIOUS
<1>2. DOMAIN q = 1..l /\ DOMAIN r = 1..l + 1 /\ r[l + 1] = n + 1 /\ \A i \in 1..l : r[i] = q[i]
  BY <1>1
<1>3. l + 1 \in 1..l + 1 /\ \A i \in 1..l + 1 : i \in 1..l \/ i = l + 1
  BY <1>1
<1>4. \A i \in 1..l : i \in 1..l + 1
  BY <1>1
<1> QED
  BY <1>2, <1>3, <1>4 DEF Has

\* A bound on the lines of a file may be raised.
LEMMA MoreLines ==
  ASSUME NEW n \in Nat, NEW m \in Nat, n <= m, NEW q \in Seq(1..n)
  PROVE  q \in Seq(1..m)
<1>1. \A i \in 1..Len(q) : q[i] \in 1..m
  OBVIOUS
<1> QED
  BY <1>1

\* Appending a line, to a file that exists or to a new one.
LEMMA LineAppended ==
  ASSUME NEW fs, NEW p \in Paths, NEW nm \in Names, NEW n \in Nat, NEW m \in 0..MaxLines,
         Named(fs, nm[2], m), Written(fs, n), HasPlain(fs), Ordered(fs),
         NEW gs, gs = AppendLine(fs, Plain(p, nm), n + 1)
  PROVE  /\ Named(gs, nm[2], m) /\ Written(gs, n + 1) /\ HasPlain(gs) /\ Ordered(gs)
         /\ Plain(p, nm) \in DOMAIN gs
         /\ \A l \in SUBSET (1..n) : Kept(fs, n, l) => Kept(gs, n + 1, l)
         /\ Single(fs) => Single(gs)
<1>1. PICK here : here = Plain(p, nm)
  OBVIOUS
<1>2. here = Numbered(p, nm, 0) /\ here \in FileNames /\ here[1] = p /\ here[2] = nm[1]
      /\ here[3] = nm[2] /\ here[4] = 0 /\ nm = <<nm[1], nm[2]>> /\ nm[2] \in 0..MaxSeconds
  BY <1>1, PlainName, NumberedName, LogAssumption
<1>3. PICK old : old = IF here \in DOMAIN fs THEN fs[here] ELSE <<>>
  OBVIOUS
<1>4. old \in Seq(1..n) /\ Increasing(old)
  BY <1>3, NoLines DEF Written, Ordered
<1>5. /\ DOMAIN gs = DOMAIN fs \cup {here} /\ gs[here] = Append(old, n + 1)
      /\ \A f \in DOMAIN fs : f # here => gs[f] = fs[f]
  <2>1. gs = AppendLine(fs, here, n + 1)
    BY <1>1
  <2>2. gs = Store(fs, here, Append(old, n + 1))
    BY <2>1, <1>3 DEF AppendLine
  <2> QED
    BY <2>2 DEF Store
<1>6. PICK new : new = Append(old, n + 1)
  OBVIOUS
<1>7. /\ new \in Seq(1..n + 1) /\ Increasing(new)
      /\ \A k : Has(new, k) <=> Has(old, k) \/ k = n + 1
      /\ \A s \in Seq(1..n) : AllBefore(s, old) => AllBefore(s, new)
  <2>1. new \in Seq(1..n + 1) /\ (Increasing(old) => Increasing(new))
    BY <1>4, <1>6, OneMore, ZenonT(40)
  <2>2. ASSUME NEW k PROVE Has(new, k) <=> Has(old, k) \/ k = n + 1
    BY <1>4, <1>6, OneMoreHas, ZenonT(40)
  <2>3. \A s \in Seq(1..n) : AllBefore(s, old) => AllBefore(s, new)
    BY <1>4, <1>6, OneMore, ZenonT(40)
  <2> QED
    BY <1>4, <2>1, <2>2, <2>3
<1>8. ASSUME NEW f \in DOMAIN gs
      PROVE  IF f = here THEN gs[f] = new ELSE f \in DOMAIN fs /\ gs[f] = fs[f]
  <2>1. CASE f = here
    BY <2>1, <1>5, <1>6
  <2>2. CASE f # here
    BY <2>2, <1>5
  <2> QED
    BY <2>1, <2>2
<1>9. ASSUME NEW f \in DOMAIN gs
      PROVE  f \in FileNames /\ f[3] <= nm[2] /\ f[4] <= m /\ f[4] \in Nat
  <2>1. MaxSeconds \in Nat /\ MaxLines \in Nat
    BY LogAssumption
  <2>2. CASE f = here
    <3>1. nm[2] <= nm[2] /\ 0 <= m /\ 0 \in Nat
      BY <1>2, <2>1
    <3> QED
      BY <3>1, <2>2, <1>2
  <2>3. CASE f # here
    <3>1. f \in FileNames /\ f[3] <= nm[2] /\ f[4] <= m
      BY <2>3, <1>8 DEF Named
    <3>2. f[4] \in 0..MaxLines
      BY <3>1, FileName
    <3> QED
      BY <3>1, <3>2, <2>1
  <2> QED
    BY <2>2, <2>3
<1>10. Written(gs, n + 1)
  <2> SUFFICES ASSUME NEW f \in DOMAIN gs PROVE gs[f] \in Seq(1..n + 1)
    BY DEF Written
  <2>1. CASE f = here
    BY <2>1, <1>7, <1>8
  <2>2. CASE f # here
    <3>1. gs[f] \in Seq(1..n)
      BY <2>2, <1>8 DEF Written
    <3>2. n + 1 \in Nat /\ n <= n + 1
      OBVIOUS
    <3> QED
      BY <3>1, <3>2, MoreLines
  <2> QED
    BY <2>1, <2>2
<1>11. HasPlain(gs)
  <2>1. Plain(here[1], <<here[2], here[3]>>) = here
    BY <1>1, <1>2
  <2>2. \A f \in DOMAIN fs : Plain(f[1], <<f[2], f[3]>>) \in DOMAIN gs
    BY <1>5 DEF HasPlain
  <2> QED
    BY <2>1, <2>2, <1>5 DEF HasPlain
<1>12. Ordered(gs)
  <2> SUFFICES ASSUME NEW f \in DOMAIN gs, NEW g \in DOMAIN gs
               PROVE  Increasing(gs[f]) /\ (SameLog(f, g) /\ f[4] > g[4] => AllBefore(gs[f], gs[g]))
    BY DEF Ordered
  <2>1. Increasing(gs[f])
    BY <1>7, <1>8 DEF Ordered
  <2>2. ASSUME SameLog(f, g), f[4] > g[4] PROVE AllBefore(gs[f], gs[g])
    <3>1. g[4] \in Nat /\ f[4] \in Nat
      BY <1>9
    <3>2. f # here
      BY <3>1, <2>2, <1>2
    <3>3. f \in DOMAIN fs /\ gs[f] = fs[f] /\ fs[f] \in Seq(1..n)
      BY <3>2, <1>8 DEF Written
    <3>4. CASE g # here
      BY <3>3, <3>4, <1>8, <2>2 DEF Ordered
    <3>5. CASE g = here
      <4>1. AllBefore(fs[f], old)
        <5>1. CASE here \in DOMAIN fs
          BY <5>1, <1>3, <3>3, <3>5, <2>2 DEF Ordered
        <5>2. CASE here \notin DOMAIN fs
          BY <5>2, <1>3, NoLines
        <5> QED
          BY <5>1, <5>2
      <4> QED
        BY <4>1, <3>3, <3>5, <1>7, <1>8
    <3> QED
      BY <3>4, <3>5
  <2> QED
    BY <2>1, <2>2
<1>13. ASSUME NEW l \in SUBSET (1..n), Kept(fs, n, l) PROVE Kept(gs, n + 1, l)
  <2> SUFFICES ASSUME NEW k \in 1..n + 1 PROVE (\E f \in DOMAIN gs : Has(gs[f], k)) <=> k \notin l
    BY DEF Kept
  <2>1. CASE k = n + 1
    <3>1. k \notin l
      BY <2>1
    <3> QED
      BY <2>1, <3>1, <1>5, <1>6, <1>7
  <2>2. CASE k # n + 1
    <3>1. k \in 1..n
      BY <2>2
    <3>2. ASSUME NEW f \in DOMAIN fs, Has(fs[f], k) PROVE \E g \in DOMAIN gs : Has(gs[g], k)
      <4>1. CASE f = here
        BY <3>2, <4>1, <1>3, <1>5, <1>6, <1>7
      <4>2. CASE f # here
        BY <3>2, <4>2, <1>5
      <4> QED
        BY <4>1, <4>2
    <3>3. ASSUME NEW g \in DOMAIN gs, Has(gs[g], k) PROVE \E f \in DOMAIN fs : Has(fs[f], k)
      <4>1. CASE g = here
        <5>1. Has(old, k)
          BY <3>3, <4>1, <2>2, <1>7, <1>8
        <5> QED
          BY <5>1, <1>3, NoLines
      <4>2. CASE g # here
        BY <3>3, <4>2, <1>8
      <4> QED
        BY <4>1, <4>2
    <3> QED
      BY <3>1, <3>2, <3>3, <1>13 DEF Kept
  <2> QED
    BY <2>1, <2>2
<1>14. ASSUME Single(fs) PROVE Single(gs)
  <2>1. \A f \in DOMAIN fs : ~Has(fs[f], n + 1)
    BY OneMore DEF Written
  <2>2. \A k : Has(old, k) => here \in DOMAIN fs /\ Has(fs[here], k)
    BY <1>3, NoLines
  <2>3. ASSUME NEW f \in DOMAIN gs, NEW g \in DOMAIN gs, NEW k, Has(gs[f], k), Has(gs[g], k)
        PROVE  f = g
    <3>1. CASE f = here /\ g # here
      BY <3>1, <2>1, <2>2, <2>3, <1>7, <1>8, <1>14 DEF Single
    <3>2. CASE g = here /\ f # here
      BY <3>2, <2>1, <2>2, <2>3, <1>7, <1>8, <1>14 DEF Single
    <3>3. CASE f # here /\ g # here
      BY <3>3, <2>3, <1>8, <1>14 DEF Single
    <3> QED
      BY <3>1, <3>2, <3>3
  <2> QED
    BY <2>3 DEF Single
<1>16. Named(gs, nm[2], m)
  BY <1>9 DEF Named
<1> QED
  BY <1>1, <1>5, <1>16, <1>10, <1>11, <1>12, <1>13, <1>14

\* The lines of a file, if it is there.
LEMMA LinesThere ==
  ASSUME NEW fs, NEW f, NEW k
  PROVE  k \in LinesOf(fs, f) <=> f \in DOMAIN fs /\ Has(fs[f], k)
BY DEF LinesOf, Range, Has

LEMMA LinesTyped ==
  ASSUME NEW fs, NEW n \in Nat, Written(fs, n), NEW f
  PROVE  LinesOf(fs, f) \subseteq 1..n
<1>1. CASE f \in DOMAIN fs
  <2>1. fs[f] \in Seq(1..n)
    BY <1>1 DEF Written
  <2> QED
    BY <2>1, <1>1 DEF LinesOf, Range
<1>2. CASE f \notin DOMAIN fs
  BY <1>2 DEF LinesOf
<1> QED
  BY <1>1, <1>2

\* Opening a name that is not older than any other, reset(), loses the lines it held.
LEMMA Emptied ==
  ASSUME NEW fs, NEW p \in Paths, NEW nm \in Names, NEW n \in Nat, NEW m \in 0..MaxLines,
         NEW s \in Nat, s <= nm[2],
         Named(fs, s, m), Written(fs, n), HasPlain(fs), Ordered(fs),
         NEW gs, gs = Reset(fs, Plain(p, nm))
  PROVE  /\ Named(gs, nm[2], m) /\ Written(gs, n) /\ HasPlain(gs) /\ Ordered(gs)
         /\ Single(fs) => Single(gs)
         /\ \A l : Single(fs) /\ Kept(fs, n, l) => Kept(gs, n, l \cup LinesOf(fs, Plain(p, nm)))
<1>1. PICK here : here = Plain(p, nm)
  OBVIOUS
<1>2. here = Numbered(p, nm, 0) /\ here \in FileNames /\ here[1] = p /\ here[2] = nm[1]
      /\ here[3] = nm[2] /\ here[4] = 0 /\ nm = <<nm[1], nm[2]>> /\ nm[2] \in 0..MaxSeconds
  BY <1>1, PlainName, NumberedName, LogAssumption
<1>3. /\ DOMAIN gs = DOMAIN fs \cup {here} /\ gs[here] = <<>>
      /\ \A f \in DOMAIN fs : f # here => gs[f] = fs[f]
  BY <1>1 DEF Reset, Store
<1>4. ASSUME NEW f \in DOMAIN gs
      PROVE  IF f = here THEN gs[f] = <<>> ELSE f \in DOMAIN fs /\ gs[f] = fs[f]
  BY <1>3
<1>5. MaxSeconds \in Nat /\ MaxLines \in Nat
  BY LogAssumption
<1>6. ASSUME NEW f \in DOMAIN gs
      PROVE  f \in FileNames /\ f[3] <= nm[2] /\ f[4] <= m /\ f[4] \in Nat
  <2>1. CASE f = here
    <3>1. nm[2] <= nm[2] /\ 0 <= m /\ 0 \in Nat
      BY <1>2, <1>5
    <3> QED
      BY <3>1, <2>1, <1>2
  <2>2. CASE f # here
    <3>1. f \in FileNames /\ f[3] <= s /\ f[4] <= m
      BY <2>2, <1>4 DEF Named
    <3>2. f[4] \in 0..MaxLines /\ f[3] \in 0..MaxSeconds
      BY <3>1, FileName
    <3>3. f[3] <= nm[2]
      BY <3>1, <3>2, <1>2, <1>5
    <3> QED
      BY <3>1, <3>2, <3>3, <1>5
  <2> QED
    BY <2>1, <2>2
<1>7. Named(gs, nm[2], m)
  BY <1>6 DEF Named
<1>8. Written(gs, n)
  BY <1>4, NoLines DEF Written
<1>9. HasPlain(gs)
  <2>1. Plain(here[1], <<here[2], here[3]>>) = here
    BY <1>1, <1>2
  <2>2. \A f \in DOMAIN fs : Plain(f[1], <<f[2], f[3]>>) \in DOMAIN gs
    BY <1>3 DEF HasPlain
  <2> QED
    BY <2>1, <2>2, <1>3 DEF HasPlain
<1>10. Ordered(gs)
  <2> SUFFICES ASSUME NEW f \in DOMAIN gs, NEW g \in DOMAIN gs
               PROVE  Increasing(gs[f]) /\ (SameLog(f, g) /\ f[4] > g[4] => AllBefore(gs[f], gs[g]))
    BY DEF Ordered
  <2>1. Increasing(gs[f])
    BY <1>4, NoLines DEF Ordered
  <2>2. ASSUME SameLog(f, g), f[4] > g[4] PROVE AllBefore(gs[f], gs[g])
    <3>1. CASE f = here \/ g = here
      BY <3>1, <1>3, NoLines
    <3>2. CASE f # here /\ g # here
      BY <3>2, <2>2, <1>4 DEF Ordered
    <3> QED
      BY <3>1, <3>2
  <2> QED
    BY <2>1, <2>2
<1>11. ASSUME NEW l, Single(fs), Kept(fs, n, l) PROVE Kept(gs, n, l \cup LinesOf(fs, here))
  <2> SUFFICES ASSUME NEW k \in 1..n
               PROVE  (\E f \in DOMAIN gs : Has(gs[f], k)) <=> k \notin l \cup LinesOf(fs, here)
    BY DEF Kept
  <2>1. (\E f \in DOMAIN fs : Has(fs[f], k)) <=> k \notin l
    BY <1>11 DEF Kept
  <2>2. k \in LinesOf(fs, here) <=> here \in DOMAIN fs /\ Has(fs[here], k)
    BY LinesThere
  <2>3. ASSUME NEW f \in DOMAIN gs, Has(gs[f], k) PROVE k \notin l \cup LinesOf(fs, here)
    <3>1. f # here
      BY <2>3, <1>3, NoLines
    <3>2. f \in DOMAIN fs /\ Has(fs[f], k)
      BY <2>3, <3>1, <1>4
    <3> QED
      BY <3>1, <3>2, <2>1, <2>2, <1>11 DEF Single
  <2>4. ASSUME k \notin l \cup LinesOf(fs, here) PROVE \E f \in DOMAIN gs : Has(gs[f], k)
    <3>1. PICK f \in DOMAIN fs : Has(fs[f], k)
      BY <2>1, <2>4
    <3>2. f # here
      BY <2>2, <2>4, <3>1
    <3> QED
      BY <3>1, <3>2, <1>3
  <2> QED
    BY <2>3, <2>4
<1>12. ASSUME Single(fs) PROVE Single(gs)
  <2> SUFFICES ASSUME NEW f \in DOMAIN gs, NEW g \in DOMAIN gs, NEW k, Has(gs[f], k), Has(gs[g], k)
               PROVE  f = g
    BY DEF Single
  <2>1. f # here /\ g # here
    BY <1>3, NoLines
  <2> QED
    BY <2>1, <1>4, <1>12 DEF Single
<1> QED
  BY <1>1, <1>7, <1>8, <1>9, <1>10, <1>11, <1>12

\* rollFile() under a name that stays the same loses the lines of .1 if there is a .2.
LEMMA RolledOver ==
  ASSUME NEW fs, NEW p \in Paths, NEW nm \in Names, NEW n \in Nat,
         NEW m \in Nat, m + 1 \in 0..MaxLines, Plain(p, nm) \in DOMAIN fs,
         Named(fs, nm[2], m), Written(fs, n), HasPlain(fs), Ordered(fs),
         NEW gs, gs = Reset(RollSame(fs, p, nm), Plain(p, nm))
  PROVE  /\ Named(gs, nm[2], m + 1) /\ Written(gs, n) /\ HasPlain(gs) /\ Ordered(gs)
         /\ Single(fs) => Single(gs)
         /\ \A l : Single(fs) /\ Kept(fs, n, l) => Kept(gs, n, l \cup LostByRoll(fs, p, nm))
<1>1. MaxSeconds \in Nat /\ MaxLines \in Nat /\ m \in 0..MaxLines /\ 1 \in 0..MaxLines
  BY LogAssumption
<1>2. \A f \in DOMAIN fs : f[4] <= m
  BY DEF Named
<1>3. PICK L : L = FirstFree(fs, p, nm)
  OBVIOUS
<1>4. /\ L \in 1..m + 1 /\ Numbered(p, nm, L) \notin DOMAIN fs
      /\ \A k \in 1..L - 1 : Numbered(p, nm, k) \in DOMAIN fs
  BY <1>1, <1>2, <1>3, FreeNumber
<1>5. PICK log0, one, a, b :
        /\ log0 = Numbered(p, nm, 0) /\ one = Numbered(p, nm, 1) /\ b = Numbered(p, nm, L)
        /\ a = IF L = 1 THEN log0 ELSE Numbered(p, nm, L - 1)
  OBVIOUS
<1>6. /\ log0 \in FileNames /\ log0[1] = p /\ log0[2] = nm[1] /\ log0[3] = nm[2] /\ log0[4] = 0
      /\ one \in FileNames /\ one[1] = p /\ one[2] = nm[1] /\ one[3] = nm[2] /\ one[4] = 1
      /\ nm = <<nm[1], nm[2]>> /\ nm[2] \in 0..MaxSeconds
  BY <1>1, <1>5, NumberedName
<1>7. b \in FileNames /\ b[1] = p /\ b[2] = nm[1] /\ b[3] = nm[2] /\ b[4] = L
  <2>1. L \in Nat /\ L \in 0..MaxLines
    BY <1>1, <1>4
  <2> QED
    BY <2>1, <1>5, NumberedName
<1>8. a[1] = p /\ a[2] = nm[1] /\ a[3] = nm[2] /\ a[4] = L - 1
  <2>1. L - 1 \in Nat
    BY <1>4
  <2>2. CASE L = 1
    BY <2>2, <1>5, <1>6
  <2>3. CASE L # 1
    BY <2>1, <2>3, <1>5, NumberedName
  <2> QED
    BY <2>2, <2>3
<1>9. L \in Nat /\ L >= 1 /\ L <= m + 1 /\ (a # log0 <=> L # 1)
  <2>1. L \in Nat /\ L >= 1 /\ L <= m + 1
    BY <1>4
  <2> QED
    BY <2>1, <1>5, <1>6, <1>8
<1>10. log0 = Plain(p, nm) /\ log0 \in DOMAIN fs
  BY <1>5, PlainName
<1>11. a \in DOMAIN fs
  <2>1. CASE L = 1
    BY <2>1, <1>5, <1>10
  <2>2. CASE L # 1
    <3>1. L - 1 \in 1..L - 1
      BY <2>2, <1>9
    <3> QED
      BY <3>1, <2>2, <1>4, <1>5
  <2> QED
    BY <2>1, <2>2
<1>12. one # log0 /\ b # log0 /\ (a # log0 => b # one /\ b # a)
  BY <1>6, <1>7, <1>8, <1>9
<1>13. PICK s1 : s1 = Shift(fs, p, nm)
  OBVIOUS
<1>14. IF a # log0 THEN s1 = Rename(fs, a, b) ELSE s1 = fs
  <2>1. s1 = IF L > 1 THEN Rename(fs, Numbered(p, nm, L - 1), Numbered(p, nm, L)) ELSE fs
    BY <1>3, <1>13 DEF Shift
  <2>2. L > 1 <=> L # 1
    BY <1>9
  <2> QED
    BY <2>1, <2>2, <1>5, <1>9
<1>15. gs = Reset(Rename(Remove(s1, one), log0, one), log0)
  BY <1>5, <1>10, <1>13 DEF RollSame
<1>16. /\ log0 \in DOMAIN gs /\ gs[log0] = <<>>
       /\ one \in DOMAIN gs /\ gs[one] = fs[log0]
       /\ a # log0 => b \in DOMAIN gs /\ gs[b] = fs[a]
       /\ \A f \in DOMAIN gs :
            \/ f = log0
            \/ f = one
            \/ a # log0 /\ f = b
            \/ f \in DOMAIN fs /\ f # a /\ gs[f] = fs[f]
       /\ \A f \in DOMAIN fs : f \notin {log0, one, a} => f \in DOMAIN gs /\ gs[f] = fs[f]
  <2>1. \/ s1 = fs /\ a = log0
        \/ s1 = Rename(fs, a, b) /\ a \in DOMAIN fs /\ b \notin DOMAIN fs /\ a # log0 /\ b # log0 /\ b # one
    BY <1>4, <1>5, <1>11, <1>12, <1>14
  <2>2. Shifted(fs, gs, log0, one, a, b)
    BY <2>1, <1>10, <1>12, <1>15, Renamed
  <2> QED
    BY <2>2 DEF Shifted
\* Where the lines of a file came from.
<1>17. PICK src : src = [f \in DOMAIN gs |->
                           IF f = one THEN log0 ELSE IF a # log0 /\ f = b THEN a ELSE f]
  OBVIOUS
<1>18. ASSUME NEW f \in DOMAIN gs, f # log0
       PROVE  /\ src[f] \in DOMAIN fs /\ gs[f] = fs[src[f]]
              /\ \/ f = one /\ src[f] = log0
                 \/ f # one /\ a # log0 /\ f = b /\ src[f] = a
                 \/ f # one /\ src[f] = f /\ f # a
  BY <1>10, <1>11, <1>12, <1>16, <1>17, <1>18
<1>19. ASSUME NEW f \in DOMAIN fs
       PROVE  f \in FileNames /\ f[3] <= nm[2] /\ f[4] <= m /\ f[4] \in Nat
  <2>1. f \in FileNames /\ f[3] <= nm[2] /\ f[4] <= m
    BY DEF Named
  <2>2. f[4] \in 0..MaxLines
    BY <2>1, FileName
  <2> QED
    BY <2>1, <2>2, <1>1
<1>20. ASSUME NEW f \in DOMAIN gs
       PROVE  f \in FileNames /\ f[3] <= nm[2] /\ f[4] <= m + 1 /\ f[4] \in Nat
  <2>1. nm[2] <= nm[2] /\ 0 <= m + 1 /\ 1 <= m + 1 /\ L <= m + 1
    BY <1>1, <1>6, <1>9
  <2>2. CASE f \in {log0, one, b}
    BY <2>1, <2>2, <1>6, <1>7, <1>9
  <2>3. CASE f \notin {log0, one, b}
    <3>1. f \in DOMAIN fs
      BY <2>3, <1>16
    <3> QED
      BY <3>1, <1>19
  <2> QED
    BY <2>2, <2>3
<1>21. Named(gs, nm[2], m + 1)
  BY <1>20 DEF Named
<1>22. Written(gs, n)
  <2> SUFFICES ASSUME NEW f \in DOMAIN gs PROVE gs[f] \in Seq(1..n)
    BY DEF Written
  <2>1. CASE f = log0
    BY <2>1, <1>16, NoLines
  <2>2. CASE f # log0
    BY <2>2, <1>18 DEF Written
  <2> QED
    BY <2>1, <2>2
<1>23. HasPlain(gs)
  <2> SUFFICES ASSUME NEW f \in DOMAIN gs PROVE Plain(f[1], <<f[2], f[3]>>) \in DOMAIN gs
    BY DEF HasPlain
  <2>1. CASE f \in {log0, one, b}
    <3>1. f[1] = p /\ f[2] = nm[1] /\ f[3] = nm[2]
      BY <2>1, <1>6, <1>7
    <3>2. Plain(f[1], <<f[2], f[3]>>) = log0
      BY <3>1, <1>6, <1>10
    <3> QED
      BY <3>2, <1>16
  <2>2. CASE f \notin {log0, one, b}
    <3>1. f \in DOMAIN fs
      BY <2>2, <1>16
    <3>2. PICK q : q = Plain(f[1], <<f[2], f[3]>>)
      OBVIOUS
    <3>3. q \in DOMAIN fs /\ q[4] = 0
      BY <3>1, <3>2 DEF HasPlain, Plain
    <3>4. q # one /\ (q = a => q = log0)
      BY <3>3, <1>6, <1>8, <1>9
    <3> QED
      BY <3>2, <3>3, <3>4, <1>16
  <2> QED
    BY <2>1, <2>2
<1>24. Ordered(gs)
  <2> SUFFICES ASSUME NEW f \in DOMAIN gs, NEW g \in DOMAIN gs
               PROVE  Increasing(gs[f]) /\ (SameLog(f, g) /\ f[4] > g[4] => AllBefore(gs[f], gs[g]))
    BY DEF Ordered
  <2>1. Increasing(gs[f])
    <3>1. CASE f = log0
      BY <3>1, <1>16, NoLines
    <3>2. CASE f # log0
      BY <3>2, <1>18 DEF Ordered
    <3> QED
      BY <3>1, <3>2
  <2>2. ASSUME SameLog(f, g), f[4] > g[4] PROVE AllBefore(gs[f], gs[g])
    <3>1. CASE f = log0 \/ g = log0
      BY <3>1, <1>16, NoLines
    <3>2. CASE f # log0 /\ g # log0
      <4>1. PICK d, e : d = src[f] /\ e = src[g]
        OBVIOUS
      <4>2. /\ d \in DOMAIN fs /\ gs[f] = fs[d]
            /\ \/ f = one /\ d = log0
               \/ f # one /\ a # log0 /\ f = b /\ d = a
               \/ f # one /\ d = f /\ f # a
        BY <3>2, <4>1, <1>18
      <4>3. /\ e \in DOMAIN fs /\ gs[g] = fs[e]
            /\ \/ g = one /\ e = log0
               \/ g # one /\ a # log0 /\ g = b /\ e = a
               \/ g # one /\ e = g /\ g # a
        BY <3>2, <4>1, <1>18
      <4>4. f[4] \in Nat /\ g[4] \in Nat /\ f \in FileNames /\ g \in FileNames
        BY <1>20
      <4>5. SameLog(d, e)
        BY <4>2, <4>3, <2>2, <1>6, <1>7, <1>8 DEF SameLog
      <4>6. f # one
        <5> SUFFICES ASSUME f = one PROVE FALSE
          OBVIOUS
        <5>1. g[4] = log0[4]
          BY <4>4, <2>2, <1>6
        <5>2. g = log0
          BY <5>1, <4>4, <2>2, <1>6, SameFile DEF SameLog
        <5> QED
          BY <5>2, <3>2
      <4>7. ASSUME a # log0, f = b, d = a PROVE d[4] > e[4]
        <5>1. g[4] < L /\ d[4] = L - 1 /\ L > 1
          BY <4>7, <2>2, <4>4, <1>7, <1>8, <1>9
        <5>2. CASE g = one /\ e = log0
          <6>1. e[4] = 0
            BY <5>2, <1>6
          <6> QED
            BY <5>1, <6>1, <1>9
        <5>3. CASE e = g /\ g # a
          <6>1. a \in FileNames /\ g[1] = a[1] /\ g[2] = a[2] /\ g[3] = a[3]
            BY <4>7, <2>2, <1>7, <1>8, <1>11, <1>19 DEF SameLog
          <6>2. g[4] # a[4]
            BY <6>1, <5>3, <4>4, SameFile
          <6>3. g[4] # L - 1 /\ e[4] = g[4]
            BY <6>2, <5>3, <1>8
          <6> QED
            BY <5>1, <6>3, <4>4, <1>9
        <5>4. g # b
          BY <5>1, <1>7, <1>9
        <5> QED
          BY <5>2, <5>3, <5>4, <4>3
      <4>8. ASSUME d = f PROVE d[4] > e[4]
        <5>1. CASE g = one /\ e = log0
          <6>1. e[4] = 0 /\ g[4] = 1
            BY <5>1, <1>6
          <6> QED
            BY <4>8, <6>1, <4>4, <2>2
        <5>2. CASE g = b /\ e = a
          <6>1. e[4] = L - 1 /\ g[4] = L
            BY <5>2, <1>7, <1>8
          <6> QED
            BY <4>8, <6>1, <4>4, <2>2, <1>9
        <5>3. CASE e = g
          BY <4>8, <5>3, <2>2
        <5> QED
          BY <5>1, <5>2, <5>3, <4>3
      <4>9. d[4] > e[4]
        BY <4>2, <4>6, <4>7, <4>8
      <4> QED
        BY <4>2, <4>3, <4>5, <4>9 DEF Ordered
    <3> QED
      BY <3>1, <3>2
  <2> QED
    BY <2>1, <2>2
<1>25. ASSUME Single(fs) PROVE Single(gs)
  <2> SUFFICES ASSUME NEW f \in DOMAIN gs, NEW g \in DOMAIN gs, NEW k, Has(gs[f], k), Has(gs[g], k)
               PROVE  f = g
    BY DEF Single
  <2>1. f # log0 /\ g # log0
    BY <1>16, NoLines
  <2>2. src[f] = src[g]
    BY <2>1, <1>18, <1>25 DEF Single
  <2>3. \/ f = one /\ src[f] = log0
        \/ f # one /\ a # log0 /\ f = b /\ src[f] = a
        \/ f # one /\ src[f] = f /\ f # a
    BY <2>1, <1>18
  <2>4. \/ g = one /\ src[g] = log0
        \/ g # one /\ a # log0 /\ g = b /\ src[g] = a
        \/ g # one /\ src[g] = g /\ g # a
    BY <2>1, <1>18
  <2> QED
    BY <2>1, <2>2, <2>3, <2>4
<1>26. ASSUME NEW l, Single(fs), Kept(fs, n, l) PROVE Kept(gs, n, l \cup LostByRoll(fs, p, nm))
  <2>1. PICK two : two = Numbered(p, nm, 2)
    OBVIOUS
  <2> SUFFICES ASSUME NEW k \in 1..n
               PROVE  (\E f \in DOMAIN gs : Has(gs[f], k)) <=> k \notin l \cup LostByRoll(fs, p, nm)
    BY DEF Kept
  <2>2. (\E f \in DOMAIN fs : Has(fs[f], k)) <=> k \notin l
    BY <1>26 DEF Kept
  <2>3. k \in LostByRoll(fs, p, nm) <=> two \in DOMAIN fs /\ one \in DOMAIN fs /\ Has(fs[one], k)
    <3>1. k \in LinesOf(fs, one) <=> one \in DOMAIN fs /\ Has(fs[one], k)
      BY LinesThere
    <3> QED
      BY <2>1, <3>1, <1>5 DEF LostByRoll
  <2>4. ASSUME NEW f \in DOMAIN gs, Has(gs[f], k) PROVE k \notin l \cup LostByRoll(fs, p, nm)
    <3>1. f # log0
      BY <2>4, <1>16, NoLines
    <3>2. /\ src[f] \in DOMAIN fs /\ Has(fs[src[f]], k)
          /\ \/ f = one /\ src[f] = log0
             \/ f # one /\ a # log0 /\ f = b /\ src[f] = a
             \/ f # one /\ src[f] = f /\ f # a
      BY <2>4, <3>1, <1>18
    <3>3. ASSUME k \in LostByRoll(fs, p, nm) PROVE FALSE
      <4>1. src[f] = one
        BY <2>3, <3>2, <3>3, <1>26 DEF Single
      <4>2. a = one /\ a # log0
        BY <3>2, <4>1, <1>12
      <4>3. L - 1 = 1
        BY <4>2, <1>6, <1>8
      <4>4. L = 2
        BY <4>3, <1>9
      <4> QED
        BY <4>4, <2>1, <2>3, <3>3, <1>4
    <3> QED
      BY <3>2, <3>3, <2>2
  <2>5. ASSUME k \notin l \cup LostByRoll(fs, p, nm) PROVE \E f \in DOMAIN gs : Has(gs[f], k)
    <3>1. PICK f \in DOMAIN fs : Has(fs[f], k)
      BY <2>2, <2>5
    <3>2. CASE f = log0
      BY <3>1, <3>2, <1>16
    <3>3. CASE f # log0 /\ f = a
      BY <3>1, <3>3, <1>16
    <3>4. CASE f \notin {log0, a, one}
      BY <3>1, <3>4, <1>16
    <3>5. f # one \/ f = a
      <4> SUFFICES ASSUME f = one, f # a PROVE FALSE
        OBVIOUS
      <4>1. L # 1
        BY <3>1, <1>4, <1>5
      <4>2. L # 2
        <5> SUFFICES ASSUME L = 2 PROVE FALSE
          OBVIOUS
        <5>1. L - 1 = 1
          OBVIOUS
        <5> QED
          BY <5>1, <1>5
      <4>3. 2 \in 1..L - 1
        BY <4>1, <4>2, <1>9
      <4>4. two \in DOMAIN fs
        BY <4>3, <2>1, <1>4
      <4> QED
        BY <4>4, <3>1, <2>3, <2>5
    <3> QED
      BY <3>2, <3>3, <3>4, <3>5
  <2> QED
    BY <2>4, <2>5
<1> QED
  BY <1>21, <1>22, <1>23, <1>24, <1>25, <1>26

-----------------------------------------------------------------------------
(***************************************************************************)
(* The inductive invariant of the logger.                                  *)
(***************************************************************************)

\* Before the logger exists nothing is written and every thread is idle or creates it.
StartInv ==
  ~instance =>
    /\ DOMAIN files = {} /\ lines = 0
    /\ \A t \in Threads : pc[t].at \in {"idle", "create"}

\* The name is of the base name, and of a second that has begun.
NameInv == m_file_name[1] = m_base_file_name /\ m_file_name[2] <= second

\* The directories, and the lines that were to be lost.
DirInv ==
  /\ Named(files, m_file_name[2], lines) /\ Written(files, lines)
  /\ HasPlain(files) /\ Ordered(files) /\ Single(files)
  /\ lost \subseteq 1..lines /\ Kept(files, lines, lost)

\* No buffer is overrun; see RoomForZero.
StreamInv ==
  \A t \in Threads : LET b == stream[t] IN
    b.len <= b.alloc /\ (b.alloc < Large => b.len < b.alloc /\ b.len + b.out = b.text)

LogInv == LogTypeOK /\ StartInv /\ NameInv /\ DirInv /\ StreamInv

\* The types of the files follow from the rest.
LEMMA FilesTyped ==
  ASSUME NEW fs, NEW s, NEW m, NEW n \in 0..MaxLines, Named(fs, s, m), Written(fs, n)
  PROVE  DOMAIN fs \subseteq FileNames /\ \A f \in DOMAIN fs : fs[f] \in Seq(1..MaxLines)
<1>1. MaxLines \in Nat /\ n \in Nat /\ n <= MaxLines
  BY LogAssumption
<1>2. ASSUME NEW q \in Seq(1..n) PROVE q \in Seq(1..MaxLines)
  BY <1>1, MoreLines
<1> QED
  BY <1>2 DEF Named, Written

\* Opening a file under a name not older than the current one.
LEMMA OpenStep ==
  ASSUME LogInv, NEW p \in Paths, NEW nm \in Names, m_file_name[2] <= nm[2],
         files' = Reset(files, Plain(p, nm)), lines' = lines, m_file_name' = nm,
         lost' = lost \cup LinesOf(files, Plain(p, nm))
  PROVE  DirInv'
<1>1. lines \in Nat /\ lines \in 0..MaxLines /\ m_file_name[2] \in Nat
  BY LogAssumption DEF LogInv, LogTypeOK
<1>2. /\ Named(files, m_file_name[2], lines) /\ Written(files, lines)
      /\ HasPlain(files) /\ Ordered(files) /\ Single(files)
      /\ lost \subseteq 1..lines /\ Kept(files, lines, lost)
  BY DEF LogInv, DirInv
<1>3. PICK gs : gs = files'
  OBVIOUS
<1>4. /\ Named(gs, nm[2], lines) /\ Written(gs, lines) /\ HasPlain(gs) /\ Ordered(gs) /\ Single(gs)
      /\ Kept(gs, lines, lost \cup LinesOf(files, Plain(p, nm)))
  BY <1>1, <1>2, <1>3, Emptied
<1>5. LinesOf(files, Plain(p, nm)) \subseteq 1..lines
  BY <1>1, <1>2, LinesTyped
<1> QED
  BY <1>2, <1>3, <1>4, <1>5 DEF DirInv

\* Writing a line, with the rolling that may follow.
LEMMA WriteStep ==
  ASSUME LogInv, WriteLine
  PROVE  /\ DirInv' /\ NameInv'
         /\ m_file_name' \in Names /\ lines' \in 0..MaxLines
<1>1. /\ lines \in Nat /\ lines \in 0..MaxLines /\ m_file_name \in Names /\ m_log_path \in Paths
      /\ MaxLines \in Nat /\ MaxSize \in Nat
      /\ m_base_file_name \in Bases /\ second \in 0..MaxSeconds /\ MaxSeconds \in Nat
  BY LogAssumption DEF LogInv, LogTypeOK, Names
<1>2. /\ Named(files, m_file_name[2], lines) /\ Written(files, lines)
      /\ HasPlain(files) /\ Ordered(files) /\ Single(files)
      /\ lost \subseteq 1..lines /\ Kept(files, lines, lost)
  BY DEF LogInv, DirInv
<1>3. PICK here, fs, nm, p, n :
        /\ here = Plain(p, nm) /\ fs = AppendLine(files, here, n + 1)
        /\ nm = m_file_name /\ p = m_log_path /\ n = lines
  OBVIOUS
<1>4. PICK new : new = <<m_base_file_name, second>>
  OBVIOUS
<1>5. /\ n < MaxLines /\ lines' = n + 1
      /\ IF Len(fs[here]) >= MaxSize
         THEN /\ files' = Reset(IF new = nm THEN RollSame(fs, p, nm) ELSE fs, Plain(p, new))
              /\ m_file_name' = new
              /\ lost' = lost \cup IF new = nm THEN LostByRoll(fs, p, nm) ELSE {}
         ELSE files' = fs /\ UNCHANGED <<m_file_name, lost>>
      /\ UNCHANGED <<instance, m_log_path, m_base_file_name, log_level, second, sets>>
  BY <1>3, <1>4 DEF WriteLine
<1>6. n \in Nat /\ n + 1 \in 0..MaxLines /\ n \in 0..MaxLines /\ p \in Paths /\ nm \in Names
  BY <1>1, <1>3, <1>5
<1>7. /\ Named(fs, nm[2], n) /\ Written(fs, n + 1) /\ HasPlain(fs) /\ Ordered(fs) /\ Single(fs)
      /\ here \in DOMAIN fs
      /\ \A l \in SUBSET (1..n) : Kept(files, n, l) => Kept(fs, n + 1, l)
  BY <1>2, <1>3, <1>6, LineAppended
<1>8. Kept(fs, n + 1, lost) /\ lost \subseteq 1..n + 1
  <2>1. lost \in SUBSET (1..n) /\ Kept(files, n, lost)
    BY <1>2, <1>3
  <2> QED
    BY <2>1, <1>6, <1>7
<1>9. Named(fs, nm[2], n + 1)
  <2>1. ASSUME NEW f \in DOMAIN fs PROVE f[4] <= n + 1
    <3>1. f \in FileNames /\ f[4] <= n
      BY <1>7 DEF Named
    <3>2. f[4] \in 0..MaxLines
      BY <3>1, FileName
    <3> QED
      BY <3>1, <3>2, <1>1, <1>6
  <2> QED
    BY <2>1, <1>7 DEF Named
<1>10. lines' \in 0..MaxLines
  BY <1>5, <1>6
<1>11. new \in Names /\ new[1] = m_base_file_name /\ new[2] = second
  BY <1>1, <1>4 DEF Names
<1>12. nm[1] = m_base_file_name /\ nm[2] <= second /\ nm = <<nm[1], nm[2]>> /\ nm[2] \in Nat
  BY <1>1, <1>3 DEF LogInv, NameInv, Names
<1>13. CASE ~(Len(fs[here]) >= MaxSize)
  <2>1. files' = fs /\ m_file_name' = nm /\ lost' = lost
        /\ m_log_path' = p /\ m_base_file_name' = m_base_file_name /\ second' = second
    BY <1>3, <1>5, <1>13
  <2>2. DirInv'
    BY <2>1, <1>5, <1>7, <1>8, <1>9 DEF DirInv
  <2>3. NameInv'
    BY <2>1, <1>12 DEF NameInv
  <2> QED
    BY <2>1, <2>2, <2>3, <1>1, <1>6, <1>10
<1>14. CASE Len(fs[here]) >= MaxSize /\ new = nm
  <2>1. files' = Reset(RollSame(fs, p, nm), Plain(p, nm)) /\ m_file_name' = nm
        /\ lost' = lost \cup LostByRoll(fs, p, nm)
        /\ m_log_path' = p /\ m_base_file_name' = m_base_file_name /\ second' = second
    BY <1>3, <1>5, <1>14
  <2>2. PICK gs : gs = files'
    OBVIOUS
  <2>3. /\ Named(gs, nm[2], n + 1) /\ Written(gs, n + 1) /\ HasPlain(gs) /\ Ordered(gs) /\ Single(gs)
        /\ Kept(gs, n + 1, lost')
    <3>1. PICK k : k = n + 1
      OBVIOUS
    <3>2. k \in Nat /\ Plain(p, nm) \in DOMAIN fs
      BY <3>1, <1>3, <1>6, <1>7
    <3>3. gs = Reset(RollSame(fs, p, nm), Plain(p, nm))
      BY <2>1, <2>2
    <3>4. Written(fs, k)
      BY <3>1, <1>7
    <3>5. /\ Named(gs, nm[2], n + 1) /\ Written(gs, k) /\ HasPlain(gs) /\ Ordered(gs)
          /\ Single(fs) => Single(gs)
      BY <3>2, <3>3, <3>4, <1>6, <1>7, RolledOver
    <3>6. Kept(gs, k, lost')
      <4>1. Kept(fs, k, lost) /\ Single(fs)
        BY <3>1, <1>7, <1>8
      <4>2. Kept(gs, k, lost \cup LostByRoll(fs, p, nm))
        BY <3>2, <3>3, <3>4, <4>1, <1>6, <1>7, RolledOver
      <4> QED
        BY <4>2, <2>1
    <3>7. Written(gs, n + 1)
      BY <3>1, <3>5
    <3>8. Kept(gs, n + 1, lost')
      BY <3>1, <3>6
    <3>9. Single(gs)
      BY <3>5, <1>7
    <3> QED
      BY <3>5, <3>7, <3>8, <3>9
  <2>4. lost' \subseteq 1..n + 1
    <3>1. LinesOf(fs, Numbered(p, nm, 1)) \subseteq 1..n + 1
      BY <1>6, <1>7, LinesTyped
    <3> QED
      BY <3>1, <2>1, <1>8 DEF LostByRoll
  <2>5. DirInv'
    BY <2>1, <2>2, <2>3, <2>4, <1>5 DEF DirInv
  <2>6. NameInv'
    BY <2>1, <1>12 DEF NameInv
  <2> QED
    BY <2>1, <2>5, <2>6, <1>1, <1>6, <1>10
<1>15. CASE Len(fs[here]) >= MaxSize /\ new # nm
  <2>1. files' = Reset(fs, Plain(p, new)) /\ m_file_name' = new /\ lost' = lost
        /\ m_log_path' = p /\ m_base_file_name' = m_base_file_name /\ second' = second
    BY <1>3, <1>5, <1>15
  <2>2. PICK gs : gs = files'
    OBVIOUS
  <2>3. nm[2] < second
    <3>1. nm[2] # second
      BY <1>4, <1>12, <1>15
    <3> QED
      BY <3>1, <1>1, <1>12
  <2>4. Plain(p, new) \notin DOMAIN fs
    <3> SUFFICES ASSUME Plain(p, new) \in DOMAIN fs PROVE FALSE
      OBVIOUS
    <3>1. Plain(p, new)[3] = second
      BY <1>11 DEF Plain
    <3>2. second <= nm[2]
      BY <3>1, <1>7 DEF Named
    <3> QED
      BY <3>2, <2>3, <1>1, <1>12
  <2>5. /\ Named(gs, new[2], n + 1) /\ Written(gs, n + 1) /\ HasPlain(gs) /\ Ordered(gs) /\ Single(gs)
        /\ Kept(gs, n + 1, lost)
    <3>1. n + 1 \in Nat /\ nm[2] <= new[2]
      BY <1>1, <1>6, <1>11, <1>12
    <3>2. /\ Named(gs, new[2], n + 1) /\ Written(gs, n + 1) /\ HasPlain(gs) /\ Ordered(gs)
          /\ Single(gs) /\ Kept(gs, n + 1, lost \cup LinesOf(fs, Plain(p, new)))
      BY <3>1, <2>1, <2>2, <1>6, <1>7, <1>8, <1>9, <1>11, <1>12, Emptied
    <3>3. LinesOf(fs, Plain(p, new)) = {}
      BY <2>4 DEF LinesOf
    <3>4. lost \cup LinesOf(fs, Plain(p, new)) = lost
      BY <3>3
    <3> QED
      BY <3>2, <3>4
  <2>7. DirInv'
    BY <2>1, <2>2, <2>5, <1>5, <1>8 DEF DirInv
  <2>8. NameInv'
    BY <2>1, <1>1, <1>11 DEF NameInv
  <2> QED
    BY <2>1, <2>7, <2>8, <1>1, <1>10, <1>11
<1> QED
  BY <1>13, <1>14, <1>15

-----------------------------------------------------------------------------
\* The buffer of a line.
Buffers == [len : Nat, alloc : Nat, text : Nat, out : Nat, pieces : Nat]
Roomy(b) == b.len <= b.alloc /\ (b.alloc < Large => b.len < b.alloc /\ b.len + b.out = b.text)

\* append() keeps room for the zero and loses nothing until the buffer is at its limit.
LEMMA AppendedRoomy ==
  ASSUME NEW b \in Buffers, NEW n \in Nat \ {0}, Roomy(b)
  PROVE  Appended(b, n) \in Buffers /\ Roomy(Appended(b, n))
<1>1. Small \in Nat \ {0} /\ Large \in Nat
  BY LogAssumption
<1>2. PICK len, alloc, text, out, pieces :
        len = b.len /\ alloc = b.alloc /\ text = b.text /\ out = b.out /\ pieces = b.pieces
  OBVIOUS
<1>3. /\ len \in Nat /\ alloc \in Nat /\ text \in Nat /\ out \in Nat /\ pieces \in Nat
      /\ len <= alloc /\ (alloc < Large => len < alloc /\ len + out = text)
  BY <1>2 DEF Buffers, Roomy
<1>4. PICK grown, size, more :
        /\ grown = Least(alloc + (IF n >= Small THEN n ELSE Small), Large)
        /\ size = IF alloc - len > n \/ alloc >= Large THEN alloc ELSE grown
        /\ more = Least(n, size - len)
  OBVIOUS
<1>5. /\ Appended(b, n) = [b EXCEPT !.len = len + more, !.alloc = size, !.text = text + n,
                                     !.pieces = pieces + 1]
      /\ b = [len |-> len, alloc |-> alloc, text |-> text, out |-> out, pieces |-> pieces]
  BY <1>2, <1>4 DEF Appended, Fits, Avail, Grown, Buffers
<1>6. /\ grown \in Nat /\ grown <= Large
      /\ alloc < Large => grown > alloc /\ (grown < Large => grown >= alloc + n)
  BY <1>1, <1>3, <1>4 DEF Least
<1>7. /\ size \in Nat /\ size >= len
      /\ size < Large => size > len + n /\ len + out = text
  <2>1. CASE alloc - len > n \/ alloc >= Large
    BY <2>1, <1>1, <1>3, <1>4
  <2>2. CASE ~(alloc - len > n \/ alloc >= Large)
    BY <2>2, <1>1, <1>3, <1>4, <1>6
  <2> QED
    BY <2>1, <2>2
<1>8. /\ more \in Nat /\ len + more <= size
      /\ size < Large => more = n
  BY <1>1, <1>3, <1>4, <1>7 DEF Least
<1>9. /\ len + more \in Nat /\ text + n \in Nat /\ pieces + 1 \in Nat
      /\ size < Large => len + more < size /\ len + more + out = text + n
  BY <1>1, <1>3, <1>7, <1>8
<1> QED
  BY <1>5, <1>7, <1>8, <1>9 DEF Buffers, Roomy

\* A number is printed only where it fits with the zero.
LEMMA NumberRoomy ==
  ASSUME NEW b \in Buffers, NEW n \in 1..MaxNumber, Roomy(b)
  PROVE  WithNumber(b, n) \in Buffers /\ Roomy(WithNumber(b, n))
<1>1. NumberSize \in Nat /\ MaxNumber \in 1..NumberSize - 1 /\ n \in Nat /\ n < NumberSize /\ Large \in Nat
  BY LogAssumption
<1>2. PICK c, size, x, y, o, z :
        /\ c = WithNumber(b, n) /\ size = IF NumberFits(b) THEN n ELSE 0
        /\ x = b.len + size /\ y = b.text + n /\ o = b.out + (n - size) /\ z = b.pieces + 1
  OBVIOUS
<1>3. b.len \in Nat /\ b.alloc \in Nat /\ b.text \in Nat /\ b.out \in Nat /\ b.pieces \in Nat
  BY DEF Buffers
<1>4. size \in {0, n} /\ (size = 0 \/ b.len + size < b.alloc)
  BY <1>1, <1>2, <1>3 DEF NumberFits, Avail
<1>5. x \in Nat /\ y \in Nat /\ o \in Nat /\ z \in Nat
  BY <1>1, <1>2, <1>3, <1>4
<1>6. c = [b EXCEPT !.len = x, !.text = y, !.out = o, !.pieces = z]
  BY <1>2 DEF WithNumber
<1>7. c \in Buffers /\ c.len = x /\ c.text = y /\ c.out = o /\ c.alloc = b.alloc
  BY <1>5, <1>6 DEF Buffers
<1>8. x <= b.alloc /\ (b.alloc < Large => x < b.alloc /\ x + o = y)
  BY <1>1, <1>2, <1>3, <1>4 DEF Roomy
<1> QED
  BY <1>2, <1>7, <1>8 DEF Roomy

LEMMA EmptyRoomy == Empty \in Buffers /\ Roomy(Empty)
BY LogAssumption DEF Empty, Buffers, Roomy

\* Whoever does more than create the logger has one.
LEMMA Started ==
  ASSUME LogInv, NEW t \in Threads, pc[t].at \notin {"idle", "create"}
  PROVE  instance
BY DEF LogInv, StartInv

LEMMA DirFrame ==
  ASSUME LogInv, UNCHANGED <<m_file_name, files, lines, lost>>
  PROVE  DirInv'
BY DEF LogInv, DirInv

LEMMA LogInitInv == LogInit => LogInv
<1> SUFFICES ASSUME LogInit PROVE LogInv
  OBVIOUS
<1>1. DOMAIN files = {} /\ lines = 0 /\ lost = {} /\ second = 0 /\ instance = FALSE
  BY DEF LogInit
<1>2. m_file_name = <<m_base_file_name, 0>> /\ m_base_file_name \in Bases /\ m_log_path \in Paths
  BY DEF LogInit
<1>3. LogTypeOK
  <2>1. 0 \in 0..MaxSeconds /\ 0 \in 0..MaxLines /\ 0 \in 0..MaxSets
    BY LogAssumption
  <2>2. pc \in [Threads -> Steps]
    BY DEF LogInit, Steps, IdleStep
  <2>3. stream \in [Threads -> Buffers]
    BY EmptyRoomy DEF LogInit
  <2>4. m_file_name \in Bases \X (0..MaxSeconds)
    BY <2>1, <1>2
  <2>5. log_level \in Levels /\ sets = 0
    BY DEF LogInit, Levels
  <2> QED
    BY <2>1, <2>2, <2>3, <2>4, <2>5, <1>1, <1>2 DEF LogTypeOK, Buffers
<1>4. StartInv
  BY <1>1 DEF LogInit, StartInv, IdleStep
<1>5. NameInv
  BY <1>1, <1>2 DEF NameInv
<1>6. DirInv
  <2>1. Kept(files, 0, {})
    BY DEF Kept
  <2> QED
    BY <2>1, <1>1 DEF DirInv, Named, Written, HasPlain, Ordered, Single
<1>7. StreamInv
  BY EmptyRoomy DEF LogInit, StreamInv, Roomy
<1> QED
  BY <1>3, <1>4, <1>5, <1>6, <1>7 DEF LogInv

\* A step that leaves the files and names alone.
LEMMA QuietStep ==
  ASSUME LogInv, UNCHANGED <<log, files, lines, lost>>, second' >= second,
         log_level' \in Levels, second' \in 0..MaxSeconds, sets' \in 0..MaxSets,
         pc' \in [Threads -> Steps], stream' \in [Threads -> Buffers],
         \A t \in Threads : Roomy(stream'[t]),
         ~instance => \A t \in Threads : pc'[t].at \in {"idle", "create"}
  PROVE  LogInv'
<1>1. LogTypeOK'
  BY DEF LogInv, LogTypeOK, log, Buffers
<1>2. StartInv'
  BY DEF LogInv, StartInv, log
<1>3. NameInv'
  <2>1. m_file_name[2] \in Nat /\ second \in Nat /\ second' \in Nat
    BY LogAssumption DEF LogInv, LogTypeOK
  <2> QED
    BY <2>1 DEF LogInv, NameInv, log
<1>4. DirInv'
  BY DirFrame DEF log
<1>5. StreamInv'
  BY DEF StreamInv, Roomy
<1> QED
  BY <1>1, <1>2, <1>3, <1>4, <1>5 DEF LogInv

\* A step that writes or opens a file.
LEMMA FileStep ==
  ASSUME LogInv, DirInv', NameInv', instance' = TRUE,
         UNCHANGED log_level, second' = second, sets' \in 0..MaxSets,
         m_log_path' \in Paths, m_base_file_name' \in Bases, m_file_name' \in Names,
         lines' \in 0..MaxLines,
         pc' \in [Threads -> Steps], stream' \in [Threads -> Buffers],
         \A t \in Threads : Roomy(stream'[t])
  PROVE  LogInv'
<1>1. DOMAIN files' \subseteq FileNames /\ \A f \in DOMAIN files' : files'[f] \in Seq(1..MaxLines)
  BY FilesTyped DEF DirInv
<1>2. log_level' \in Levels /\ second' \in 0..MaxSeconds
  BY DEF LogInv, LogTypeOK
<1>3. LogTypeOK'
  <2>1. lost' \subseteq 1..lines' /\ lines' \in Nat /\ lines' <= MaxLines /\ MaxLines \in Nat
    BY LogAssumption DEF DirInv
  <2>2. lost' \subseteq 1..MaxLines
    BY <2>1
  <2> QED
    BY <1>1, <1>2, <2>2 DEF LogTypeOK, Buffers, Names
<1>4. StartInv'
  BY DEF StartInv
<1>5. StreamInv'
  BY DEF StreamInv, Roomy
<1> QED
  BY <1>3, <1>4, <1>5 DEF LogInv

LEMMA LogNextInv == LogInv /\ [LogNext]_logvars => LogInv'
<1> SUFFICES ASSUME LogInv, [LogNext]_logvars PROVE LogInv'
  OBVIOUS
<1>1. /\ instance \in BOOLEAN /\ m_log_path \in Paths /\ m_base_file_name \in Bases
      /\ m_file_name \in Names /\ log_level \in Levels /\ second \in 0..MaxSeconds
      /\ sets \in 0..MaxSets /\ lines \in 0..MaxLines
      /\ pc \in [Threads -> Steps] /\ stream \in [Threads -> Buffers]
  BY DEF LogInv, LogTypeOK, Names, Buffers
<1>2. \A t \in Threads : Roomy(stream[t])
  BY DEF LogInv, StreamInv, Roomy
<1>3. MaxSeconds \in Nat /\ MaxSets \in Nat /\ second >= second
  BY <1>1, LogAssumption
<1>4. ASSUME NEW t \in Threads, NEW b \in Buffers, Roomy(b), stream' = [stream EXCEPT ![t] = b]
      PROVE  stream' \in [Threads -> Buffers] /\ \A u \in Threads : Roomy(stream'[u])
  BY <1>1, <1>2, <1>4
<1>5. m_file_name[2] <= second /\ m_file_name[2] \in Nat /\ m_file_name = <<m_file_name[1], m_file_name[2]>>
  BY <1>1, <1>3 DEF LogInv, NameInv, Names
<1>6. CASE UNCHANGED logvars
  <2>1. \A t \in Threads : ~instance => pc[t].at \in {"idle", "create"}
    BY DEF LogInv, StartInv
  <2>2. UNCHANGED <<log, files, lines, lost>> /\ pc' = pc /\ stream' = stream
        /\ second' = second /\ log_level' = log_level /\ sets' = sets
    BY <1>6 DEF logvars
  <2> QED
    BY <2>1, <2>2, <1>1, <1>2, <1>3, QuietStep
<1>7. CASE Tick
  <2>1. \A t \in Threads : ~instance => pc[t].at \in {"idle", "create"}
    BY DEF LogInv, StartInv
  <2>2. UNCHANGED <<log, files, lines, lost>> /\ pc' = pc /\ stream' = stream
        /\ log_level' = log_level /\ sets' = sets
    BY <1>7 DEF Tick
  <2>3. second' \in 0..MaxSeconds /\ second' >= second
    BY <1>1, <1>3, <1>7 DEF Tick
  <2> QED
    BY <2>1, <2>2, <2>3, <1>1, <1>2, QuietStep
<1>8. ASSUME NEW t \in Threads, SeesNone(t) PROVE LogInv'
  <2>1. UNCHANGED <<log, log_level, files, second, stream, lines, sets, lost>>
        /\ ~instance /\ pc' = [pc EXCEPT ![t] = [at |-> "create", arg |-> "none"]]
    BY <1>8 DEF SeesNone, Go
  <2>2. pc' \in [Threads -> Steps]
    BY <2>1, <1>1 DEF Steps
  <2>3. \A u \in Threads : pc'[u].at \in {"idle", "create"}
    BY <2>1, <1>1 DEF LogInv, StartInv
  <2> QED
    BY <2>1, <2>2, <2>3, <1>1, <1>2, <1>3, QuietStep
<1>9. ASSUME NEW t \in Threads, SetLogLevel(t) PROVE LogInv'
  <2>1. UNCHANGED <<log, files, second, pc, stream, lines, sets, lost>>
        /\ instance /\ log_level' \in Levels
    BY <1>9 DEF SetLogLevel, Ready
  <2> QED
    BY <2>1, <1>1, <1>2, <1>3, QuietStep
<1>10. ASSUME NEW t \in Threads, NEW p \in Paths, NEW asKept \in BOOLEAN, SetLogPath(t, p, asKept)
       PROVE  LogInv'
  <2>1. UNCHANGED <<log, log_level, files, second, stream, lines, lost>>
        /\ instance /\ sets < MaxSets /\ sets' = sets + 1
    BY <1>10 DEF SetLogPath, Ready
  <2>2. ASSUME NEW u \in Threads PROVE pc'[u] \in Steps
    <3>1. pc[u] \in Steps
      BY <1>1
    <3>2. u \in Splitting => pc[u].arg \in Paths
      BY <3>1 DEF Splitting, Steps
    <3>3. \/ u = t /\ pc'[u] \in [at : {"path", "mixed"}, arg : {p}]
          \/ u \in Splitting /\ pc'[u] = [at |-> "mixed", arg |-> pc[u].arg]
          \/ pc'[u] = pc[u]
      BY <1>10 DEF SetLogPath
    <3> QED
      BY <3>1, <3>2, <3>3 DEF Steps
  <2>3. DOMAIN pc' = Threads /\ pc' = [u \in Threads |-> pc'[u]]
    BY <1>10 DEF SetLogPath
  <2>4. pc' \in [Threads -> Steps]
    BY <2>2, <2>3
  <2>5. sets' \in 0..MaxSets
    BY <2>1, <1>1, <1>3
  <2> QED
    BY <2>1, <2>4, <2>5, <1>1, <1>2, <1>3, QuietStep
<1>11. ASSUME NEW t \in Threads, NEW level \in Levels, Statement(t, level) PROVE LogInv'
  <2>1. UNCHANGED <<log, log_level, files, second, lines, sets, lost>>
        /\ instance /\ stream' = [stream EXCEPT ![t] = Empty]
        /\ pc' = [pc EXCEPT ![t] = [at |-> "build", arg |-> "none"]]
    BY <1>11 DEF Statement, Ready, Go
  <2>2. pc' \in [Threads -> Steps]
    BY <2>1, <1>1 DEF Steps
  <2>3. stream' \in [Threads -> Buffers] /\ \A u \in Threads : Roomy(stream'[u])
    BY <2>1, <1>4, EmptyRoomy
  <2> QED
    BY <2>1, <2>2, <2>3, <1>1, <1>3, QuietStep
<1>12. ASSUME NEW t \in Threads, NEW n \in Pieces, Streams(t, n) PROVE LogInv'
  <2>1. UNCHANGED <<log, log_level, files, second, pc, lines, sets, lost>>
        /\ stream' = [stream EXCEPT ![t] = Appended(stream[t], n)] /\ pc[t].at = "build"
    BY <1>1, <1>12 DEF Streams, At
  <2>2. instance
    BY <2>1, Started
  <2>3. n \in Nat \ {0} /\ stream[t] \in Buffers /\ Roomy(stream[t])
    BY <1>1, <1>2, LogAssumption
  <2>4. stream' \in [Threads -> Buffers] /\ \A u \in Threads : Roomy(stream'[u])
    BY <2>1, <2>3, <1>4, AppendedRoomy
  <2> QED
    BY <2>1, <2>2, <2>4, <1>1, <1>3, QuietStep
<1>13. ASSUME NEW t \in Threads, NEW n \in 1..MaxNumber, StreamsNumber(t, n) PROVE LogInv'
  <2>1. UNCHANGED <<log, log_level, files, second, pc, lines, sets, lost>>
        /\ stream' = [stream EXCEPT ![t] = WithNumber(stream[t], n)] /\ pc[t].at = "build"
    BY <1>1, <1>13 DEF StreamsNumber, At
  <2>2. instance
    BY <2>1, Started
  <2>3. stream[t] \in Buffers /\ Roomy(stream[t])
    BY <1>1, <1>2
  <2>4. stream' \in [Threads -> Buffers] /\ \A u \in Threads : Roomy(stream'[u])
    BY <2>1, <2>3, <1>4, NumberRoomy
  <2> QED
    BY <2>1, <2>2, <2>4, <1>1, <1>3, QuietStep
<1>14. ASSUME NEW t \in Threads, Create(t) PROVE LogInv'
  <2>1. UNCHANGED <<m_log_path, m_base_file_name, log_level, second, stream, lines, sets, lost>>
        /\ pc' = [pc EXCEPT ![t] = IdleStep]
    BY <1>14 DEF Create, GoIdle
  <2>2. pc' \in [Threads -> Steps]
    BY <2>1, <1>1 DEF Steps, IdleStep
  <2>3. CASE instance
    <3>1. UNCHANGED <<instance, m_file_name, files>>
      BY <2>3, <1>14 DEF Create
    <3> QED
      BY <2>1, <2>2, <2>3, <3>1, <1>1, <1>2, <1>3, QuietStep DEF log
  <2>4. CASE ~instance
    <3>1. PICK nm : nm = <<m_base_file_name, second>>
      OBVIOUS
    <3>2. instance' = TRUE /\ m_file_name' = nm /\ files' = Reset(files, Plain(m_log_path, nm))
      BY <2>4, <3>1, <1>14 DEF Create
    <3>3. nm \in Names /\ nm[1] = m_base_file_name /\ nm[2] = second
      BY <3>1, <1>1 DEF Names
    <3>4. DOMAIN files = {}
      BY <2>4 DEF LogInv, StartInv
    <3>5. DirInv'
      <4>1. LinesOf(files, Plain(m_log_path, nm)) = {}
        BY <3>4 DEF LinesOf
      <4>2. lost' = lost \cup LinesOf(files, Plain(m_log_path, nm))
        BY <4>1, <2>1
      <4> QED
        BY <4>2, <2>1, <3>2, <3>3, <1>1, <1>5, OpenStep
    <3>6. NameInv'
      BY <2>1, <3>2, <3>3, <1>3 DEF NameInv
    <3> QED
      BY <2>1, <2>2, <3>2, <3>3, <3>5, <3>6, <1>1, <1>2, FileStep
  <2> QED
    BY <2>3, <2>4
<1>15. ASSUME NEW t \in Threads, AssignsPath(t) PROVE LogInv'
  <2>1. UNCHANGED <<instance, m_file_name, m_base_file_name, log_level, second, stream, lines, sets>>
        /\ pc' = [pc EXCEPT ![t] = IdleStep] /\ t \in Splitting
    BY <1>15 DEF AssignsPath, GoIdle
  <2>2. pc' \in [Threads -> Steps]
    BY <2>1, <1>1 DEF Steps, IdleStep
  <2>3. PICK p : p = m_log_path'
    OBVIOUS
  <2>4. p \in Paths
    <3>1. pc[t] \in Steps
      BY <1>1
    <3>2. pc[t].arg \in Paths
      BY <2>1, <3>1 DEF Steps, Splitting
    <3> QED
      BY <2>3, <3>2, <1>15 DEF AssignsPath
  <2>5. /\ files' = Reset(files, Plain(p, m_file_name))
        /\ lost' = lost \cup LinesOf(files, Plain(p, m_file_name))
    BY <2>3, <1>15 DEF AssignsPath, Opens
  <2>6. instance
    BY <2>1, Started DEF Splitting
  <2>7. DirInv'
    BY <2>1, <2>4, <2>5, <1>1, <1>5, OpenStep
  <2>8. NameInv'
    BY <2>1 DEF LogInv, NameInv
  <2>9. instance' = TRUE
    BY <2>1, <2>6, <1>1
  <2> QED
    BY <2>1, <2>2, <2>3, <2>4, <2>7, <2>8, <2>9, <1>1, <1>2, FileStep
<1>16. ASSUME NEW t \in Threads, NEW b \in Bases, SetBaseLogName(t, b) PROVE LogInv'
  <2>1. UNCHANGED <<instance, m_log_path, log_level, second, pc, stream, lines>>
        /\ instance /\ sets < MaxSets /\ sets' = sets + 1 /\ m_base_file_name' = b
    BY <1>16 DEF SetBaseLogName, Ready
  <2>2. PICK nm : nm = <<b, second>>
    OBVIOUS
  <2>3. /\ m_file_name' = nm /\ files' = Reset(files, Plain(m_log_path, nm))
        /\ lost' = lost \cup LinesOf(files, Plain(m_log_path, nm))
    BY <2>2, <1>16 DEF SetBaseLogName, Opens
  <2>4. nm \in Names /\ nm[1] = b /\ nm[2] = second
    BY <2>2, <1>1 DEF Names
  <2>5. sets' \in 0..MaxSets
    BY <2>1, <1>1, <1>3
  <2>6. DirInv'
    BY <2>1, <2>3, <2>4, <1>1, <1>5, OpenStep
  <2>7. NameInv'
    BY <2>1, <2>3, <2>4, <1>3 DEF NameInv
  <2>8. instance' = TRUE
    BY <2>1, <1>1
  <2> QED
    BY <2>1, <2>3, <2>4, <2>5, <2>6, <2>7, <2>8, <1>1, <1>2, FileStep
<1>17. ASSUME WriteLine, instance, pc' \in [Threads -> Steps], stream' \in [Threads -> Buffers],
              \A t \in Threads : Roomy(stream'[t])
       PROVE  LogInv'
  <2>1. UNCHANGED <<instance, m_log_path, m_base_file_name, log_level, second, sets>>
    BY <1>17 DEF WriteLine
  <2>2. /\ DirInv' /\ NameInv'
        /\ m_file_name' \in Names /\ lines' \in 0..MaxLines
    BY <1>17, WriteStep
  <2>3. instance' = TRUE
    BY <2>1, <1>1, <1>17
  <2> QED
    BY <2>1, <2>2, <2>3, <1>1, <1>17, FileStep
<1>18. ASSUME NEW t \in Threads, Sprintf(t) PROVE LogInv'
  BY <1>1, <1>2, <1>17, <1>18 DEF Sprintf, Ready
<1>19. ASSUME NEW t \in Threads, Output(t) PROVE LogInv'
  <2>1. WriteLine /\ pc[t].at = "build" /\ pc' = [pc EXCEPT ![t] = IdleStep]
        /\ stream' = [stream EXCEPT ![t] = Empty]
    BY <1>19 DEF Output, At, GoIdle
  <2>2. instance
    BY <2>1, Started
  <2>3. pc' \in [Threads -> Steps]
    BY <2>1, <1>1 DEF Steps, IdleStep
  <2>4. stream' \in [Threads -> Buffers] /\ \A u \in Threads : Roomy(stream'[u])
    BY <2>1, <1>4, EmptyRoomy
  <2> QED
    BY <2>1, <2>2, <2>3, <2>4, <1>17
<1> QED
  BY <1>6, <1>7, <1>8, <1>9, <1>10, <1>11, <1>12, <1>13, <1>14, <1>15, <1>16, <1>18, <1>19 DEF LogNext

\* The invariant above holds in every reachable state of the logger.
THEOREM LogSafety == LogSpec => []LogInv
BY LogInitInv, LogNextInv, PTL DEF LogSpec

\* Every variable of the logger keeps its type.
THEOREM LogTypes == LogSpec => []LogTypeOK
<1>1. LogInv => LogTypeOK
  BY DEF LogInv
<1> QED
  BY <1>1, LogSafety, PTL

\* A line is in one file, once looked for, unless it was to be lost.
LEMMA HeldOnce ==
  ASSUME LogInv, NEW n \in 1..lines
  PROVE  Cardinality(Holders(n)) = IF n \in lost THEN 0 ELSE 1
<1>1. (\E f \in DOMAIN files : Has(files[f], n)) <=> n \notin lost
  BY DEF LogInv, DirInv, Kept
<1>2. CASE n \in lost
  <2>1. Holders(n) = {}
    BY <1>1, <1>2 DEF Holders, Has
  <2> QED
    BY <1>2, <2>1, FS_EmptySet
<1>3. CASE n \notin lost
  <2>1. PICK f \in DOMAIN files : Has(files[f], n)
    BY <1>1, <1>3
  <2>2. ASSUME NEW g \in DOMAIN files, Has(files[g], n) PROVE g = f
    BY <2>1, <2>2 DEF LogInv, DirInv, Single
  <2>3. Holders(n) = {f}
    BY <2>1, <2>2 DEF Holders, Has
  <2> QED
    BY <1>3, <2>3, FS_Singleton
<1> QED
  BY <1>2, <1>3

\* Each line written is in exactly one file, unless its file was opened again or was
\* the .1 of a roll that found a .2: then, and only then, it is in none.
THEOREM LogLinesKept == LogSpec => []LinesKept
<1>1. LogInv => LinesKept
  BY HeldOnce DEF LinesKept
<1> QED
  BY <1>1, LogSafety, PTL

\* log.N, ..., log.1, log read one after the other are the log, whatever of it is lost.
THEOREM LogOlderIsHigher == LogSpec => []OlderIsHigher
<1>1. LogInv => OlderIsHigher
  BY DEF LogInv, DirInv, Ordered, OlderIsHigher, Increasing, SameLog, AllBefore, Ascending
<1> QED
  BY <1>1, LogSafety, PTL

\* A buffer below its limit has room for the zero and holds all that was streamed but
\* the numbers it left out.
THEOREM LogRoomForZero == LogSpec => []RoomForZero
<1>1. LogInv => RoomForZero
  BY DEF LogInv, StreamInv, RoomForZero
<1> QED
  BY <1>1, LogSafety, PTL
=============================================================================
