------------------------- MODULE ClientFacadeProofs -------------------------
(***************************************************************************)
(* Proofs about ClientFacade for any number of listeners and calls and any *)
(* depth of nested news.                                                   *)
(***************************************************************************)
EXTENDS ClientFacade, TLAPS

-----------------------------------------------------------------------------
\* What the steps share.

LEMMA TailSeq ==
  ASSUME NEW S, NEW q \in Seq(S), q # <<>>
  PROVE  /\ Tail(q) \in Seq(S) /\ Head(q) \in S /\ Head(q) = q[1]
         /\ DOMAIN q = 1..Len(q) /\ DOMAIN Tail(q) = 1..(Len(q) - 1) /\ Len(q) \in Nat \ {0}
         /\ \A i \in 1..(Len(q) - 1) : Tail(q)[i] = q[i + 1]
<1>1. Len(q) \in Nat \ {0} /\ Len(Tail(q)) = Len(q) - 1 /\ Tail(q) \in Seq(S)
  OBVIOUS
<1>2. Head(q) \in S /\ Head(q) = q[1] /\ DOMAIN q = 1..Len(q)
  BY <1>1
<1>3. DOMAIN Tail(q) = 1..(Len(q) - 1)
  BY <1>1
<1>4. \A i \in 1..(Len(q) - 1) : Tail(q)[i] = q[i + 1]
  BY <1>1
<1> QED
  BY <1>1, <1>2, <1>3, <1>4

LEMMA AppendSeq ==
  ASSUME NEW S, NEW q \in Seq(S), NEW e \in S
  PROVE  Append(q, e) \in Seq(S)
OBVIOUS

LEMMA EmptySeq ==
  ASSUME NEW S
  PROVE  <<>> \in Seq(S)
OBVIOUS

LEMMA ExceptSeq ==
  ASSUME NEW S, NEW q \in Seq(S), NEW n \in DOMAIN q, NEW e \in S
  PROVE  [q EXCEPT ![n] = e] \in Seq(S)
OBVIOUS

LEMMA FrontSeq ==
  ASSUME NEW S, NEW q \in Seq(S), q # <<>>
  PROVE  Front(q) \in Seq(S) /\ Last(q) \in S /\ Len(q) \in Nat \ {0}
<1>1. Len(q) \in Nat \ {0} /\ Len(q) \in DOMAIN q
  OBVIOUS
<1>2. SubSeq(q, 1, Len(q) - 1) \in Seq(S)
  BY <1>1
<1> QED
  BY <1>1, <1>2 DEF Front, Last

LEMMA MsgType ==
  ASSUME NEW n \in News \cup {"unknown", "info"}
  PROVE  Msg(n) \in Messages /\ Msg(n).msg = n
BY DEF Msg, Messages

\* A message other than an answer is nothing but its name.
LEMMA MsgExact ==
  ASSUME NEW e \in Messages, e.msg # "answer"
  PROVE  e = Msg(e.msg)
BY DEF Messages, Msg

LEMMA PostType ==
  ASSUME posted \in Seq(Messages), NEW m \in Seq(Messages), Post(m)
  PROVE  posted' \in Seq(Messages)
BY DEF Post

LEMMA BeginType ==
  ASSUME stack \in Seq(FrameType), NEW n \in News \cup {"info"}, Begin(n)
  PROVE  stack' \in Seq(FrameType)
<1>1. [what |-> n, at |-> 1, inside |-> FALSE] \in FrameType
  BY DEF FrameType
<1> QED
  BY <1>1, AppendSeq DEF Begin

LEMMA HandledType ==
  ASSUME posted \in Seq(Messages), NEW m, CanHandle(m)
  PROVE  posted # <<>> /\ Tail(posted) \in Seq(Messages) /\ Head(posted) \in Messages
<1>1. posted # <<>>
  BY DEF CanHandle
<1> QED
  BY <1>1, TailSeq

-----------------------------------------------------------------------------
(***************************************************************************)
(* Type correctness.                                                       *)
(***************************************************************************)

ClientType ==
  /\ instance \in {"none", "there", "leaked"}
  /\ m_pClientNotify \in Listeners \cup {NoListener} /\ m_listClientNotify \in Seq(Listeners)
  /\ m_bConnected \in BOOLEAN

SocketType ==
  /\ state \in {"unconnected", "connecting", "connected"} /\ posted \in Seq(Messages)
  /\ m_cobs \subseteq Calls

StackType == stack \in Seq(FrameType) /\ undefined \in BOOLEAN

HistoryType ==
  /\ made \subseteq Calls /\ attempts \in Nat /\ infos \in Nat
  /\ said \in [Listeners -> News \cup {"none"}]
  /\ asked \in BOOLEAN /\ cut \in BOOLEAN /\ nested \in BOOLEAN

LEMMA TypeParts == TypeOK <=> ClientType /\ SocketType /\ StackType /\ HistoryType
BY DEF TypeOK, ClientType, SocketType, StackType, HistoryType

LEMMA TypeInit == Init => TypeOK
<1> SUFFICES ASSUME Init PROVE TypeOK
  OBVIOUS
<1>1. ClientType /\ SocketType /\ StackType
  BY EmptySeq DEF Init, ClientType, SocketType, StackType
<1>2. HistoryType
  BY DEF Init, HistoryType
<1> QED
  BY <1>1, <1>2, TypeParts

LEMMA ClosedType ==
  ASSUME SocketType, HistoryType, Closed
  PROVE  SocketType' /\ cut' \in BOOLEAN
BY DEF SocketType, HistoryType, Closed

LEMMA TypeApplication ==
  ASSUME TypeOK, Application
  PROVE  TypeOK'
<1> USE DEF client, socket, counts, history
<1>0. ClientType /\ SocketType /\ StackType /\ HistoryType
  BY TypeParts
<1>1. ASSUME NEW l \in Listeners, InitInstance(l) PROVE TypeOK'
  <2>1. Register(l) \in Seq(Listeners)
    BY <1>0, AppendSeq DEF Register, ClientType
  <2>2. ClientType'
    BY <1>0, <1>1, <2>1 DEF InitInstance, ClientType
  <2>3. SocketType'
    BY <1>0, <1>1, EmptySeq DEF InitInstance, SocketType
  <2>4. StackType' /\ HistoryType'
    BY <1>0, <1>1 DEF InitInstance, StackType, HistoryType
  <2> QED
    BY <2>2, <2>3, <2>4, TypeParts DEF TypeOK, ClientType, SocketType, StackType, HistoryType
<1>2. ASSUME NEW c \in Calls, CallMade(c) PROVE TypeOK'
  BY <1>2 DEF CallMade, TypeOK
<1>3. CASE Release
  BY <1>3, EmptySeq DEF Release, TypeOK
<1> QED
  BY <1>1, <1>2, <1>3 DEF Application

LEMMA TypeEnvironment ==
  ASSUME TypeOK,
         Worker \/ WorkerLoses \/ (\E c \in Calls : Answers(c)) \/ Broadcasts \/ LeakedUse
  PROVE  TypeOK'
<1> USE DEF client, socket, counts, history
<1>1. ASSUME NEW m \in Seq(Messages), Post(m), m_cobs' = m_cobs, Environment, infos' \in Nat,
             state' \in {"unconnected", "connecting", "connected"}
      PROVE  TypeOK'
  <2>1. posted' \in Seq(Messages)
    BY <1>1, PostType DEF TypeOK
  <2> QED
    BY <1>1, <2>1 DEF Environment, TypeOK
<1>2. \A n \in News \cup {"unknown", "info"} : <<Msg(n)>> \in Seq(Messages)
  BY MsgType
<1>3. \A n, o \in News \cup {"unknown", "info"} : <<Msg(n), Msg(o)>> \in Seq(Messages)
  BY MsgType
<1>4. ASSUME NEW c \in Calls PROVE <<[msg |-> "answer", call |-> c]>> \in Seq(Messages)
  <2>1. [msg |-> "answer", call |-> c] \in Messages
    BY DEF Messages
  <2> QED
    BY <2>1
<1>5. CASE WorkerConnects
  BY <1>1, <1>2, <1>5 DEF WorkerConnects, News, TypeOK
<1>6. CASE WorkerFails
  BY <1>1, <1>2, <1>3, <1>6 DEF WorkerFails, News, TypeOK
<1>7. CASE WorkerLoses
  BY <1>1, <1>3, <1>7 DEF WorkerLoses, News, TypeOK
<1>8. ASSUME NEW c \in Calls, Answers(c) PROVE TypeOK'
  BY <1>1, <1>4, <1>8 DEF Answers, TypeOK
<1>9. CASE Broadcasts
  <2>1. infos' \in Nat /\ state' \in {"unconnected", "connecting", "connected"}
    BY <1>9 DEF Broadcasts, TypeOK
  <2> QED
    BY <1>1, <1>2, <1>9, <2>1 DEF Broadcasts
<1>10. CASE LeakedUse
  BY <1>10 DEF LeakedUse, TypeOK
<1> QED
  BY <1>5, <1>6, <1>7, <1>8, <1>9, <1>10 DEF Worker

LEMMA TypeHandle ==
  ASSUME TypeOK, Handle
  PROVE  TypeOK'
<1> USE DEF client, socket, counts, history
<1>0. ClientType /\ SocketType /\ StackType /\ HistoryType
  BY TypeParts
<1>1. ASSUME NEW n \in News, CanHandle(n), posted' = Tail(posted), Begin(n), Heard,
             UNCHANGED <<client, state, undefined, counts>>, m_bConnected' \in BOOLEAN, m_cobs' \subseteq Calls
      PROVE  TypeOK'
  <2>1. posted' \in Seq(Messages) /\ stack' \in Seq(FrameType)
    BY <1>0, <1>1, HandledType, BeginType DEF SocketType, StackType
  <2> QED
    BY <1>1, <2>1 DEF Heard, TypeOK
<1>2. CASE HandleConnected
  BY <1>1, <1>2 DEF HandleConnected, News, TypeOK
<1>3. CASE HandleDisconnected
  BY <1>1, <1>3 DEF HandleDisconnected, ResetFlag, News
<1>4. CASE HandleNotFound
  BY <1>1, <1>4 DEF HandleNotFound, News, TypeOK
<1>5. CASE HandleUnknown \/ DataInInfo
  <2>1. SocketType' /\ cut' \in BOOLEAN
    BY <1>0, <1>5, ClosedType DEF HandleUnknown, DataInInfo
  <2> QED
    BY <1>5, <2>1 DEF HandleUnknown, DataInInfo, SocketType, TypeOK
<1>6. ASSUME NEW c \in Calls, HandleAnswer(c) PROVE TypeOK'
  <2>1. posted' \in Seq(Messages)
    BY <1>0, <1>6, HandledType DEF HandleAnswer, SocketType
  <2>2. [what |-> "answer", at |-> 1, inside |-> TRUE] \in FrameType
    BY DEF FrameType
  <2>3. stack' \in Seq(FrameType)
    BY <1>0, <1>6, <2>2, AppendSeq DEF HandleAnswer, StackType
  <2> QED
    BY <1>6, <2>1, <2>3 DEF HandleAnswer, TypeOK
<1>7. CASE HandleInfo
  <2>1. posted' \in Seq(Messages) /\ stack' \in Seq(FrameType)
    BY <1>0, <1>7, HandledType, BeginType DEF HandleInfo, SocketType, StackType
  <2> QED
    BY <1>7, <2>1 DEF HandleInfo, TypeOK
<1> QED
  BY <1>2, <1>3, <1>4, <1>5, <1>6, <1>7 DEF Handle

LEMMA TypeLoops ==
  ASSUME TypeOK, Loops
  PROVE  TypeOK'
<1> USE DEF client, socket, counts, history
<1>0. ClientType /\ SocketType /\ StackType /\ HistoryType
  BY TypeParts
<1>1. stack # <<>>
  BY DEF Loops, NextListener, ListenerReturns, AllTold, InListener
<1>2. Front(stack) \in Seq(FrameType) /\ Top \in FrameType /\ Len(stack) \in Nat \ {0}
  BY <1>0, <1>1, FrontSeq DEF StackType, Top
<1>3. CASE NextListener
  <2>1. stack' \in Seq(FrameType)
    <3>1. [Top EXCEPT !.inside = TRUE] \in FrameType
      BY <1>2 DEF FrameType
    <3>2. stack' = [stack EXCEPT ![Len(stack)] = [Top EXCEPT !.inside = TRUE]]
      BY <1>3 DEF NextListener, Top, Last
    <3> QED
      BY <1>0, <1>2, <3>1, <3>2, ExceptSeq DEF StackType
  <2>2. said' \in [Listeners -> News \cup {"none"}]
    BY <1>0, <1>2, <1>3 DEF NextListener, HistoryType
  <2> QED
    BY <1>3, <2>1, <2>2 DEF NextListener, TypeOK
<1>4. CASE ListenerReturns
  <2>1. stack' \in Seq(FrameType)
    <3>1. [Top EXCEPT !.inside = FALSE, !.at = Top.at + 1] \in FrameType
      <4>1. \A f \in FrameType, b \in BOOLEAN : [f EXCEPT !.inside = b] \in FrameType
        BY DEF FrameType
      <4>2. \A f \in FrameType, n \in Nat : [f EXCEPT !.at = n] \in FrameType
        BY DEF FrameType
      <4>3. [Top EXCEPT !.inside = FALSE, !.at = Top.at + 1]
              = [[Top EXCEPT !.inside = FALSE] EXCEPT !.at = Top.at + 1]
        OBVIOUS
      <4>4. Top.at + 1 \in Nat
        BY <1>2 DEF FrameType
      <4> QED
        BY <1>2, <4>1, <4>2, <4>3, <4>4
    <3>2. stack' = [stack EXCEPT ![Len(stack)] = [Top EXCEPT !.inside = FALSE, !.at = Top.at + 1]]
      BY <1>0, <1>2, <1>4 DEF ListenerReturns, Top, Last, StackType
    <3> QED
      BY <1>0, <1>2, <3>1, <3>2, ExceptSeq DEF StackType
  <2> QED
    BY <1>4, <2>1 DEF ListenerReturns, TypeOK
<1>5. CASE AllTold
  <2>1. SocketType' /\ cut' \in BOOLEAN
    BY <1>0, <1>5, ClosedType DEF AllTold, SocketType, HistoryType
  <2> QED
    BY <1>2, <1>5, <2>1 DEF AllTold, SocketType, TypeOK
<1> QED
  BY <1>3, <1>4, <1>5 DEF Loops

LEMMA TypeStep == TypeOK /\ [Next]_vars => TypeOK'
<1> SUFFICES ASSUME TypeOK, [Next]_vars PROVE TypeOK'
  OBVIOUS
<1>1. CASE UNCHANGED vars
  BY <1>1 DEF vars, client, socket, counts, history, TypeOK
<1> QED
  BY <1>1, TypeApplication, TypeEnvironment, TypeHandle, TypeLoops DEF Next

\* The client keeps the types of its variables in every reachable state.
THEOREM TypeCorrect == Spec => []TypeOK
BY TypeInit, TypeStep, PTL DEF Spec

-----------------------------------------------------------------------------
(***************************************************************************)
(* The connected flag and the socket.                                      *)
(***************************************************************************)

\* Nothing is behind a client that does not exist; an attempt starts with nothing
\* posted; the loss of a connection is posted after the news that it was made.
Unborn == instance = "none" => state = "unconnected" /\ posted = <<>> /\ ~m_bConnected

Attempting == state = "connecting" => posted = <<>> /\ ~m_bConnected

NoLossYet ==
  state = "connected" =>
    \A i \in DOMAIN posted : posted[i] \notin {Msg("disconnected"), Msg("notfound")}

LossFollows ==
  state = "unconnected" =>
    \A i \in DOMAIN posted : posted[i] = Msg("connected") =>
      \E j \in DOMAIN posted : j > i /\ posted[j] = Msg("disconnected")

Following ==
  /\ m_bConnected /\ state # "connected" => \E i \in DOMAIN posted : posted[i] = Msg("disconnected")
  /\ ~m_bConnected /\ state = "connected" => \E i \in DOMAIN posted : posted[i] = Msg("connected")

FlagInv ==
  /\ Unborn
  /\ instance = "there" /\ ~cut => Attempting /\ NoLossYet /\ LossFollows /\ Following

LEMMA Different ==
  /\ Msg("connected") # Msg("disconnected") /\ Msg("connected") # Msg("notfound")
  /\ \A n \in {"unknown", "info"}, o \in News : Msg(n) # Msg(o)
  /\ \A c \in Calls, n \in News : [msg |-> "answer", call |-> c] # Msg(n)
BY DEF Msg, News

\* Nothing is posted and the flag is down.
LEMMA FlagFresh ==
  ASSUME posted' = <<>>, ~m_bConnected',
         state' = "unconnected" \/ (state' = "connecting" /\ instance' = "there")
  PROVE  FlagInv'
BY DEF FlagInv, Unborn, Attempting, NoLossYet, LossFollows, Following

LEMMA FlagClosed ==
  ASSUME TypeOK, FlagInv, Closed, instance = "there", UNCHANGED <<client, m_bConnected>>
  PROVE  FlagInv'
<1>1. CASE cut'
  BY <1>1 DEF FlagInv, Unborn, client
<1>2. CASE ~cut'
  <2>1. ~cut /\ state = "unconnected" /\ ~ \E i \in DOMAIN posted : posted[i] = Msg("disconnected")
    BY <1>2 DEF Closed, Range, News, TypeOK
  <2>2. ~m_bConnected
    BY <2>1 DEF FlagInv, Following
  <2> QED
    BY <2>2, FlagFresh DEF Closed
<1> QED
  BY <1>1, <1>2 DEF Closed

\* Handling a message.
LEMMA FlagHandled ==
  ASSUME TypeOK, FlagInv, instance = "there", posted # <<>>, posted' = Tail(posted),
         UNCHANGED <<instance, state, cut>>, m_bConnected' \in BOOLEAN,
         \/ Head(posted) = Msg("connected") /\ m_bConnected'
         \/ Head(posted) \in {Msg("disconnected"), Msg("notfound")} /\ ~m_bConnected'
         \/ (\A n \in News : Head(posted) # Msg(n)) /\ m_bConnected' = m_bConnected
  PROVE  FlagInv'
<1>1. /\ DOMAIN posted = 1..Len(posted) /\ DOMAIN posted' = 1..(Len(posted) - 1)
      /\ Len(posted) \in Nat \ {0} /\ Head(posted) = posted[1]
      /\ \A i \in 1..(Len(posted) - 1) : posted'[i] = posted[i + 1]
  BY TailSeq DEF TypeOK
<1>2. \A i \in DOMAIN posted \ {1} : i - 1 \in DOMAIN posted' /\ posted'[i - 1] = posted[i]
  BY <1>1
<1>3. \A i \in DOMAIN posted' : i + 1 \in DOMAIN posted /\ posted'[i] = posted[i + 1]
  BY <1>1
<1> SUFFICES ASSUME ~cut PROVE FlagInv'
  BY DEF FlagInv, Unborn
<1>4. Attempting /\ NoLossYet /\ LossFollows /\ Following
  BY DEF FlagInv
<1>5. state # "connecting"
  BY <1>4 DEF Attempting
<1>6. NoLossYet'
  BY <1>3, <1>4 DEF NoLossYet
<1>7. LossFollows'
  <2> SUFFICES ASSUME state = "unconnected", NEW i \in DOMAIN posted', posted'[i] = Msg("connected")
               PROVE  \E j \in DOMAIN posted' : j > i /\ posted'[j] = Msg("disconnected")
    BY DEF LossFollows
  <2>1. PICK j \in DOMAIN posted : j > i + 1 /\ posted[j] = Msg("disconnected")
    BY <1>3, <1>4 DEF LossFollows
  <2>2. j - 1 \in DOMAIN posted' /\ j - 1 > i /\ posted'[j - 1] = Msg("disconnected")
    BY <1>1, <1>2, <2>1
  <2> QED
    BY <2>2
<1>8. Following'
  <2>1. CASE Head(posted) = Msg("connected") /\ m_bConnected'
    <3>1. SUFFICES ASSUME state = "unconnected"
                   PROVE  \E i \in DOMAIN posted' : posted'[i] = Msg("disconnected")
      BY <1>5, <2>1 DEF Following, TypeOK
    <3>2. PICK j \in DOMAIN posted : j > 1 /\ posted[j] = Msg("disconnected")
      BY <1>1, <1>4, <2>1, <3>1 DEF LossFollows
    <3> QED
      BY <1>2, <3>2
  <2>2. CASE Head(posted) \in {Msg("disconnected"), Msg("notfound")} /\ ~m_bConnected'
    <3>1. state # "connected"
      BY <1>1, <1>4, <2>2 DEF NoLossYet
    <3> QED
      BY <2>2, <3>1 DEF Following
  <2>3. CASE (\A n \in News : Head(posted) # Msg(n)) /\ m_bConnected' = m_bConnected
    <3>1. posted[1] # Msg("connected") /\ posted[1] # Msg("disconnected")
      BY <1>1, <2>3 DEF News
    <3> QED
      BY <1>2, <1>4, <2>3, <3>1 DEF Following
  <2> QED
    BY <2>1, <2>2, <2>3
<1> QED
  BY <1>5, <1>6, <1>7, <1>8 DEF FlagInv, Unborn, Attempting

LEMMA HandledMessage ==
  ASSUME TypeOK, NEW m, CanHandle(m)
  PROVE  /\ instance = "there" /\ posted # <<>>
         /\ m # "answer" => Head(posted) = Msg(m)
         /\ m = "answer" => \A n \in News : Head(posted) # Msg(n)
<1>1. posted # <<>> /\ Head(posted).msg = m /\ instance = "there" /\ Head(posted) \in Messages
  BY HandledType DEF CanHandle, TypeOK
<1>2. \A n \in News : Msg(n).msg = n /\ n # "answer"
  BY MsgType DEF News
<1> QED
  BY <1>1, <1>2, MsgExact

LEMMA FlagHandle ==
  ASSUME TypeOK, FlagInv, Handle
  PROVE  FlagInv'
<1> USE DEF client, socket, counts, history
<1>1. CASE HandleConnected
  BY <1>1, HandledMessage, FlagHandled DEF HandleConnected, Heard
<1>2. CASE HandleDisconnected
  BY <1>2, HandledMessage, FlagHandled DEF HandleDisconnected, ResetFlag, Heard
<1>3. CASE HandleNotFound
  BY <1>3, HandledMessage, FlagHandled DEF HandleNotFound, Heard
<1>4. CASE HandleUnknown \/ DataInInfo
  BY <1>4, FlagClosed DEF HandleUnknown, DataInInfo, CanHandle
<1>5. ASSUME NEW c \in Calls, HandleAnswer(c) PROVE FlagInv'
  BY <1>5, HandledMessage, FlagHandled DEF HandleAnswer, TypeOK
<1>6. CASE HandleInfo
  <2>1. CanHandle("info") /\ \A n \in News : Msg("info") # Msg(n)
    BY <1>6, Different DEF HandleInfo
  <2> QED
    BY <1>6, <2>1, HandledMessage, FlagHandled DEF HandleInfo, TypeOK
<1> QED
  BY <1>1, <1>2, <1>3, <1>4, <1>5, <1>6 DEF Handle

\* The worker and the server only add to what is posted.
LEMMA FlagEnvironment ==
  ASSUME TypeOK, FlagInv, Worker \/ WorkerLoses \/ (\E c \in Calls : Answers(c)) \/ Broadcasts
  PROVE  FlagInv'
<1> USE DEF client, socket, counts, history
<1>1. UNCHANGED <<instance, m_bConnected, cut>> /\ state # "unconnected"
  BY DEF Worker, WorkerConnects, WorkerFails, WorkerLoses, Answers, Broadcasts, Environment
<1> SUFFICES ASSUME instance = "there", ~cut PROVE FlagInv'
  BY <1>1 DEF FlagInv, Unborn
<1>2. Attempting /\ NoLossYet /\ Following
  BY DEF FlagInv
<1>3. posted \in Seq(Messages) /\ Len(posted) \in Nat
  BY DEF TypeOK
<1>4. CASE WorkerConnects
  <2>1. posted' = <<Msg("connected")>> /\ state' = "connected" /\ ~m_bConnected'
    BY <1>1, <1>2, <1>4 DEF WorkerConnects, Attempting, Post
  <2>2. DOMAIN posted' = {1} /\ posted'[1] = Msg("connected")
    BY <2>1
  <2> QED
    BY <1>1, <2>1, <2>2, Different DEF FlagInv, Unborn, Attempting, NoLossYet, LossFollows, Following
<1>5. CASE WorkerFails
  <2>1. /\ posted' = <<Msg("notfound")>> \/ posted' = <<Msg("notfound"), Msg("unknown")>>
        /\ state' = "unconnected" /\ ~m_bConnected'
    BY <1>1, <1>2, <1>5 DEF WorkerFails, Attempting, Post
  <2>2. \A i \in DOMAIN posted' : posted'[i] \in {Msg("notfound"), Msg("unknown")}
    BY <2>1
  <2>3. Msg("connected") \notin {Msg("notfound"), Msg("unknown")}
    BY Different DEF News
  <2> QED
    BY <1>1, <2>1, <2>2, <2>3 DEF FlagInv, Unborn, Attempting, NoLossYet, LossFollows, Following
<1>6. CASE WorkerLoses
  <2>1. posted' = posted \o <<Msg("disconnected"), Msg("unknown")>> /\ state' = "unconnected"
    BY <1>6 DEF WorkerLoses, Post
  <2>2. /\ Len(posted) + 1 \in DOMAIN posted' /\ posted'[Len(posted) + 1] = Msg("disconnected")
        /\ DOMAIN posted' = 1..(Len(posted) + 2) /\ posted'[Len(posted) + 2] = Msg("unknown")
    BY <1>3, <2>1
  <2>3. \A i \in DOMAIN posted' : posted'[i] = Msg("connected") => i < Len(posted) + 1
    BY <1>3, <2>2, Different DEF News
  <2> QED
    BY <1>1, <2>1, <2>2, <2>3 DEF FlagInv, Unborn, Attempting, NoLossYet, LossFollows, Following
<1>7. ASSUME NEW m, Post(<<m>>), \A n \in News : m # Msg(n), state = "connected", state' = state
      PROVE  FlagInv'
  <2>1. /\ DOMAIN posted' = 1..(Len(posted) + 1) /\ posted'[Len(posted) + 1] = m
        /\ \A i \in 1..Len(posted) : posted'[i] = posted[i]
    BY <1>3, <1>7 DEF Post
  <2>2. NoLossYet'
    BY <1>2, <1>3, <1>7, <2>1 DEF NoLossYet, News
  <2>3. Following'
    BY <1>1, <1>2, <1>3, <1>7, <2>1 DEF Following
  <2> QED
    BY <1>1, <1>7, <2>2, <2>3 DEF FlagInv, Unborn, Attempting, LossFollows
<1>8. ASSUME NEW c \in Calls, Answers(c) PROVE FlagInv'
  <2>1. \A n \in News : [msg |-> "answer", call |-> c] # Msg(n)
    BY Different
  <2> QED
    BY <1>7, <1>8, <2>1 DEF Answers
<1>9. CASE Broadcasts
  BY <1>7, <1>9, Different DEF Broadcasts
<1> QED
  BY <1>4, <1>5, <1>6, <1>8, <1>9 DEF Worker

LEMMA FlagApplication ==
  ASSUME TypeOK, FlagInv, Application
  PROVE  FlagInv'
<1> USE DEF client, socket, counts, history
<1>1. ASSUME NEW l \in Listeners, InitInstance(l) PROVE FlagInv'
  <2>1. CASE Connects
    BY <1>1, <2>1, FlagFresh DEF InitInstance, Connects
  <2>2. CASE ~Connects
    BY <1>1, <2>2 DEF InitInstance, Connects, FlagInv, Unborn, Attempting, NoLossYet, LossFollows,
       Following, TypeOK
  <2> QED
    BY <2>1, <2>2
<1>2. ASSUME UNCHANGED <<instance, m_bConnected, state, posted, cut>> PROVE FlagInv'
  BY <1>2 DEF FlagInv, Unborn, Attempting, NoLossYet, LossFollows, Following
<1>3. ASSUME NEW c \in Calls, CallMade(c) PROVE FlagInv'
  BY <1>2, <1>3 DEF CallMade
<1>4. CASE Release
  BY <1>4 DEF Release, FlagInv, Unborn
<1> QED
  BY <1>1, <1>3, <1>4 DEF Application

LEMMA FlagStep == TypeOK /\ FlagInv /\ [Next]_vars => FlagInv'
<1> SUFFICES ASSUME TypeOK, FlagInv, [Next]_vars PROVE FlagInv'
  OBVIOUS
<1> USE DEF client, socket, counts, history
<1>1. ASSUME UNCHANGED <<instance, m_bConnected, state, posted, cut>> PROVE FlagInv'
  BY <1>1 DEF FlagInv, Unborn, Attempting, NoLossYet, LossFollows, Following
<1>2. CASE Loops
  <2>1. CASE NextListener \/ ListenerReturns
    BY <1>1, <2>1 DEF NextListener, ListenerReturns
  <2>2. CASE AllTold /\ instance = "there"
    BY <1>1, <2>2, FlagClosed DEF AllTold
  <2>3. CASE AllTold /\ instance # "there"
    BY <2>3 DEF AllTold, FlagInv, Unborn, Closed
  <2> QED
    BY <1>2, <2>1, <2>2, <2>3 DEF Loops
<1>3. CASE UNCHANGED vars \/ LeakedUse
  BY <1>1, <1>3 DEF vars, LeakedUse
<1> QED
  BY <1>2, <1>3, FlagApplication, FlagEnvironment, FlagHandle DEF Next

\* Whatever listeners do inside the news, the flag that decides whether the client
\* connects agrees with the socket or will be put right by a posted message.
THEOREM FlagAndSocket == Spec => []FlagFollowsSocket
<1>1. Init => FlagInv
  BY DEF Init, FlagInv, Unborn
<1>2. FlagInv => FlagFollowsSocket
  <2> SUFFICES ASSUME FlagInv, instance = "there", ~cut
               PROVE  /\ m_bConnected /\ state # "connected" => Msg("disconnected") \in Range(posted)
                      /\ ~m_bConnected /\ state = "connected" => Msg("connected") \in Range(posted)
    BY DEF FlagFollowsSocket
  <2>1. Following
    BY DEF FlagInv
  <2> QED
    BY <2>1 DEF Following, Range
<1> QED
  BY <1>1, <1>2, FlagStep, TypeCorrect, PTL DEF Spec

-----------------------------------------------------------------------------
(***************************************************************************)
(* What the listeners were told.                                           *)
(***************************************************************************)

\* How many listeners a notification has reached.
Told(f) == IF f.inside THEN f.at ELSE f.at - 1

LastWord == \A l \in Listeners : said[l] # "none" => (said[l] = "connected") = m_bConnected

\* Who heard something is in the list, and the loops are over its members.
Addressed ==
  /\ \A l \in Listeners : said[l] # "none" => \E k \in DOMAIN m_listClientNotify : m_listClientNotify[k] = l
  /\ \A i \in DOMAIN stack : stack[i].at > 0

\* While no news came inside a listener, news are the outermost notification only; they agree with
\* the flag, and those who have heard them heard nothing after.
Spreading ==
  /\ \A i \in DOMAIN stack : stack[i].what \in News => i = 1
  /\ IF stack # <<>> /\ stack[1].what \in News
     THEN /\ (stack[1].what = "connected") = m_bConnected /\ Told(stack[1]) <= Len(m_listClientNotify)
          /\ \A k \in DOMAIN m_listClientNotify : k <= Told(stack[1]) => said[m_listClientNotify[k]] = stack[1].what
     ELSE LastWord

WordInv == Addressed /\ (~nested => Spreading)

LEMMA FrontTop ==
  ASSUME NEW S, NEW q \in Seq(S), q # <<>>
  PROVE  /\ Len(q) \in Nat \ {0} /\ DOMAIN q = 1..Len(q) /\ Last(q) = q[Len(q)]
         /\ DOMAIN Front(q) = 1..(Len(q) - 1) /\ \A i \in 1..(Len(q) - 1) : Front(q)[i] = q[i]
         /\ Front(q) = <<>> <=> Len(q) = 1
<1>1. Len(q) \in Nat \ {0} /\ DOMAIN q = 1..Len(q)
  OBVIOUS
<1>2. /\ DOMAIN SubSeq(q, 1, Len(q) - 1) = 1..(Len(q) - 1)
      /\ \A i \in 1..(Len(q) - 1) : SubSeq(q, 1, Len(q) - 1)[i] = q[i]
      /\ SubSeq(q, 1, Len(q) - 1) = <<>> <=> Len(q) = 1
  BY <1>1
<1> QED
  BY <1>1, <1>2 DEF Front, Last

LEMMA Appended ==
  ASSUME NEW S, NEW q \in Seq(S), NEW e
  PROVE  /\ Len(q) \in Nat /\ Append(q, e) # <<>> /\ DOMAIN q = 1..Len(q)
         /\ Len(Append(q, e)) = Len(q) + 1 /\ DOMAIN Append(q, e) = 1..(Len(q) + 1)
         /\ Append(q, e)[Len(q) + 1] = e
         /\ \A i \in 1..Len(q) : Append(q, e)[i] = q[i]
<1> DEFINE r == Append(q, e)
<1>1. q \in Seq(S \cup {e}) /\ Len(q) \in Nat
  OBVIOUS
<1>2. r \in Seq(S \cup {e}) /\ Len(r) = Len(q) + 1
  BY <1>1
<1> QED
  BY <1>1, <1>2

\* The frames are those before, or one more that tells no news.
LEMMA WordQuiet ==
  ASSUME TypeOK, WordInv, UNCHANGED <<client, m_bConnected, said, nested>>,
         \/ stack' = stack
         \/ \E f : f.what \notin News /\ f.at > 0 /\ stack' = Append(stack, f)
  PROVE  WordInv'
<1>1. CASE stack' = stack
  BY <1>1 DEF WordInv, Addressed, Spreading, LastWord, Told, client
<1>2. ASSUME NEW f, f.what \notin News, f.at > 0, stack' = Append(stack, f) PROVE WordInv'
  <2>1. /\ Len(stack) \in Nat /\ stack' # <<>> /\ DOMAIN stack = 1..Len(stack)
        /\ DOMAIN stack' = 1..(Len(stack) + 1) /\ stack'[Len(stack) + 1] = f
        /\ \A i \in 1..Len(stack) : stack'[i] = stack[i]
    <3>1. stack \in Seq(FrameType) /\ stack' = Append(stack, f)
      BY <1>2 DEF TypeOK
    <3>2. /\ Len(stack) \in Nat /\ Append(stack, f) # <<>> /\ DOMAIN stack = 1..Len(stack)
          /\ DOMAIN Append(stack, f) = 1..(Len(stack) + 1) /\ Append(stack, f)[Len(stack) + 1] = f
          /\ \A i \in 1..Len(stack) : Append(stack, f)[i] = stack[i]
      BY ONLY <3>1, Appended
    <3> QED
      BY <3>1, <3>2
  <2>0. \A i \in DOMAIN stack' : stack'[i] = f \/ (i \in DOMAIN stack /\ stack'[i] = stack[i])
    BY <2>1
  <2>2. Addressed'
    <3>1. m_listClientNotify' = m_listClientNotify /\ said' = said
      BY DEF client
    <3> QED
      BY <1>2, <2>0, <3>1 DEF WordInv, Addressed
  <2>3. ASSUME ~nested' PROVE Spreading'
    <3>1. Spreading
      BY <2>3 DEF WordInv
    <3>2. \A i \in DOMAIN stack' : stack'[i].what \in News => i = 1
      BY <1>2, <2>0, <3>1 DEF Spreading
    <3>3. CASE stack = <<>>
      <4>1. stack'[1] = f /\ LastWord
        BY <2>1, <3>1, <3>3 DEF Spreading
      <4> QED
        BY <1>2, <3>2, <4>1 DEF Spreading, LastWord
    <3>4. CASE stack # <<>>
      <4>1. stack'[1] = stack[1]
        BY <2>1, <3>4
      <4> QED
        BY <2>1, <3>1, <3>2, <3>4, <4>1 DEF Spreading, LastWord, client
    <3> QED
      BY <3>3, <3>4
  <2> QED
    BY <2>2, <2>3 DEF WordInv
<1> QED
  BY <1>1, <1>2

LEMMA WordNews ==
  ASSUME TypeOK, WordInv, NEW n \in News, Begin(n), Heard, UNCHANGED client,
         m_bConnected' = (n = "connected")
  PROVE  WordInv'
<1> DEFINE f == [what |-> n, at |-> 1, inside |-> FALSE]
<1>0. f.what = n /\ f.at = 1 /\ ~f.inside
  OBVIOUS
<1>a. stack' = Append(stack, f)
  BY DEF Begin
<1> HIDE DEF f
<1>1. /\ Len(stack) \in Nat /\ stack' # <<>> /\ DOMAIN stack = 1..Len(stack)
      /\ DOMAIN stack' = 1..(Len(stack) + 1) /\ stack'[Len(stack) + 1] = f
      /\ \A i \in 1..Len(stack) : stack'[i] = stack[i]
  BY <1>a, Appended, SMTT(30) DEF TypeOK
<1>2. Addressed'
  BY <1>0, <1>1 DEF WordInv, Addressed, client, Heard
<1>3. ASSUME ~nested' PROVE Spreading'
  <2>1. stack = <<>>
    BY <1>3 DEF Heard, TypeOK
  <2>2. DOMAIN stack' = {1} /\ stack'[1] = f
    BY <1>1, <2>1
  <2>3. Told(stack'[1]) = 0
    BY <1>0, <2>2 DEF Told
  <2>4. Len(m_listClientNotify') \in Nat /\ DOMAIN m_listClientNotify' = 1..Len(m_listClientNotify')
    BY DEF TypeOK, client
  <2>5. \A i \in DOMAIN stack' : stack'[i].what \in News => i = 1
    BY <2>2
  <2>6. stack'[1].what \in News /\ (stack'[1].what = "connected") = m_bConnected'
    BY <1>0, <2>2
  <2>7. \A k \in DOMAIN m_listClientNotify' : ~(k <= Told(stack'[1]))
    BY <2>3, <2>4
  <2>8. Told(stack'[1]) <= Len(m_listClientNotify')
    BY <2>3, <2>4
  <2> QED
    BY <1>1, <2>5, <2>6, <2>7, <2>8 DEF Spreading
<1> QED
  BY <1>2, <1>3 DEF WordInv

LEMMA WordHandle ==
  ASSUME TypeOK, WordInv, Handle
  PROVE  WordInv'
<1> USE DEF client, socket, counts, history
<1>1. CASE HandleConnected
  BY <1>1, WordNews DEF HandleConnected, News
<1>2. CASE HandleDisconnected
  BY <1>2, WordNews DEF HandleDisconnected, ResetFlag, News
<1>3. CASE HandleNotFound
  BY <1>3, WordNews DEF HandleNotFound, News
<1>4. CASE HandleUnknown \/ DataInInfo
  BY <1>4, WordQuiet DEF HandleUnknown, DataInInfo
<1>5. ASSUME NEW c \in Calls, HandleAnswer(c) PROVE WordInv'
  <2> DEFINE f == [what |-> "answer", at |-> 1, inside |-> TRUE]
  <2>1. f.what \notin News /\ f.at > 0
    BY DEF News
  <2>2. stack' = stack \/ stack' = Append(stack, f)
    BY <1>5 DEF HandleAnswer
  <2> HIDE DEF f
  <2> QED
    BY <1>5, <2>1, <2>2, WordQuiet DEF HandleAnswer
<1>6. CASE HandleInfo
  <2> DEFINE f == [what |-> "info", at |-> 1, inside |-> FALSE]
  <2>1. f.what \notin News /\ f.at > 0
    BY DEF News
  <2>2. stack' = Append(stack, f)
    BY <1>6 DEF HandleInfo, Begin
  <2> HIDE DEF f
  <2> QED
    BY <1>6, <2>1, <2>2, WordQuiet DEF HandleInfo
<1> QED
  BY <1>1, <1>2, <1>3, <1>4, <1>5, <1>6 DEF Handle

LEMMA WordApplication ==
  ASSUME TypeOK, WordInv, Application
  PROVE  WordInv'
<1> USE DEF client, socket, counts, history
<1>1. ASSUME NEW l \in Listeners, InitInstance(l) PROVE WordInv'
  <2>1. UNCHANGED <<m_bConnected, stack, said, nested>> /\ m_listClientNotify' = Register(l)
    BY <1>1 DEF InitInstance
  <2>2. /\ Len(m_listClientNotify) \in Nat /\ DOMAIN m_listClientNotify = 1..Len(m_listClientNotify)
        /\ Len(m_listClientNotify') >= Len(m_listClientNotify)
        /\ Len(m_listClientNotify') \in Nat /\ DOMAIN m_listClientNotify' = 1..Len(m_listClientNotify')
        /\ \A i \in 1..Len(m_listClientNotify) : m_listClientNotify'[i] = m_listClientNotify[i]
    BY <2>1, Appended DEF Register, TypeOK
  <2>3. Addressed'
    BY <2>1, <2>2 DEF WordInv, Addressed
  <2>4. ASSUME ~nested' PROVE Spreading'
    <3>1. Spreading
      BY <2>1, <2>4 DEF WordInv
    <3>2. CASE stack # <<>> /\ stack[1].what \in News
      <4>0. stack \in Seq(FrameType) /\ 1 \in DOMAIN stack
        BY <3>2, FrontTop DEF TypeOK
      <4>a. stack[1] \in FrameType
        BY <4>0
      <4>1. Told(stack[1]) \in Int
        BY <4>a DEF Told, FrameType
      <4> QED
        BY <2>1, <2>2, <3>1, <3>2, <4>1 DEF Spreading
    <3>3. CASE ~(stack # <<>> /\ stack[1].what \in News)
      BY <2>1, <3>1, <3>3 DEF Spreading, LastWord
    <3> QED
      BY <3>2, <3>3
  <2> QED
    BY <2>3, <2>4 DEF WordInv
<1>2. ASSUME NEW c \in Calls, CallMade(c) PROVE WordInv'
  BY <1>2, WordQuiet DEF CallMade
<1>3. CASE Release
  <2>1. stack' = <<>> /\ \A l \in Listeners : said'[l] = "none"
    BY <1>3 DEF Release, Idle
  <2> QED
    BY <2>1 DEF WordInv, Addressed, Spreading, LastWord
<1> QED
  BY <1>1, <1>2, <1>3 DEF Application

LEMMA Replaced ==
  ASSUME NEW S, NEW q \in Seq(S), NEW n \in 1..Len(q), NEW e
  PROVE  /\ DOMAIN [q EXCEPT ![n] = e] = 1..Len(q) /\ [q EXCEPT ![n] = e][n] = e
         /\ \A i \in 1..Len(q) : i # n => [q EXCEPT ![n] = e][i] = q[i]
OBVIOUS

LEMMA WordLoops ==
  ASSUME TypeOK, WordInv, Loops
  PROVE  WordInv'
<1> USE DEF client, socket, counts, history
<1> DEFINE n == Len(stack)
           L == m_listClientNotify
<1>1. stack # <<>> /\ UNCHANGED <<L, m_bConnected, nested>>
  BY DEF Loops, NextListener, ListenerReturns, AllTold, InListener
<1>2. stack \in Seq(FrameType) /\ L \in Seq(Listeners) /\ said \in [Listeners -> News \cup {"none"}]
  BY DEF TypeOK
<1>3. /\ n \in Nat \ {0} /\ DOMAIN stack = 1..n /\ Top = stack[n] /\ Top \in FrameType
      /\ DOMAIN Front(stack) = 1..(n - 1) /\ \A i \in 1..(n - 1) : Front(stack)[i] = stack[i]
      /\ Front(stack) = <<>> <=> n = 1
  <2>1. 1 \in 1..n /\ n \in 1..n
    BY <1>1, <1>2, FrontTop
  <2> QED
    BY <1>1, <1>2, <2>1, FrontTop DEF Top
<1>4. Len(L) \in Nat /\ DOMAIN L = 1..Len(L) /\ \A k \in 1..Len(L) : L[k] \in Listeners
  BY <1>2
<1>5. Top.at \in Nat /\ Top.at > 0 /\ Top.inside \in BOOLEAN /\ Addressed
  BY <1>3 DEF WordInv, Addressed, FrameType
<1> HIDE DEF n, L
<1>6. CASE NextListener
  <2> DEFINE f == [Top EXCEPT !.inside = TRUE]
             w == L[Top.at]
  <2>1. f.what = Top.what /\ f.at = Top.at /\ f.inside
    BY <1>3 DEF FrameType
  <2>2. DOMAIN stack' = 1..n /\ stack'[n] = f /\ \A i \in 1..n : i # n => stack'[i] = stack[i]
    <3>1. stack' = [stack EXCEPT ![n] = f]
      BY <1>6 DEF NextListener, Top, Last, n
    <3>2. n \in 1..Len(stack) /\ n = Len(stack)
      BY <1>3 DEF n
    <3> HIDE DEF f
    <3> QED
      BY <1>2, <3>1, <3>2, Replaced
  <2>3. /\ ~Top.inside /\ Top.at \in 1..Len(L) /\ w \in Listeners /\ Told(f) = Top.at
        /\ Told(Top) = Top.at - 1
    BY <1>4, <1>5, <1>6, <2>1 DEF NextListener, Audience, Told, L
  <2>4. said' = IF Top.what \in News THEN [said EXCEPT ![w] = Top.what] ELSE said
    BY <1>6 DEF NextListener, Audience, L
  <2> HIDE DEF f, w
  <2>5. stack' # <<>>
    BY <1>3, <2>2
  <2>6. Addressed'
    <3>1. \A i \in DOMAIN stack' : stack'[i].at > 0
      BY <1>3, <1>5, <2>1, <2>2 DEF Addressed
    <3>2. \A l \in Listeners : l # w => said'[l] = said[l]
      BY <1>2, <2>4
    <3>3. \E k \in DOMAIN L : L[k] = w
      BY <1>4, <2>3 DEF w
    <3> QED
      BY <1>1, <1>5, <3>1, <3>2, <3>3 DEF Addressed, L
  <2>7. ASSUME ~nested' PROVE Spreading'
    <3>1. Spreading
      BY <1>1, <2>7 DEF WordInv
    <3>2. \A i \in DOMAIN stack' : stack'[i].what = stack[i].what
      BY <1>3, <2>1, <2>2
    <3>3. \A i \in DOMAIN stack' : stack'[i].what \in News => i = 1
      BY <1>3, <2>2, <3>1, <3>2 DEF Spreading
    <3>4. CASE n = 1 /\ Top.what \in News
      <4>1. stack'[1] = f /\ stack[1] = Top
        BY <1>3, <2>2, <3>4
      <4>2. /\ (Top.what = "connected") = m_bConnected
            /\ \A k \in DOMAIN L : k < Top.at => said[L[k]] = Top.what
        BY <1>1, <1>4, <1>5, <2>3, <3>1, <3>4, <4>1 DEF Spreading, L
      <4>3. ASSUME NEW k \in DOMAIN L, k <= Top.at PROVE said'[L[k]] = Top.what
        <5>1. said' = [said EXCEPT ![w] = Top.what] /\ L[k] \in Listeners
          BY <1>4, <2>4, <3>4, <4>3
        <5>2. CASE L[k] = w
          BY <1>2, <2>3, <5>1, <5>2
        <5>3. CASE L[k] # w
          <6>1. k < Top.at
            BY <1>4, <1>5, <4>3, <5>3 DEF w
          <6> QED
            BY <1>2, <4>2, <5>1, <5>3, <6>1
        <5> QED
          BY <5>2, <5>3
      <4>4. Told(stack'[1]) = Top.at /\ Top.at <= Len(L) /\ stack'[1].what = Top.what
        BY <2>1, <2>3, <4>1
      <4> QED
        BY <1>1, <2>5, <3>3, <3>4, <4>2, <4>3, <4>4 DEF Spreading, L
    <3>5. CASE ~(n = 1 /\ Top.what \in News)
      <4>1. said' = said
        BY <1>3, <2>4, <3>1, <3>5 DEF Spreading
      <4>2. 1 \in DOMAIN stack' /\ stack'[1].what = stack[1].what
        BY <1>3, <2>2, <3>2
      <4>3. stack[1].what \in News => stack'[1] = stack[1]
        BY <1>3, <2>2, <3>5
      <4> QED
        BY <1>1, <2>5, <3>1, <3>3, <4>1, <4>2, <4>3 DEF Spreading, LastWord, L
    <3> QED
      BY <3>4, <3>5
  <2> QED
    BY <2>6, <2>7 DEF WordInv
<1>7. CASE ListenerReturns
  <2> DEFINE f == [Top EXCEPT !.inside = FALSE, !.at = Top.at + 1]
  <2>1. f.what = Top.what /\ f.at = Top.at + 1 /\ ~f.inside
    BY <1>3 DEF FrameType
  <2>2. DOMAIN stack' = 1..n /\ stack'[n] = f /\ \A i \in 1..n : i # n => stack'[i] = stack[i]
    <3>1. stack' = [stack EXCEPT ![n] = f]
      BY <1>2, <1>3, <1>7 DEF ListenerReturns, n, Top, Last
    <3>2. n \in 1..Len(stack) /\ n = Len(stack)
      BY <1>3 DEF n
    <3> HIDE DEF f
    <3> QED
      BY <1>2, <3>1, <3>2, Replaced
  <2>3. Told(f) = Told(Top) /\ f.at > 0
    BY <1>5, <1>7, <2>1 DEF ListenerReturns, InListener, Told
  <2> HIDE DEF f
  <2>4. said' = said /\ stack' # <<>> /\ 1 \in DOMAIN stack'
    BY <1>3, <1>7, <2>2 DEF ListenerReturns
  <2>5. \A i \in DOMAIN stack' : stack'[i].what = stack[i].what /\ Told(stack'[i]) = Told(stack[i])
                                 /\ stack'[i].at > 0
    BY <1>3, <1>5, <2>1, <2>2, <2>3 DEF Addressed
  <2> QED
    BY <1>1, <1>3, <2>2, <2>4, <2>5 DEF WordInv, Addressed, Spreading, LastWord, L
<1>8. CASE AllTold
  <2>1. said' = said /\ stack' = Front(stack)
    BY <1>8 DEF AllTold
  <2>2. Addressed'
    BY <1>1, <1>3, <1>5, <2>1 DEF Addressed, L
  <2>3. ASSUME ~nested' PROVE Spreading'
    <3>1. Spreading
      BY <1>1, <2>3 DEF WordInv
    <3>2. \A i \in DOMAIN stack' : stack'[i].what \in News => i = 1
      BY <1>3, <2>1, <3>1 DEF Spreading
    <3>3. CASE n # 1
      <4>1. stack' # <<>> /\ stack'[1] = stack[1]
        BY <1>3, <2>1, <3>3
      <4> QED
        BY <1>1, <2>1, <3>1, <3>2, <4>1 DEF Spreading, LastWord, L
    <3>4. CASE n = 1
      <4>1. stack' = <<>> /\ stack[1] = Top
        BY <1>3, <2>1, <3>4
      <4>2. LastWord
        <5>1. CASE Top.what \in News
          <6>1. ~Top.inside /\ Top.at > Len(L)
            BY <1>8, <5>1 DEF AllTold, News, Audience, L
          <6>2. \A k \in DOMAIN L : said[L[k]] = Top.what
            BY <1>1, <1>4, <1>5, <3>1, <4>1, <5>1, <6>1 DEF Spreading, Told, L
          <6>3. (Top.what = "connected") = m_bConnected
            BY <1>1, <3>1, <4>1, <5>1 DEF Spreading
          <6> QED
            BY <1>5, <6>2, <6>3 DEF Addressed, LastWord, L
        <5>2. CASE Top.what \notin News
          BY <1>1, <3>1, <4>1, <5>2 DEF Spreading
        <5> QED
          BY <5>1, <5>2
      <4> QED
        BY <1>1, <2>1, <3>2, <4>1, <4>2 DEF Spreading, LastWord
    <3> QED
      BY <3>3, <3>4
  <2> QED
    BY <2>2, <2>3 DEF WordInv
<1> QED
  BY <1>6, <1>7, <1>8 DEF Loops

LEMMA WordStep == TypeOK /\ WordInv /\ [Next]_vars => WordInv'
<1> SUFFICES ASSUME TypeOK, WordInv, [Next]_vars PROVE WordInv'
  OBVIOUS
<1> USE DEF client, socket, counts, history
<1>1. CASE Worker \/ WorkerLoses \/ (\E c \in Calls : Answers(c)) \/ Broadcasts
  <2>1. UNCHANGED <<client, m_bConnected, said, nested, stack>>
    BY <1>1 DEF Worker, WorkerConnects, WorkerFails, WorkerLoses, Answers, Broadcasts, Environment
  <2> QED
    BY <2>1, WordQuiet
<1>2. CASE UNCHANGED vars \/ LeakedUse
  BY <1>2, WordQuiet DEF vars, LeakedUse
<1> QED
  BY <1>1, <1>2, WordApplication, WordHandle, WordLoops DEF Next

\* When all loops over the listeners have ended, the last news each listener heard
\* agrees with the client's flag, unless news came inside a listener
\* (ripcqcclient.cpp:216-249).
THEOREM LastWordIsTrue == Spec => []LastWordTrue
<1>1. Init => WordInv
  BY DEF Init, WordInv, Addressed, Spreading, LastWord
<1>2. WordInv => LastWordTrue
  BY DEF WordInv, Spreading, LastWord, LastWordTrue
<1> QED
  BY <1>1, <1>2, WordStep, TypeCorrect, PTL DEF Spec
=============================================================================
