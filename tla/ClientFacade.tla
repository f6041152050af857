---------------------------- MODULE ClientFacade ----------------------------
(***************************************************************************)
(* What an application of the Windows build sees of the client: the global *)
(* instance (ripcqcinterfaceproxy.cpp, ripcsingleton.h), the               *)
(* implementation behind it (ripcqcinterfaceimpl.cpp) and RIpcQcClient     *)
(* (ripcqcclient.cpp), which tells every registered listener how the       *)
(* connection fares.                                                       *)
(*                                                                         *)
(* All of it runs on the thread of the application's event loop.  The      *)
(* socket's worker thread (WLocalSocket) changes the state of the socket   *)
(* and posts messages, which the loop handles later; a listener may open a *)
(* modal dialogue, whose loop handles the next message inside the          *)
(* listener: `stack' holds the notifications under way.  Both lists of     *)
(* listeners (the client's, the service handler's) always have the same    *)
(* members and are one variable.                                           *)
(***************************************************************************)
EXTENDS Integers, Sequences, SequencesExt

CONSTANTS Listeners, NoListener,
          Calls,                              \* getAuthorInfo, userLogin
          MaxDepth, MaxAttempts, MaxInfos     \* bounds

ASSUME FacadeAssumption ==
  /\ NoListener \notin Listeners
  /\ MaxDepth \in Nat \ {0} /\ MaxAttempts \in Nat /\ MaxInfos \in Nat

VARIABLES
  instance,      \* s_pParentT: "none", "there"; "leaked" once a release leaves a channel behind
  m_pClientNotify, m_listClientNotify, m_bConnected,
  state, posted, \* the channel's socket and the messages posted to its window
  m_cobs,        \* calls the channel waits for
  stack,         \* notifications under way, the innermost last
  undefined,     \* freed memory was used
  made, attempts, infos, \* calls made; connections attempted; broadcasts
  said,          \* the last word each listener had about the connection
  asked,         \* initClient() was called and nothing heard of it
  cut, nested    \* close() left news untold; news came inside a listener

client == <<instance, m_pClientNotify, m_listClientNotify>>
socket == <<state, posted, m_cobs>>
counts == <<made, attempts, infos>>
history == <<said, asked, cut, nested>>
vars == <<client, m_bConnected, socket, stack, undefined, counts, history>>

News == {"connected", "disconnected", "notfound"}
Messages == [msg : News \cup {"unknown", "info"}] \cup [msg : {"answer"}, call : Calls]
FrameType == [what : News \cup {"info", "answer"}, at : Nat, inside : BOOLEAN]

TypeOK ==
  /\ instance \in {"none", "there", "leaked"}
  /\ m_pClientNotify \in Listeners \cup {NoListener} /\ m_listClientNotify \in Seq(Listeners)
  /\ m_bConnected \in BOOLEAN
  /\ state \in {"unconnected", "connecting", "connected"} /\ posted \in Seq(Messages)
  /\ m_cobs \subseteq Calls /\ stack \in Seq(FrameType) /\ undefined \in BOOLEAN
  /\ made \subseteq Calls /\ attempts \in Nat /\ infos \in Nat
  /\ said \in [Listeners -> News \cup {"none"}]
  /\ asked \in BOOLEAN /\ cut \in BOOLEAN /\ nested \in BOOLEAN

Init ==
  /\ instance = "none" /\ m_pClientNotify = NoListener /\ m_listClientNotify = <<>>
  /\ m_bConnected = FALSE
  /\ state = "unconnected" /\ posted = <<>> /\ m_cobs = {} /\ stack = <<>> /\ undefined = FALSE
  /\ made = {} /\ attempts = 0 /\ infos = 0
  /\ said = [l \in Listeners |-> "none"] /\ asked = FALSE /\ cut = FALSE /\ nested = FALSE

Top == Last(stack)
Idle == ~undefined /\ stack = <<>>
InListener == ~undefined /\ stack # <<>> /\ Top.inside
AppRuns == Idle \/ InListener

(***************************************************************************)
(* The application                                                         *)
(***************************************************************************)

\* setClientNotify(): the listener of the answers, and one more in the lists.
Register(l) == IF l \in Range(m_listClientNotify) THEN m_listClientNotify ELSE Append(m_listClientNotify, l)

\* initClient(): nothing if the client believes to be connected or the socket is
\* connected or connecting, else the socket is closed, with the messages posted to its
\* window and the calls waited for, and opened again.
ConnectsAnyway == state = "unconnected"  \* mutant
Connects == ~m_bConnected /\ state = "unconnected"

\* initIpcClientInterfaceInstance(l), which creates the instance if there is none.
InitInstance(l) ==
  /\ AppRuns /\ instance # "leaked" /\ attempts < MaxAttempts
  /\ instance' = "there" /\ m_pClientNotify' = l /\ m_listClientNotify' = Register(l)
  /\ IF Connects
     THEN state' = "connecting" /\ posted' = <<>> /\ m_cobs' = {}
     ELSE UNCHANGED socket
  /\ attempts' = attempts + 1
  /\ asked' = (asked \/ ~m_bConnected \/ state # "connected")
  /\ UNCHANGED <<m_bConnected, stack, undefined, made, infos, said, cut, nested>>

Good == state \in {"connecting", "connected"}

\* getAuthorInfo() and userLogin(): only an error in the log if the channel is not
\* good; else a call is sent, or queued until the socket is connected.
CallMade(c) ==
  /\ AppRuns /\ instance = "there" /\ c \notin made
  /\ made' = made \cup {c}
  /\ m_cobs' = IF Good THEN m_cobs \cup {c} ELSE m_cobs
  /\ UNCHANGED <<client, m_bConnected, state, posted, stack, undefined, attempts, infos, history>>

\* releaseIpcClientInterfaceInstance(), from outside all listeners.  Each pending
\* callback owns the service client, which owns the channel: a channel with
\* pending calls outlives its client.
Release ==
  /\ Idle /\ instance = "there"
  /\ instance' = IF m_cobs = {} THEN "none" ELSE "leaked"
  /\ m_pClientNotify' = NoListener /\ m_listClientNotify' = <<>> /\ m_bConnected' = FALSE
  /\ IF m_cobs = {} THEN state' = "unconnected" /\ posted' = <<>> ELSE UNCHANGED <<state, posted>>
  /\ said' = [l \in Listeners |-> "none"] /\ asked' = FALSE
  /\ UNCHANGED <<m_cobs, stack, undefined, counts, cut, nested>>

\* The answer, or the end of the connection, then finds the client freed.
LeakedUse ==
  /\ Idle /\ instance = "leaked" /\ undefined' = TRUE
  /\ UNCHANGED <<client, m_bConnected, socket, stack, counts, history>>

(***************************************************************************)
(* The socket's worker and the server behind it                            *)
(***************************************************************************)
Post(m) == posted' = posted \o m
Msg(m) == [msg |-> m]
Environment == UNCHANGED <<client, m_bConnected, stack, undefined, made, attempts, history>>

WorkerConnects ==
  /\ state = "connecting" /\ state' = "connected" /\ Post(<<Msg("connected")>>)
  /\ Environment /\ UNCHANGED <<m_cobs, infos>>

\* doConnecting fails; the read asked for meanwhile fails too, if it comes to that.
WorkerFails ==
  /\ state = "connecting" /\ state' = "unconnected"
  /\ Post(<<Msg("notfound")>>) \/ Post(<<Msg("notfound"), Msg("unknown")>>)
  /\ Environment /\ UNCHANGED <<m_cobs, infos>>

\* setError(): the state, then both messages.
WorkerLoses ==
  /\ state = "connected" /\ state' = "unconnected"
  /\ Post(<<Msg("disconnected"), Msg("unknown")>>)
  /\ Environment /\ UNCHANGED <<m_cobs, infos>>

Answers(c) ==
  /\ state = "connected" /\ c \in m_cobs /\ [msg |-> "answer", call |-> c] \notin Range(posted)
  /\ Post(<<[msg |-> "answer", call |-> c]>>)
  /\ Environment /\ UNCHANGED <<state, m_cobs, infos>>

Broadcasts ==
  /\ state = "connected" /\ infos < MaxInfos /\ infos' = infos + 1
  /\ Post(<<Msg("info")>>)
  /\ Environment /\ UNCHANGED <<state, m_cobs>>

(***************************************************************************)
(* The event loop                                                          *)
(***************************************************************************)
CanHandle(m) ==
  /\ instance = "there" /\ posted # <<>> /\ Head(posted).msg = m
  /\ Idle \/ (InListener /\ Len(stack) < MaxDepth)

Begin(what) == stack' = Append(stack, [what |-> what, at |-> 1, inside |-> FALSE])

Heard ==
  /\ asked' = FALSE
  /\ nested' = (nested \/ stack # <<>>)
  /\ UNCHANGED <<said, cut>>

\* connectedSucceed(), disconnected() and connectingError(): the flag, then the
\* listeners.  connectingError() is for ServerNotFoundError only, an error posted
\* as UnknownSocketError is not passed on.
HandleConnected ==
  /\ CanHandle("connected") /\ posted' = Tail(posted)
  /\ m_bConnected' = TRUE /\ Begin("connected") /\ Heard
  /\ UNCHANGED <<client, state, m_cobs, undefined, counts>>

LeaveFlag == m_bConnected  \* mutant
ResetFlag == FALSE
HandleDisconnected ==
  /\ CanHandle("disconnected") /\ posted' = Tail(posted)
  /\ m_bConnected' = ResetFlag /\ m_cobs' = {} /\ Begin("disconnected") /\ Heard
  /\ UNCHANGED <<client, state, undefined, counts>>

HandleNotFound ==
  /\ CanHandle("notfound") /\ posted' = Tail(posted)
  /\ m_bConnected' = FALSE /\ Begin("notfound") /\ Heard
  /\ UNCHANGED <<client, state, m_cobs, undefined, counts>>

\* RIPCClientChannel::close(): the window goes with what is posted to it, nobody is told.
Closed ==
  /\ state' = "unconnected" /\ posted' = <<>> /\ m_cobs' = {}
  /\ cut' = (cut \/ state # "unconnected" \/ \E n \in News : Msg(n) \in Range(posted))

HandleUnknown ==
  /\ CanHandle("unknown") /\ Closed
  /\ UNCHANGED <<client, m_bConnected, stack, undefined, counts, said, asked, nested>>

\* Data: an answer goes to the listener set last, a broadcast to all.
HandleAnswer(c) ==
  /\ CanHandle("answer") /\ Head(posted).call = c /\ posted' = Tail(posted)
  /\ m_cobs' = m_cobs \ {c}
  /\ IF c \in m_cobs THEN stack' = Append(stack, [what |-> "answer", at |-> 1, inside |-> TRUE])
     ELSE UNCHANGED stack
  /\ UNCHANGED <<client, m_bConnected, state, undefined, counts, history>>

HandleInfo ==
  /\ CanHandle("info") /\ posted' = Tail(posted) /\ Begin("info")
  /\ UNCHANGED <<client, m_bConnected, state, m_cobs, undefined, counts, history>>

\* Data inside the handler of a broadcast, which is committed only after it, may
\* bring the stream out of step (RipcChannel): close().
DataInInfo ==
  /\ CanHandle("answer") \/ CanHandle("info")
  /\ \E i \in DOMAIN stack : stack[i].what = "info"
  /\ Closed
  /\ UNCHANGED <<client, m_bConnected, stack, undefined, counts, said, asked, nested>>

\* The loops over the listeners.
OnlyLast == <<m_pClientNotify>>  \* mutant
Audience == m_listClientNotify
NextListener ==
  /\ ~undefined /\ stack # <<>> /\ ~Top.inside /\ Top.at <= Len(Audience)
  /\ stack' = [stack EXCEPT ![Len(stack)].inside = TRUE]
  /\ said' = IF Top.what \in News THEN [said EXCEPT ![Audience[Top.at]] = Top.what] ELSE said
  /\ UNCHANGED <<client, m_bConnected, socket, undefined, counts, asked, cut, nested>>

ListenerReturns ==
  /\ InListener /\ Top.what # "answer"
  /\ stack' = [stack EXCEPT ![Len(stack)].inside = FALSE, ![Len(stack)].at = @ + 1]
  /\ UNCHANGED <<client, m_bConnected, socket, undefined, counts, history>>

\* RIPCClientChannel::onError closes the channel only after the listeners of the
\* error were told.
AllTold ==
  /\ ~undefined /\ stack # <<>> /\ stack' = Front(stack)
  /\ \/ Top.what = "answer"
     \/ ~Top.inside /\ Top.at > Len(Audience)
  /\ IF Top.what = "notfound" THEN Closed ELSE UNCHANGED <<socket, cut>>
  /\ UNCHANGED <<client, m_bConnected, undefined, counts, said, asked, nested>>

Application == (\E l \in Listeners : InitInstance(l)) \/ (\E c \in Calls : CallMade(c)) \/ Release
Worker == WorkerConnects \/ WorkerFails
Handle == HandleConnected \/ HandleDisconnected \/ HandleNotFound \/ HandleUnknown
          \/ (\E c \in Calls : HandleAnswer(c)) \/ HandleInfo \/ DataInInfo
Loops == NextListener \/ ListenerReturns \/ AllTold

Next ==
  \/ Application \/ LeakedUse
  \/ Worker \/ WorkerLoses \/ (\E c \in Calls : Answers(c)) \/ Broadcasts
  \/ Handle \/ Loops

Spec == Init /\ [][Next]_vars

\* The worker attempts the connection, the event loop runs and listeners return;
\* the application does as it likes, the server need not answer.
FairSpec == Spec /\ WF_vars(Worker) /\ WF_vars(Handle) /\ WF_vars(Loops)

(***************************************************************************)
(* Properties                                                              *)
(***************************************************************************)

\* m_bConnected, which decides whether initClient() does anything, agrees with the
\* socket or the message that will correct it is on its way, however news nest;
\* it is not left TRUE over a lost connection (ripcqcclient.cpp:158-166, 216-249).
\* (What close() cuts off it tells nobody.)
FlagFollowsSocket ==
  instance = "there" /\ ~cut =>
    /\ m_bConnected /\ state # "connected" => Msg("disconnected") \in Range(posted)
    /\ ~m_bConnected /\ state = "connected" => Msg("connected") \in Range(posted)

\* Outside a notification the last word of each listener is the truth as the
\* client knows it, unless news came inside a listener: the inner news then reach
\* the later listeners before the outer (216-249).
LastWordTrue ==
  stack = <<>> /\ ~nested =>
    \A l \in Listeners : said[l] # "none" => (said[l] = "connected") = m_bConnected

\* An application that calls initClient() while it is not connected hears of it:
\* connected, an error, or the end of the connection it did not know was lost.
\* (A retry made inside notifyConnectErr is cut off by the close() that follows.)
AttemptIsAnswered == asked ~> (~asked \/ cut)
=============================================================================
