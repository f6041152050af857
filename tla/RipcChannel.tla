---------------------------- MODULE RipcChannel ----------------------------
(***************************************************************************)
(* The client's end of a connection: RIPCClientChannel                     *)
(* (ripcqccomponent/ipcbase/ripcclientchannel.cpp) with its receive buffer *)
(* RIPCBuffer, and the connection and the server behind it as far as the   *)
(* channel sees them.  Everything in the channel runs on the thread of the *)
(* client's event loop, but a callback may open a modal dialogue, whose    *)
(* nested event loop delivers the next data or the end of the connection   *)
(* while onRecvData is still inside that callback: `stack' holds the calls *)
(* of onRecvData under way.                                                *)
(*                                                                         *)
(* Data arrive in pieces.  A byte stream is a sequence of units: the       *)
(* header of a message is one unit (magic, length, cid), its payload some  *)
(* more.                                                                   *)
(***************************************************************************)
EXTENDS Integers, Sequences, FiniteSets

CONSTANTS Calls,     \* sendAndRecvMessage calls the application makes, numbered in the
                     \* order in which it makes them
          NoCall,
          MaxId,     \* the last sequence id before m_currentSequanceId wraps
          NotifySize, AnswerSize,  \* units of a broadcast and of an answer
          Handlers,  \* what happens inside the application's handlers, see
                     \* CanReenter, CanLose and NotifyFails
          MaxDepth, MaxNotifies, MaxConnects  \* bounds

ASSUME ChannelAssumption ==
  /\ Calls \subseteq Nat /\ IsFiniteSet(Calls) /\ NoCall \notin Calls
  /\ MaxId \in Nat /\ MaxId > Cardinality(Calls)
  /\ NotifySize \in 2..3 /\ AnswerSize \in 2..3
  /\ Handlers \subseteq {"recv in callback", "lost in callback", "recv in notify", "notify fails"}
  /\ MaxDepth \in Nat \ {0} /\ MaxNotifies \in Nat /\ MaxConnects \in Nat

Ids == 1..MaxId
IdZero == 0                     \* RIPC_ID_ZERO: the cid of a broadcast
HeaderSize == 1

VARIABLES
  state,      \* of the socket
  seq,        \* m_currentSequanceId
  cobs,       \* m_cobs and m_memoryBuffers, which always have the same keys
  inbuf, pos, \* m_buffer: the data and m_pos
  stack,      \* calls of onRecvData under way, the innermost last
  undefined,  \* an erased iterator or a stale pointer was used
  broken,     \* data came, or an exception, inside the handler of a broadcast
  up, asked, wire,  \* requests on their way, at the server; units on their way back
  made, ran,        \* calls made; the answers each callback was run with
  notifies, connects

link == <<up, asked, wire, notifies>>
vars == <<state, seq, cobs, inbuf, pos, stack, undefined, broken, made, ran, connects, link>>

Messages == [id : {IdZero} \cup Ids, call : Calls \cup {NoCall}]
Size(m) == IF m.id = IdZero THEN NotifySize ELSE AnswerSize
Units(m) == [i \in 1..Size(m) |-> [msg |-> m, part |-> i]]
UnitType == [msg : Messages, part : 1..3]
FrameType == [at : {"loop", "callback", "notify"}, id : {IdZero} \cup Ids, live : BOOLEAN]

TypeOK ==
  /\ state \in {"unconnected", "connecting", "connected"}
  /\ seq \in {IdZero} \cup Ids /\ cobs \in [Ids -> Calls \cup {NoCall}]
  /\ inbuf \in Seq(UnitType) /\ pos \in 0..Len(inbuf)
  /\ stack \in Seq(FrameType) /\ undefined \in BOOLEAN /\ broken \in BOOLEAN
  /\ up \in Seq(Messages) /\ asked \subseteq Messages /\ wire \in Seq(UnitType)
  /\ made \subseteq Calls /\ ran \in [Calls -> Seq(Calls \cup {NoCall})]
  /\ notifies \in Nat /\ connects \in Nat

\* The channel may have served any number of calls before.
Init ==
  /\ state = "unconnected" /\ seq \in {IdZero} \cup Ids
  /\ cobs = [i \in Ids |-> NoCall] /\ inbuf = <<>> /\ pos = 0
  /\ stack = <<>> /\ undefined = FALSE /\ broken = FALSE
  /\ up = <<>> /\ asked = {} /\ wire = <<>>
  /\ made = {} /\ ran = [c \in Calls |-> <<>>]
  /\ notifies = 0 /\ connects = 0

Top == stack[Len(stack)]
Inside(at) == ~undefined /\ stack # <<>> /\ Top.at = at
Idle == ~undefined /\ stack = <<>>
AppRuns == Idle \/ Inside("callback") \/ Inside("notify")
Leave == SubSeq(stack, 1, Len(stack) - 1)
TopNow(f) == [stack EXCEPT ![Len(stack)] = f]

\* Frames whose iterators (callback) or header pointer (notify) no longer hold.
Kill(st, at) == [i \in DOMAIN st |-> IF st[i].at = at THEN [st[i] EXCEPT !.live = FALSE] ELSE st[i]]

\* Frames whose iterators name an entry that has been erased.
KillEntry(st, id) ==
  [i \in DOMAIN st |-> IF st[i].at = "callback" /\ st[i].id = id THEN [st[i] EXCEPT !.live = FALSE] ELSE st[i]]

(***************************************************************************)
(* Making calls                                                            *)
(***************************************************************************)
Good == state \in {"connecting", "connected"}

InTurn(c) == \A d \in Calls : d < c => d \in made
RunCallback(c, answer) == ran' = [ran EXCEPT ![c] = Append(@, answer)]

\* sendAndRecvMessage on a channel that is not good: cob() at once.
Refused(c) ==
  /\ AppRuns /\ c \notin made /\ ~Good
  /\ made' = made \cup {c} /\ RunCallback(c, NoCall)
  /\ UNCHANGED <<state, seq, cobs, inbuf, pos, stack, undefined, broken, connects, link>>

NextSeq == LET n == (seq + 1) % (MaxId + 1) IN IF n = IdZero THEN 1 ELSE n

Send(c) ==
  /\ AppRuns /\ c \notin made /\ state = "connected"
  /\ made' = made \cup {c}
  /\ seq' = NextSeq
  /\ cobs' = [cobs EXCEPT ![NextSeq] = c]
  /\ up' = Append(up, [id |-> NextSeq, call |-> c])
  /\ UNCHANGED <<state, inbuf, pos, stack, undefined, broken, ran, connects, asked, wire, notifies>>

\* A socket that is still connecting is not open, one that is connected may have its
\* queue full: write returns -1, the entry just registered is erased and cob() runs.
KeepEntry(c) == [cobs EXCEPT ![NextSeq] = c]
EraseEntry(c) == [cobs EXCEPT ![NextSeq] = NoCall]
SendFails(c) ==
  /\ AppRuns /\ c \notin made /\ Good
  /\ made' = made \cup {c}
  /\ seq' = NextSeq
  /\ cobs' = EraseEntry(c)
  /\ RunCallback(c, NoCall)
  /\ UNCHANGED <<state, inbuf, pos, stack, undefined, broken, connects, link>>

(***************************************************************************)
(* The connection                                                          *)
(***************************************************************************)

\* close() and onDisconnected(): both clear the buffer and the maps, the
\* pending callbacks are not run.
Cleared(st) ==
  /\ state' = "unconnected"
  /\ cobs' = [i \in Ids |-> NoCall] /\ inbuf' = <<>> /\ pos' = 0 /\ broken' = FALSE
  /\ stack' = Kill(Kill(st, "callback"), "notify")
  /\ up' = <<>> /\ asked' = {} /\ wire' = <<>>
  /\ UNCHANGED <<seq, undefined, made, ran, notifies, connects>>

Connect ==
  /\ AppRuns /\ state = "unconnected" /\ connects < MaxConnects
  /\ state' = "connecting" /\ connects' = connects + 1
  /\ UNCHANGED <<seq, cobs, inbuf, pos, stack, undefined, broken, made, ran, link>>

Connected ==
  /\ Idle /\ state = "connecting"
  /\ state' = "connected"
  /\ UNCHANGED <<seq, cobs, inbuf, pos, stack, undefined, broken, made, ran, connects, link>>

\* onError(ServerNotFoundError).
ConnectFails == Idle /\ state = "connecting" /\ Cleared(stack)

\* onError(PeerClosedError) and onDisconnected, possibly from a nested event loop.
CanLose == Idle \/ (Inside("callback") /\ "lost in callback" \in Handlers)
Lost == CanLose /\ state = "connected" /\ Cleared(stack)

(***************************************************************************)
(* onRecvData                                                              *)
(***************************************************************************)
CanReenter ==
  /\ Len(stack) < MaxDepth
  /\ \/ Inside("callback") /\ "recv in callback" \in Handlers
     \/ Inside("notify") /\ "recv in notify" \in Handlers

\* RIPCBuffer::append may have to move the data to a larger block, away from under
\* the header that a notification under way still points to.
Deliver(n, moved) ==
  /\ Idle \/ CanReenter
  /\ n \in 1..Len(wire)
  /\ inbuf' = inbuf \o SubSeq(wire, 1, n)
  /\ wire' = SubSeq(wire, n + 1, Len(wire))
  /\ stack' = Append(IF moved THEN Kill(stack, "notify") ELSE stack,
                     [at |-> "loop", id |-> IdZero, live |-> TRUE])
  /\ broken' = (broken \/ Inside("notify"))
  /\ UNCHANGED <<state, seq, cobs, pos, undefined, up, asked, made, ran, notifies, connects>>

Enough == Len(inbuf) > HeaderSize
Header == inbuf[pos + 1]
BadHeader == Len(inbuf) - pos >= HeaderSize => Header.part # 1
Message == Header.msg
CompleteTooLate == Len(inbuf) > Size(Message)
Complete == Len(inbuf) >= Size(Message)
PayloadThere == Len(inbuf) - pos >= Size(Message)

\* RIPCBuffer::commit drops the first len units, wherever m_pos stands.
RestWithHeader(len) == SubSeq(inbuf, len, Len(inbuf))
Rest(len) == SubSeq(inbuf, len + 1, Len(inbuf))
Commit(len) == inbuf' = Rest(len) /\ pos' = 0

LoopEnds ==
  /\ Inside("loop") /\ ~Enough
  /\ stack' = Leave
  /\ UNCHANGED <<state, seq, cobs, inbuf, pos, undefined, broken, made, ran, connects, link>>

\* Wrong magic, too few data for the header or the payload: close().
LoopCloses ==
  /\ Inside("loop") /\ Enough
  /\ ~BadHeader => Complete /\ ~PayloadThere
  /\ Cleared(Leave)

\* The message is not complete: unread() and wait for more.
LoopUnreads ==
  /\ Inside("loop") /\ Enough /\ ~BadHeader /\ ~Complete
  /\ pos' = 0
  /\ stack' = Leave
  /\ UNCHANGED <<state, seq, cobs, inbuf, undefined, broken, made, ran, connects, link>>

HasMessage == Inside("loop") /\ Enough /\ ~BadHeader /\ Complete /\ PayloadThere

\* A broadcast: the application is notified first, the message is committed after.
HandleNotify ==
  /\ HasMessage /\ Message.id = IdZero
  /\ pos' = pos + Size(Message)
  /\ stack' = TopNow([at |-> "notify", id |-> IdZero, live |-> TRUE])
  /\ UNCHANGED <<state, seq, cobs, inbuf, undefined, broken, made, ran, connects, link>>

NotifyReturns ==
  /\ Inside("notify") /\ Top.live
  /\ Commit(NotifySize)
  /\ stack' = Kill(TopNow([at |-> "loop", id |-> IdZero, live |-> TRUE]), "notify")
  /\ UNCHANGED <<state, seq, cobs, undefined, broken, made, ran, connects, link>>

\* No processor, or process() throws: the exception is caught outside the commit.
NotifyFails ==
  /\ Inside("notify") /\ "notify fails" \in Handlers
  /\ stack' = TopNow([at |-> "loop", id |-> IdZero, live |-> TRUE])
  /\ broken' = TRUE
  /\ UNCHANGED <<state, seq, cobs, inbuf, pos, undefined, made, ran, connects, link>>

\* The answer to a pending call: the message is committed first, then the
\* callback runs, then its entry is erased through the iterator found before.
CobBySeq(m) == cobs[seq]
Cob(m) == cobs[m.id]
HandleAnswer ==
  /\ HasMessage /\ Message.id # IdZero /\ Cob(Message) # NoCall
  /\ Commit(Size(Message))
  /\ RunCallback(Cob(Message), Message.call)
  /\ stack' = Kill(TopNow([at |-> "callback", id |-> Message.id, live |-> TRUE]), "notify")
  /\ UNCHANGED <<state, seq, cobs, undefined, broken, made, connects, link>>

CallbackReturns ==
  /\ Inside("callback") /\ Top.live
  /\ cobs' = [cobs EXCEPT ![Top.id] = NoCall]
  /\ stack' = KillEntry(TopNow([at |-> "loop", id |-> IdZero, live |-> TRUE]), Top.id)
  /\ UNCHANGED <<state, seq, inbuf, pos, undefined, broken, made, ran, connects, link>>

\* An answer nobody waits for: close().
HandleUnknown ==
  /\ HasMessage /\ Message.id # IdZero /\ cobs[Message.id] = NoCall
  /\ Cleared(Leave)

\* The callback or the notification comes back to an erased entry or a buffer
\* that has moved on.
UseStale ==
  /\ Inside("callback") \/ Inside("notify")
  /\ ~Top.live
  /\ undefined' = TRUE
  /\ UNCHANGED <<state, seq, cobs, inbuf, pos, stack, broken, made, ran, connects, link>>

(***************************************************************************)
(* The server                                                              *)
(***************************************************************************)
Ask ==
  /\ up # <<>>
  /\ asked' = asked \cup {Head(up)} /\ up' = Tail(up)
  /\ UNCHANGED <<state, seq, cobs, inbuf, pos, stack, undefined, broken, made, ran, connects, wire, notifies>>

\* Jobs end in any order.
Reply(r) ==
  /\ r \in asked
  /\ asked' = asked \ {r} /\ wire' = wire \o Units(r)
  /\ UNCHANGED <<state, seq, cobs, inbuf, pos, stack, undefined, broken, made, ran, connects, up, notifies>>

Broadcast ==
  /\ state = "connected" /\ notifies < MaxNotifies
  /\ wire' = wire \o Units([id |-> IdZero, call |-> NoCall])
  /\ notifies' = notifies + 1
  /\ UNCHANGED <<state, seq, cobs, inbuf, pos, stack, undefined, broken, made, ran, connects, up, asked>>

Loop == LoopEnds \/ LoopCloses \/ LoopUnreads \/ HandleNotify \/ HandleAnswer \/ HandleUnknown
Returns == NotifyReturns \/ NotifyFails \/ CallbackReturns \/ UseStale

Next ==
  \/ \E c \in Calls : InTurn(c) /\ (Refused(c) \/ Send(c) \/ SendFails(c))
  \/ Connect \/ Connected \/ ConnectFails \/ Lost
  \/ \E n \in 1..Len(wire), moved \in BOOLEAN : Deliver(n, moved)
  \/ Loop \/ Returns
  \/ Ask \/ (\E r \in asked : Reply(r)) \/ Broadcast

Spec == Init /\ [][Next]_vars

\* The event loop runs, callbacks come back, the server handles and answers every
\* request; nobody has to call, to broadcast or to end the connection.
FairSpec ==
  /\ Spec
  /\ WF_vars(\E n \in 1..Len(wire), moved \in BOOLEAN : Deliver(n, moved)) /\ WF_vars(Loop) /\ WF_vars(Returns)
  /\ WF_vars(Ask) /\ \A r \in Messages : WF_vars(Reply(r))

(***************************************************************************)
(* Properties                                                              *)
(***************************************************************************)

\* However the stream is cut into pieces and whatever is handled inside a
\* callback, onRecvData looks for a header only where a message begins
\* (ripcclientchannel.cpp:112-129, 415-457, 564).  Only data that come inside the
\* handler of a broadcast, or an exception there, can spoil it (490-503).
StreamInSync ==
  Inside("loop") /\ ~broken =>
    /\ pos = 0
    /\ inbuf # <<>> => inbuf[1].part = 1

Running(c) == \E i \in DOMAIN stack : stack[i].at = "callback" /\ stack[i].live /\ cobs[stack[i].id] = c
InStream(m, q) == \E i \in DOMAIN q : q[i] = [msg |-> m, part |-> Size(m)]
Whereabouts(m) ==
  {x \in {"up", "server", "wire", "buffer"} :
     CASE x = "up"     -> \E i \in DOMAIN up : up[i] = m
       [] x = "server" -> m \in asked
       [] x = "wire"   -> InStream(m, wire)
       [] x = "buffer" -> InStream(m, inbuf)}

\* Each registered callback has its request or answer in exactly one place, with
\* the id it is registered under, or is running: no entry waits for an answer
\* that cannot come, and no answer finds its entry gone (267-336, 545-576).
PendingSomewhere ==
  ~broken => \A i \in Ids :
    LET c == cobs[i] IN
      /\ c # NoCall /\ ran[c] = <<>> => Cardinality(Whereabouts([id |-> i, call |-> c])) = 1
      /\ c # NoCall /\ ran[c] # <<>> => Running(c)
      /\ c = NoCall => \A d \in Calls : Whereabouts([id |-> i, call |-> d]) = {}

Pending(c) == ran[c] = <<>> /\ \E i \in Ids : cobs[i] = c

\* A call that was sent does not stay pending: it gets its answer or goes with the
\* connection, also when its answer comes while another callback runs (415-581).
NoneStaysPending == \A c \in Calls : Pending(c) ~> (~Pending(c) \/ broken \/ undefined)

Contract == INSTANCE CallContract WITH
  waiting <- {c \in Calls : Pending(c)},
  spoilt <- broken

\* Every step of the channel is a step of CallContract or changes nothing there:
\* a callback runs with the answer to its own call, and at most once unless the
\* stream is spoilt, when a message may be read again (546-568).
KeepsContract == Contract!ContractSpec
=============================================================================
