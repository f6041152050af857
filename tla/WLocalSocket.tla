---------------------------- MODULE WLocalSocket ----------------------------
(***************************************************************************)
(* RLocalSocketImpl, the socket of the Windows build                       *)
(* (ripcqccomponent/ipcbase/rlocalsocket.cpp): overlapped reads and writes *)
(* of a named pipe by a worker thread of its own, whose results reach the  *)
(* owner's thread as messages posted to a hidden window.                   *)
(*                                                                         *)
(* Two threads share the object without a lock.  The owner's thread runs   *)
(* the channel above the socket: RIPCClientChannel, which connects, or     *)
(* RIPCServerConnectionPrivate, which is handed an accepted pipe; both     *)
(* close the socket on an error.  The worker waits for the quit, connect,  *)
(* write and read notifications and for completions of its operations.     *)
(* Pipe and kernel are environment.                                        *)
(***************************************************************************)
EXTENDS Integers, Sequences, FiniteSets, SequencesExt

CONSTANTS Ways,        \* how a connection starts: "connect", "accept"
          Capacity,    \* MAX_SEM_COUNT: of the queue and of the semaphore
          MaxOpens, MaxWrites, MaxPeerWrites  \* bounds

ASSUME SocketAssumption ==
  /\ Ways \subseteq {"connect", "accept"}
  /\ Capacity \in Nat \ {0}
  /\ MaxOpens \in Nat /\ MaxWrites \in Nat /\ MaxPeerWrites \in Nat

VARIABLES
  m_state, m_hPipe,        \* m_hPipe: the number of a connection, or Invalid
  main, then,              \* what the owner's thread is in, what close() is for
  window,                  \* messages posted to m_hNotifyWnd; it exists while `running'
  running,                 \* init() called and not term()
  quit, connecting, reading, waitWritten, \* m_notifyHandlers, the third a semaphore
  queue,                   \* m_pWrittenQueue
  thread, todo,            \* the worker; the bits of its curState still to serve
  write, read,             \* m_pPipeInsWrite, m_pPipeInsRead
  writeIO, readIO,         \* the overlapped operations
  peerUp, toPeer, fromPeer, \* the pipe: the other end is open; what it carries
  conn, accepted, sent, got, heard \* history of the connection

Invalid == 0
owner == <<main, then, running>>
events == <<quit, connecting, reading, waitWritten>>
worker == <<thread, todo>>
pipe == <<peerUp, toPeer, fromPeer>>
instances == <<write, read, writeIO, readIO>>
history == <<conn, accepted, sent, got, heard>>
vars == <<m_state, m_hPipe, owner, window, events, queue, worker, instances, pipe, history>>

Posts == {"connected", "disconnected", "error", "data"}
IOStates == {"none", "pending", "done", "failed"}
Numbers == 0..MaxPeerWrites + MaxWrites

TypeOK ==
  /\ m_state \in {"unconnected", "connecting", "connected", "closing"}
  /\ m_hPipe \in 0..MaxOpens
  /\ main \in {"idle", "connecting", "disconnecting", "disconnected", "terminating", "joining", "joined"}
  /\ then \in {"idle", "connect", "delete"} /\ running \in BOOLEAN
  /\ window \in Seq([msg : Posts, data : Numbers])
  /\ quit \in BOOLEAN /\ connecting \in BOOLEAN /\ reading \in BOOLEAN
  /\ waitWritten \in 0..Capacity /\ queue \in Seq(Numbers)
  /\ thread \in {"none", "runs", "ended"} /\ todo \subseteq {"connect", "write", "read"}
  /\ write \in [hPipeInst : 0..MaxOpens, bWritting : BOOLEAN, bSuccess : BOOLEAN, data : Numbers]
  /\ read \in [hPipeInst : 0..MaxOpens, bReading : BOOLEAN, bSuccess : BOOLEAN, data : Numbers]
  /\ writeIO \in IOStates /\ readIO \in IOStates
  /\ peerUp \in BOOLEAN /\ toPeer \in Seq(Numbers) /\ fromPeer \in Seq(Numbers)
  /\ conn \in 0..MaxOpens /\ accepted \in Seq(Numbers) /\ sent \in Numbers /\ got \in Seq(Numbers)
  /\ heard \in Seq({"connected", "disconnected"})

Init ==
  /\ m_state = "unconnected" /\ m_hPipe = Invalid
  /\ main = "idle" /\ then = "idle" /\ running = FALSE /\ window = <<>>
  /\ quit = FALSE /\ connecting = FALSE /\ reading = FALSE /\ waitWritten = 0
  /\ queue = <<>> /\ thread = "none" /\ todo = {}
  /\ write = [hPipeInst |-> Invalid, bWritting |-> FALSE, bSuccess |-> TRUE, data |-> 0]
  /\ read = [hPipeInst |-> Invalid, bReading |-> FALSE, bSuccess |-> TRUE, data |-> 0]
  /\ writeIO = "none" /\ readIO = "none"
  /\ peerUp = FALSE /\ toPeer = <<>> /\ fromPeer = <<>>
  /\ conn = 0 /\ accepted = <<>> /\ sent = 0 /\ got = <<>> /\ heard = <<>>

Posted(m, d) == <<[msg |-> m, data |-> d]>>

(***************************************************************************)
(* The owner: opening                                                      *)
(***************************************************************************)
Idle == main = "idle"

\* init(): new window, events, queue and instances, and a worker that waits.
Fresh ==
  /\ conn < MaxOpens /\ conn' = conn + 1
  /\ running' = TRUE /\ queue' = <<>> /\ quit' = FALSE /\ waitWritten' = 0
  /\ thread' = "runs" /\ todo' = {} /\ writeIO' = "none" /\ readIO' = "none"
  /\ toPeer' = <<>> /\ fromPeer' = <<>>
  /\ accepted' = <<>> /\ sent' = 0 /\ got' = <<>> /\ heard' = <<>>

Instances(n) ==
  /\ write' = [hPipeInst |-> n, bWritting |-> FALSE, bSuccess |-> TRUE, data |-> 0]
  /\ read' = [hPipeInst |-> n, bReading |-> FALSE, bSuccess |-> TRUE, data |-> 0]

\* RIPCClientChannel::connectToServer: init() and connectToServer() on a socket
\* that is not running ...
Connect ==
  /\ "connect" \in Ways /\ ~running
  /\ main \in {"idle", "joined"} /\ main' = "connecting" /\ then' = "idle"
  /\ Fresh /\ Instances(Invalid)
  /\ m_state' = "connecting"
  /\ connecting' = TRUE /\ reading' = FALSE /\ peerUp' = FALSE
  /\ UNCHANGED <<m_hPipe, window>>

\* ... and after close() on one that ran and lost its connection.
ConnectAgain ==
  /\ Idle /\ "connect" \in Ways /\ conn < MaxOpens /\ running /\ m_state = "unconnected"
  /\ main' = "disconnecting" /\ then' = "connect"
  /\ UNCHANGED <<m_state, m_hPipe, running, window, events, queue, worker, instances, pipe, history>>

\* Then read(), unless the worker has failed to connect already.
ConnectReads ==
  /\ main = "connecting" /\ main' = "idle"
  /\ reading' = (m_state # "unconnected")
  /\ UNCHANGED <<m_state, m_hPipe, then, running, window, quit, connecting, waitWritten,
                 queue, worker, instances, pipe, history>>

\* RIPCServerConnectionPrivate::initialize(): init(), setSocketDescriptor(), read().
Accept ==
  /\ Idle /\ "accept" \in Ways /\ ~running
  /\ Fresh /\ Instances(conn + 1) /\ m_hPipe' = conn + 1
  /\ m_state' = "connected" /\ window' = window \o Posted("connected", 0)
  /\ connecting' = FALSE /\ reading' = TRUE /\ peerUp' = TRUE
  /\ UNCHANGED <<main, then>>

(***************************************************************************)
(* The owner: write() and the notifications                                *)
(***************************************************************************)

\* A push and a release of the semaphore, which fails silently at its maximum
\* ("message is enqueued but fails to notify").
IsFull == Len(queue) = Capacity
NoRelease == waitWritten  \* mutant
Release == IF waitWritten < Capacity THEN waitWritten + 1 ELSE waitWritten
Write ==
  /\ Idle /\ running /\ m_state \in {"connecting", "connected"}
  /\ ~IsFull /\ Len(accepted) < MaxWrites
  /\ queue' = Append(queue, Len(accepted) + 1)
  /\ waitWritten' = Release
  /\ accepted' = Append(accepted, Len(accepted) + 1)
  /\ UNCHANGED <<m_state, m_hPipe, owner, window, quit, connecting, reading, worker, instances,
                 pipe, conn, sent, got, heard>>

\* notifyWndProc, and what the channel does: close() on an error.
Deliver ==
  /\ Idle /\ window # <<>> /\ window' = Tail(window)
  /\ LET m == Head(window) IN
     /\ heard' = IF m.msg \in {"connected", "disconnected"} THEN Append(heard, m.msg) ELSE heard
     /\ got' = IF m.msg = "data" THEN Append(got, m.data) ELSE got
     /\ main' = IF m.msg = "error" THEN "disconnecting" ELSE main
  /\ UNCHANGED <<m_state, m_hPipe, then, running, events, queue, worker, instances, pipe,
                 conn, accepted, sent>>

(***************************************************************************)
(* The owner: close(), that is disconnectFromServer() and term()           *)
(***************************************************************************)

\* The owner closes and deletes the socket: ~RIPCClientChannel, or terminate()
\* of a server connection.
Close ==
  /\ Idle /\ running /\ main' = "disconnecting" /\ then' = "delete"
  /\ UNCHANGED <<m_state, m_hPipe, running, window, events, queue, worker, instances, pipe, history>>

NothingOpen ==
  /\ main = "disconnecting" /\ m_hPipe = Invalid /\ main' = "terminating"
  /\ UNCHANGED <<m_state, m_hPipe, then, running, window, events, queue, worker, instances, pipe, history>>

\* Up to CloseHandle: the kernel cancels the operations on the handle.  (The
\* wait for m_notifyConnected spans the last assignments of doConnecting, one
\* step here.)
Broken(io) == IF io = "pending" THEN "failed" ELSE io
CloseHandle ==
  /\ main = "disconnecting" /\ m_hPipe # Invalid /\ main' = "disconnected"
  /\ m_state' = "closing" /\ m_hPipe' = Invalid
  /\ peerUp' = FALSE /\ writeIO' = Broken(writeIO) /\ readIO' = Broken(readIO)
  /\ UNCHANGED <<then, running, window, events, queue, worker, write, read, toPeer, fromPeer, history>>

\* The second half of disconnectFromServer.
Disconnected ==
  /\ main = "disconnected" /\ main' = "terminating"
  /\ write' = [write EXCEPT !.hPipeInst = Invalid, !.bSuccess = FALSE]
  /\ read' = [read EXCEPT !.hPipeInst = Invalid, !.bSuccess = FALSE]
  /\ m_state' = "unconnected" /\ window' = window \o Posted("disconnected", 0)
  /\ UNCHANGED <<m_hPipe, then, running, events, queue, worker, writeIO, readIO, pipe, history>>

TermQuits ==
  /\ main = "terminating" /\ running /\ quit' = TRUE /\ main' = "joining"
  /\ UNCHANGED <<m_state, m_hPipe, then, running, window, connecting, reading, waitWritten,
                 queue, worker, instances, pipe, history>>

\* The worker has ended, or is in WaitNamedPipe for longer than DEF_WAIT_TIMEOUT
\* and is terminated.  The window goes, with the messages still posted to it.
KeepPosted == window  \* mutant
DestroyWindow == <<>>
TermJoins ==
  /\ main = "joining" /\ (thread = "ended" \/ "connect" \in todo)
  /\ main' = IF then = "connect" THEN "joined" ELSE "idle"
  /\ running' = FALSE /\ thread' = "none" /\ todo' = {}
  /\ then' = IF then = "connect" THEN then ELSE "idle"
  /\ m_hPipe' = IF then = "delete" THEN Invalid ELSE m_hPipe
  /\ m_state' = "unconnected" /\ queue' = <<>> /\ window' = DestroyWindow
  /\ UNCHANGED <<events, instances, pipe, history>>

(***************************************************************************)
(* The worker: workingFunc                                                 *)
(***************************************************************************)
Waits == thread = "runs" /\ todo = {}

WakeQuit ==
  /\ Waits /\ quit /\ thread' = "ended" /\ quit' = FALSE
  /\ UNCHANGED <<m_state, m_hPipe, owner, window, connecting, reading, waitWritten, queue, todo,
                 instances, pipe, history>>

WakeConnecting ==
  /\ Waits /\ ~quit /\ connecting /\ connecting' = FALSE /\ todo' = {"connect"}
  /\ UNCHANGED <<m_state, m_hPipe, owner, window, quit, reading, waitWritten, queue, thread,
                 instances, pipe, history>>

WakeWritten ==
  /\ Waits /\ ~quit /\ ~connecting /\ waitWritten > 0
  /\ waitWritten' = waitWritten - 1 /\ todo' = {"write"}
  /\ UNCHANGED <<m_state, m_hPipe, owner, window, quit, connecting, reading, queue, thread,
                 instances, pipe, history>>

WakeRead ==
  /\ Waits /\ ~quit /\ ~connecting /\ waitWritten = 0 /\ reading
  /\ reading' = FALSE /\ todo' = {"read"}
  /\ UNCHANGED <<m_state, m_hPipe, owner, window, quit, connecting, waitWritten, queue, thread,
                 instances, pipe, history>>

\* setError() with its default argument: every failure is posted as UnknownSocketError.
Lost == IF m_state # "unconnected" THEN Posted("disconnected", 0) ELSE <<>>
SetError == m_state' = "unconnected" /\ window' = window \o Lost \o Posted("error", 0)

\* WAIT_IO_COMPLETION: the completion routines of the finished operations, then
\* ioCompletHandle.
Finished == {"done", "failed"}
ReadAnyway(r) == TRUE  \* mutant
MayRead(r) == ~r.bReading
WriteNext == IF write'.bSuccess /\ ~write'.bWritting THEN {"write"} ELSE {}
ReadNext == IF read'.bSuccess /\ MayRead(read') THEN {"read"} ELSE {}
NextEither == IF WriteNext # {} THEN WriteNext ELSE ReadNext  \* mutant
NextIO == WriteNext \cup ReadNext
Errors == (IF readIO = "failed" THEN Posted("error", 0) ELSE <<>>) \o
          (IF writeIO = "failed" THEN Posted("error", 0) ELSE <<>>)
Ends == IF Errors = <<>> THEN <<>> ELSE Lost \o Errors
Data == IF readIO = "done" THEN Posted("data", read.data) ELSE <<>>
Left(io) == IF io \in Finished THEN "none" ELSE io
Completion ==
  /\ Waits /\ {readIO, writeIO} \cap Finished # {}
  /\ window' \in {window \o Data \o Ends, window \o Ends \o Data}
  /\ m_state' = IF Errors = <<>> THEN m_state ELSE "unconnected"
  /\ read' = [read EXCEPT !.bReading = @ /\ readIO # "done"]
  /\ write' = [write EXCEPT !.bWritting = @ /\ writeIO # "done"]
  /\ readIO' = Left(readIO) /\ writeIO' = Left(writeIO)
  /\ todo' = NextIO
  /\ UNCHANGED <<m_hPipe, owner, events, queue, thread, pipe, history>>

\* doConnecting.
Connects ==
  /\ "connect" \in todo /\ todo' = {}
  /\ \/ /\ m_hPipe' = conn /\ peerUp' = TRUE
        /\ write' = [write EXCEPT !.hPipeInst = conn, !.bSuccess = TRUE]
        /\ read' = [read EXCEPT !.hPipeInst = conn, !.bSuccess = TRUE]
        /\ m_state' = "connected" /\ window' = window \o Posted("connected", 0)
     \/ /\ m_state' = "unconnected" /\ window' = window \o Posted("error", 0)
        /\ UNCHANGED <<m_hPipe, peerUp, write, read>>
  /\ UNCHANGED <<owner, events, queue, thread, writeIO, readIO, toPeer, fromPeer, history>>

\* WriteFileEx and ReadFileEx start if this end and the other are open.
Open(inst) == peerUp /\ inst.hPipeInst = conn /\ m_hPipe = conn

\* doWriteMessage.
WriteAgain == write.bSuccess /\ queue # <<>> /\ writeIO # "failed"  \* mutant
MayWrite == write.bSuccess /\ ~write.bWritting /\ queue # <<>>
DoWrite ==
  /\ "write" \in todo /\ todo' = todo \ {"write"}
  /\ IF MayWrite
     THEN /\ queue' = Tail(queue)
          /\ write' = [write EXCEPT !.bWritting = TRUE, !.data = Head(queue), !.bSuccess = Open(write)]
          /\ IF Open(write) THEN writeIO' = "pending" /\ UNCHANGED <<m_state, window>>
             ELSE SetError /\ UNCHANGED writeIO
     ELSE UNCHANGED <<queue, write, writeIO, m_state, window>>
  /\ UNCHANGED <<m_hPipe, owner, events, thread, read, readIO, pipe, history>>

\* doReadMessage.
DoRead ==
  /\ todo = {"read"} /\ todo' = {}
  /\ IF MayRead(read)
     THEN /\ read' = [read EXCEPT !.bReading = TRUE, !.bSuccess = @ /\ Open(read)]
          /\ IF Open(read) THEN readIO' = "pending" /\ UNCHANGED <<m_state, window>>
             ELSE SetError /\ UNCHANGED readIO
     ELSE UNCHANGED <<read, readIO, m_state, window>>
  /\ UNCHANGED <<m_hPipe, owner, events, queue, thread, write, writeIO, pipe, history>>

(***************************************************************************)
(* The pipe                                                                *)
(***************************************************************************)
KernelWrites ==
  /\ writeIO = "pending" /\ peerUp /\ writeIO' = "done" /\ toPeer' = Append(toPeer, write.data)
  /\ UNCHANGED <<m_state, m_hPipe, owner, window, events, queue, worker, write, read, readIO,
                 peerUp, fromPeer, history>>

KernelReads ==
  /\ readIO = "pending" /\ peerUp /\ fromPeer # <<>>
  /\ readIO' = "done" /\ read' = [read EXCEPT !.data = Head(fromPeer)] /\ fromPeer' = Tail(fromPeer)
  /\ UNCHANGED <<m_state, m_hPipe, owner, window, events, queue, worker, write, writeIO,
                 peerUp, toPeer, history>>

PeerWrites ==
  /\ peerUp /\ sent < MaxPeerWrites /\ sent' = sent + 1 /\ fromPeer' = Append(fromPeer, sent')
  /\ UNCHANGED <<m_state, m_hPipe, owner, window, events, queue, worker, instances, peerUp, toPeer,
                 conn, accepted, got, heard>>

\* DisconnectNamedPipe at the other end: unread data are lost.
PeerCloses ==
  /\ peerUp /\ peerUp' = FALSE /\ fromPeer' = <<>>
  /\ writeIO' = Broken(writeIO) /\ readIO' = Broken(readIO)
  /\ UNCHANGED <<m_state, m_hPipe, owner, window, events, queue, worker, write, read, toPeer, history>>

(***************************************************************************)
Owner == Connect \/ ConnectAgain \/ ConnectReads \/ Accept \/ Write \/ Deliver \/ Close
OwnerCloses == NothingOpen \/ CloseHandle \/ Disconnected \/ TermQuits \/ TermJoins
Worker == WakeQuit \/ WakeConnecting \/ WakeWritten \/ WakeRead \/ Completion
          \/ Connects \/ DoWrite \/ DoRead
Kernel == KernelWrites \/ KernelReads
Next == Owner \/ OwnerCloses \/ Worker \/ Kernel \/ PeerWrites \/ PeerCloses

Spec == Init /\ [][Next]_vars

\* The owner's thread and the worker are running threads, the owner pumps its
\* messages, and a wait for several objects and completions does not pass over
\* a finished completion for ever.
FairSpec ==
  /\ Spec
  /\ WF_vars(Connect /\ main = "joined") /\ WF_vars(ConnectReads)
  /\ WF_vars(Deliver) /\ WF_vars(OwnerCloses)
  /\ WF_vars(Worker) /\ WF_vars(Kernel)

(***************************************************************************)
(* Properties                                                              *)
(***************************************************************************)

\* The pipe carries what write() accepted, in order and without a gap: one
\* buffer serves every overlapped write, and the owner fills the queue while
\* the worker and the completion routine empty it (lines 640-706, 966-1002).
UnderWay == IF writeIO \in {"pending", "failed"} THEN <<write.data>> ELSE <<>>
StreamInOrder ==
  /\ IsPrefix(toPeer, accepted)
  /\ m_state \in {"connecting", "connected"} /\ write.bSuccess
     => accepted = toPeer \o UnderWay \o queue

\* What the other end sends reaches onRecvData in order and without a gap,
\* through one read buffer and the message queue of a window that goes with
\* its connection (lines 708-748, 928-964, 354).
DataPlaces == {i \in DOMAIN window : window[i].msg = "data"}
PostedData ==
  LET place(k) == CHOOSE i \in DataPlaces : Cardinality({j \in DataPlaces : j <= i}) = k
  IN  [k \in 1..Cardinality(DataPlaces) |-> window[place(k)].data]
Arrived == got \o PostedData \o IF readIO = "done" THEN <<read.data>> ELSE <<>>
ReadInOrder ==
  running => /\ IsPrefix(Arrived, [i \in 1..sent |-> i])
             /\ peerUp => Arrived \o fromPeer = [i \in 1..sent |-> i]

\* The channel hears of each connection: connected, data, disconnected, each
\* end at most once and nothing of an earlier connection, although setError and
\* disconnectFromServer both post the end (lines 405-426, 587-637, 354).
HeardInOrder ==
  [][/\ conn' = conn /\ got' # got => heard = <<"connected">>
     /\ IsPrefix(heard', <<"connected", "disconnected">>)]_vars

\* What write() accepted is written, unless the connection ends: a release that
\* failed at the semaphore's maximum (the FIXME at line 477) and a wake-up spent
\* while another write was under way do no harm (lines 464-491, 640-706, 872-876).
EverySliceLeaves ==
  \A n \in 1..MaxWrites :
    Len(accepted) >= n ~> (Len(toPeer) >= n \/ m_state \notin {"connecting", "connected"})

\* A connection the other end closed is closed at this end: a read is always
\* under way, or about to be, to notice it.
LossIsNoticed == (m_state = "connected" /\ ~peerUp) ~> ~running
=============================================================================
