---------------------------- MODULE ServicesHost ----------------------------
(***************************************************************************)
(* How the server answers (ripcqccomponent/ripcqcserviceshost.cpp and the  *)
(* data proxies, rpc_srv_demo_linux/src): a connection's thread registers  *)
(* a handler under the request id and submits a job; a worker of the       *)
(* thread pool ends the job, takes the handler out of the map, fills in    *)
(* the result and posts the handler back to the connection's thread, which *)
(* sends the answer and deletes the handler.  All author requests and the  *)
(* server's own timer write the one author status without a lock.          *)
(*                                                                         *)
(* The pool appears as what RThreadPool shows of it: each submitted job is *)
(* run by one worker, several jobs at a time, in no fixed order.           *)
(***************************************************************************)
EXTENDS Integers, Sequences, FiniteSets

CONSTANTS Conns, Reqs, NoReq,
          ConnOf,   \* the connection each request comes from
          Logins,   \* userLogin; the others are queryAuthorStatus
          ReqIds,   \* ids the clients choose for queryAuthorStatus
          IdOf,
          NoOwner,
          Leaving,  \* connections whose client may leave
          MaxTicks  \* bound on the timer's updates of the author status

ASSUME HostAssumption ==
  /\ Logins \subseteq Reqs /\ NoReq \notin Reqs /\ ReqIds \cap Reqs = {}
  /\ ConnOf \in [Reqs -> Conns] /\ IdOf \in [Reqs \ Logins -> ReqIds]
  /\ Leaving \subseteq Conns /\ NoOwner \notin Conns \cup Reqs /\ MaxTicks \in {0, 1}

\* userLogin makes up a fresh id, queryAuthorStatus uses the client's.
Key(r) == IF r \in Logins THEN r ELSE IdOf[r]
Keys == ReqIds \cup Logins
Map(r) == IF r \in Logins THEN "login" ELSE "author"

VARIABLES
  conn,          \* of the connection object and its socket
  cpc, creq,     \* the connection's thread inside process()
  posted,        \* handlers invoked, in the connection thread's queue
  handlers,      \* m_mapAuthorStatusCob and m_mapLoginInfoCob
  mutex,         \* m_pAuthorStatusMutex, m_pLoginInfoMutex
  job, found,    \* the job of each request; the map entry it has found
  status, info,  \* m_pAuthorStatus: who wrote each field last
  infoWriters,   \* inside the assignment of strAutorInfo
  timer, ticks,
  result,        \* m_result of each handler
  answers,       \* number of answers sent to the client for each request
  newStatus, newInfo  \* who has written each field since the request's own job did

connvars   == <<conn, cpc, creq, posted, answers>>
mapvars    == <<handlers, mutex>>
jobvars    == <<job, found>>
statusvars == <<status, info, infoWriters, newStatus, newInfo>>
timervars  == <<timer, ticks>>
vars == <<connvars, mapvars, jobvars, statusvars, timervars, result>>

Writers == Reqs \cup {"timer", "initial"}
Results == [status : Writers \cup {"none"}, info : Writers \cup {"none", "torn"}]
NoResult == [status |-> "none", info |-> "none"]

TypeOK ==
  /\ conn \in [Conns -> {"up", "down"}]
  /\ cpc \in [Conns -> {"idle", "register", "insert", "submit", "duplicate", "copy"}]
  /\ creq \in [Conns -> Reqs \cup {NoReq}] /\ posted \in [Conns -> Seq(Reqs)]
  /\ handlers \in [Keys -> Reqs \cup {NoReq}]
  /\ mutex \in [{"author", "login"} -> Conns \cup Reqs \cup {NoOwner}]
  /\ job \in [Reqs -> {"none", "queued", "write", "end", "find", "lock", "erase", "result", "copy",
                       "invoke", "done", "missed", "absent"}]
  /\ found \in [Reqs -> Reqs \cup {NoReq}]
  /\ status \in Writers /\ info \in Writers \cup {"torn"}
  /\ infoWriters \subseteq Writers \cup {"clash"}
  /\ timer \in {"idle", "write", "end"} /\ ticks \in 0..MaxTicks
  /\ result \in [Reqs -> Results] /\ answers \in [Reqs -> 0..1]
  /\ newStatus \in [Reqs -> SUBSET Writers] /\ newInfo \in [Reqs -> SUBSET Writers]

Init ==
  /\ conn = [c \in Conns |-> "up"] /\ cpc = [c \in Conns |-> "idle"]
  /\ creq = [c \in Conns |-> NoReq] /\ posted = [c \in Conns |-> <<>>]
  /\ handlers = [k \in Keys |-> NoReq] /\ mutex = [m \in {"author", "login"} |-> NoOwner]
  /\ job = [r \in Reqs |-> "none"] /\ found = [r \in Reqs |-> NoReq]
  /\ status = "initial" /\ info = "initial" /\ infoWriters = {}
  /\ timer = "idle" /\ ticks = 0
  /\ result = [r \in Reqs |-> NoResult] /\ answers = [r \in Reqs |-> 0]
  /\ newStatus = [r \in Reqs |-> {}] /\ newInfo = [r \in Reqs |-> {}]

(***************************************************************************)
(* The shared author status                                                *)
(***************************************************************************)
Noted(seen, w) == [r \in Reqs |-> IF r = w \/ seen[r] # {} THEN seen[r] \cup {w} ELSE {}]
WriteStatus(w) == status' = w /\ newStatus' = Noted(newStatus, w)

\* The assignment of a std::string is not atomic: until it ends readers find
\* anything, and two assignments at a time leave anything behind.
BeginInfo(w) ==
  /\ infoWriters' = infoWriters \cup {w} \cup (IF infoWriters = {} THEN {} ELSE {"clash"})
  /\ info' = "torn"
EndInfo(w) ==
  LET others == infoWriters \ {w} IN
    /\ infoWriters' = IF others = {"clash"} THEN {} ELSE others
    /\ info' = IF others = {} THEN w ELSE "torn"
    /\ newInfo' = Noted(newInfo, w)

\* onServerAuthorStatus on the main thread; the notification is ConnectionRegistry's.
Timer ==
  /\ \/ /\ timer = "idle" /\ ticks < MaxTicks
        /\ timer' = "write" /\ ticks' = ticks + 1
        /\ WriteStatus("timer")
        /\ UNCHANGED <<info, infoWriters, newInfo>>
     \/ /\ timer = "write" /\ timer' = "end"
        /\ BeginInfo("timer")
        /\ UNCHANGED <<status, newStatus, newInfo, ticks>>
     \/ /\ timer = "end" /\ timer' = "idle"
        /\ EndInfo("timer")
        /\ UNCHANGED <<status, newStatus, ticks>>
  /\ UNCHANGED <<connvars, mapvars, jobvars, result>>

(***************************************************************************)
(* A connection and its thread                                             *)
(***************************************************************************)

\* reqAuthorStatus, reqUserLogin: register, then submit (mutant: the other way round).
SubmitFirst == "submit"
RegisterFirst == "register"
Receive(c, r) ==
  /\ conn[c] = "up" /\ cpc[c] = "idle" /\ ConnOf[r] = c
  /\ job[r] = "none" /\ answers[r] = 0 /\ \A i \in DOMAIN posted[c] : posted[c][i] # r
  /\ result[r] = NoResult
  /\ cpc' = [cpc EXCEPT ![c] = RegisterFirst] /\ creq' = [creq EXCEPT ![c] = r]
  /\ UNCHANGED <<conn, posted, answers, mapvars, jobvars, statusvars, timervars, result>>

LockMap(c) ==
  /\ cpc[c] = "register" /\ mutex[Map(creq[c])] = NoOwner
  /\ mutex' = [mutex EXCEPT ![Map(creq[c])] = c]
  /\ cpc' = [cpc EXCEPT ![c] = "insert"]
  /\ UNCHANGED <<conn, creq, posted, answers, handlers, jobvars, statusvars, timervars, result>>

\* map::insert keeps an entry that is there (mutants: operator[]; a request whose id
\* is taken is forgotten).
Forget == "idle"
IdTaken == "duplicate"
AlwaysNew(k) == TRUE
IsNew(k) == handlers[k] = NoReq
Insert(c) ==
  LET r == creq[c]  k == Key(r) IN
    /\ cpc[c] = "insert"
    /\ handlers' = IF IsNew(k) THEN [handlers EXCEPT ![k] = r] ELSE handlers
    /\ cpc' = [cpc EXCEPT ![c] = IF IsNew(k) THEN "submit" ELSE IdTaken]
    /\ mutex' = [mutex EXCEPT ![Map(r)] = NoOwner]
    /\ UNCHANGED <<conn, creq, posted, answers, jobvars, statusvars, timervars, result>>

Submit(c) ==
  /\ cpc[c] = "submit"
  /\ job' = [job EXCEPT ![creq[c]] = "queued"]
  /\ cpc' = [cpc EXCEPT ![c] = "idle"] /\ creq' = [creq EXCEPT ![c] = NoReq]
  /\ UNCHANGED <<conn, posted, answers, mapvars, found, statusvars, timervars, result>>

\* The id is taken: the answer is the author status as it stands.
Post(r) == posted' = [posted EXCEPT ![ConnOf[r]] = Append(@, r)]
Duplicate(c) ==
  LET r == creq[c] IN
    /\ \/ /\ cpc[c] = "duplicate" /\ cpc' = [cpc EXCEPT ![c] = "copy"]
          /\ result' = [result EXCEPT ![r].status = status]
          /\ UNCHANGED <<creq, posted>>
       \/ /\ cpc[c] = "copy" /\ cpc' = [cpc EXCEPT ![c] = "idle"]
          /\ result' = [result EXCEPT ![r].info = info]
          /\ Post(r) /\ creq' = [creq EXCEPT ![c] = NoReq]
    /\ UNCHANGED <<conn, answers, mapvars, jobvars, statusvars, timervars>>

\* toInvoke: sendMessage drops the answer when the socket is not connected.
Deliver(c) ==
  /\ cpc[c] = "idle" /\ posted[c] # <<>>
  /\ LET r == Head(posted[c]) IN
       /\ answers' = IF conn[c] = "up" THEN [answers EXCEPT ![r] = @ + 1] ELSE answers
       /\ result' = [result EXCEPT ![r] = NoResult]
  /\ posted' = [posted EXCEPT ![c] = Tail(@)]
  /\ UNCHANGED <<conn, cpc, creq, mapvars, jobvars, statusvars, timervars>>

\* The connection ends between two events of its thread; what is posted to it later
\* is dropped, by sendMessage or because its thread has ended.
PeerCloses(c) ==
  /\ c \in Leaving /\ conn[c] = "up" /\ cpc[c] = "idle"
  /\ conn' = [conn EXCEPT ![c] = "down"]
  /\ UNCHANGED <<cpc, creq, posted, answers, mapvars, jobvars, statusvars, timervars, result>>

(***************************************************************************)
(* A worker at the end of a job                                            *)
(***************************************************************************)
To(r, pc) == job' = [job EXCEPT ![r] = pc]

\* onAuthorStatus writes the author status first, onLoginResult has none.
WriteBack(r) ==
  /\ r \notin Logins
  /\ \/ job[r] = "queued" /\ To(r, "write") /\ WriteStatus(r)
        /\ UNCHANGED <<info, infoWriters, newInfo>>
     \/ job[r] = "write" /\ To(r, "end") /\ BeginInfo(r) /\ UNCHANGED <<status, newStatus, newInfo>>
     \/ job[r] = "end" /\ To(r, "find") /\ EndInfo(r) /\ UNCHANGED <<status, newStatus>>
  /\ UNCHANGED <<connvars, mapvars, found, timervars, result>>

\* getAuthorInfoCob, getLoginInfoCob: find without the mutex; beside an insertion
\* or an erasure it may miss the entry.
MayFind(r) == job[r] = (IF r \in Logins THEN "queued" ELSE "find")
Find(r) ==
  /\ MayFind(r)
  /\ IF handlers[Key(r)] = NoReq
       THEN To(r, "absent") /\ UNCHANGED found
       ELSE \/ To(r, "lock") /\ found' = [found EXCEPT ![r] = handlers[Key(r)]]
            \/ mutex[Map(r)] # NoOwner /\ To(r, "missed") /\ UNCHANGED found
  /\ UNCHANGED <<connvars, mapvars, statusvars, timervars, result>>

LockErase(r) ==
  /\ job[r] = "lock" /\ mutex[Map(r)] = NoOwner
  /\ mutex' = [mutex EXCEPT ![Map(r)] = r]
  /\ To(r, "erase")
  /\ UNCHANGED <<connvars, handlers, found, statusvars, timervars, result>>

\* (Mutant: the entry stays.)
KeepEntry(k) == handlers
EraseEntry(k) == [handlers EXCEPT ![k] = NoReq]
Erase(r) ==
  /\ job[r] = "erase"
  /\ handlers' = EraseEntry(Key(found[r]))
  /\ mutex' = [mutex EXCEPT ![Map(r)] = NoOwner]
  /\ To(r, "result")
  /\ UNCHANGED <<connvars, found, statusvars, timervars, result>>

\* The author status is copied field by field; a login has its own result
\* (mutant: the status the job found when it was queued).
InitialStatus == "initial"
CurrentStatus == status
Fill(r) ==
  /\ \/ /\ job[r] = "result" /\ r \in Logins /\ To(r, "invoke")
        /\ result' = [result EXCEPT ![found[r]] = [status |-> r, info |-> r]]
     \/ /\ job[r] = "result" /\ r \notin Logins /\ To(r, "copy")
        /\ result' = [result EXCEPT ![found[r]].status = CurrentStatus]
     \/ /\ job[r] = "copy" /\ To(r, "invoke")
        /\ result' = [result EXCEPT ![found[r]].info = info]
  /\ UNCHANGED <<connvars, mapvars, found, statusvars, timervars>>

\* invoke posts the handler to the thread that made it.
Invoke(r) ==
  /\ job[r] = "invoke"
  /\ To(r, "done") /\ Post(found[r]) /\ found' = [found EXCEPT ![r] = NoReq]
  /\ newStatus' = [newStatus EXCEPT ![r] = {}] /\ newInfo' = [newInfo EXCEPT ![r] = {}]
  /\ UNCHANGED <<conn, cpc, creq, answers, mapvars, status, info, infoWriters, timervars, result>>

Worker(r) == WriteBack(r) \/ Find(r) \/ LockErase(r) \/ Erase(r) \/ Fill(r) \/ Invoke(r)
OwnThread(c) == LockMap(c) \/ Insert(c) \/ Submit(c) \/ Duplicate(c) \/ Deliver(c)

Next ==
  \/ \E c \in Conns : OwnThread(c) \/ PeerCloses(c) \/ \E r \in Reqs : Receive(c, r)
  \/ \E r \in Reqs : Worker(r)
  \/ Timer

Spec == Init /\ [][Next]_vars

\* Threads inside a request go on; the pool takes every job (RThreadPool,
\* JobsTakenWhileThreads).
FairSpec ==
  /\ Spec
  /\ \A c \in Conns : WF_vars(OwnThread(c))
  /\ \A r \in Reqs : WF_vars(Worker(r))

(***************************************************************************)
(* Properties                                                              *)
(***************************************************************************)
Carried(r) == {w \in Reqs : found[w] = r /\ job[w] \in {"result", "copy", "invoke"}}
InMap(r) == {k \in Keys : handlers[k] = r}
Queued(r) == {x \in UNION {{c} \X DOMAIN posted[c] : c \in Conns} : posted[x[1]][x[2]] = r}
Held(r) == {c \in Conns : creq[c] = r /\ cpc[c] # "submit"}

\* The handler of a request is in one place at a time: with the connection's thread,
\* in the map, with a worker, in the queue, or answered and deleted; nobody answers
\* or deletes it twice (ripcqchandlercob.h:18-32, ripcqcservicesdataproxy.cpp:56-82).
HandlerInOnePlace ==
  \A r \in Reqs :
    Cardinality(Held(r)) + Cardinality(InMap(r)) + Cardinality(Carried(r))
      + Cardinality(Queued(r)) + answers[r] <= 1

\* A job finds a handler under its id, and it is the one of its own request, also
\* when clients use the same id (ripcqcserviceshost.cpp:113-157,
\* ripcqcservicesqcdataproxy.cpp:19-36).
OwnHandler ==
  \A r \in Reqs :
    /\ job[r] # "absent"
    /\ job[r] \in {"queued", "write", "end", "find", "lock", "erase"} => handlers[Key(r)] = r
    /\ found[r] \in {r, NoReq}

\* The author status a job puts into its answer is the one it stored itself or one
\* stored later, never an older one (ripcqcserviceshost.cpp:161-192).
NoStaleAnswer ==
  \A r \in Reqs \ Logins : job[r] = "invoke" =>
    /\ result[r].status \in newStatus[r]
    /\ result[r].info \in newInfo[r] \cup {"torn"}

Received(r) == cpc[ConnOf[r]] # "idle" /\ creq[ConnOf[r]] = r

\* Every request is answered while its connection lasts, unless the unlocked lookup
\* missed its handler (ripcqcserviceshost.cpp:113-206, ripcqchandlercob.h:18-32).
AnsweredUnlessMissed ==
  \A r \in Reqs : Received(r) ~> answers[r] > 0 \/ conn[ConnOf[r]] # "up" \/ job[r] = "missed"
=============================================================================
