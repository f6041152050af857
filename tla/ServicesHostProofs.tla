------------------------- MODULE ServicesHostProofs -------------------------
(***************************************************************************)
(* Proofs about ServicesHost for any number of connections, requests and   *)
(* ids, however clients choose them.                                       *)
(***************************************************************************)
EXTENDS ServicesHost, FiniteSetTheorems, TLAPS

\* The part of the types the argument needs.
ThreadType ==
  /\ cpc \in [Conns -> {"idle", "register", "insert", "submit", "duplicate", "copy"}]
  /\ creq \in [Conns -> Reqs \cup {NoReq}]

JobStates == {"none", "queued", "write", "end", "find", "lock", "erase", "result", "copy",
              "invoke", "done", "missed", "absent"}
MapType ==
  /\ handlers \in [Keys -> Reqs \cup {NoReq}]
  /\ job \in [Reqs -> JobStates]
  /\ found \in [Reqs -> Reqs \cup {NoReq}]

\* A connection's thread works on a request of its own that has no job yet, and
\* submits it only when its handler is in the map.
ThreadOwns ==
  \A c \in Conns : cpc[c] # "idle" =>
    /\ creq[c] \in Reqs /\ ConnOf[creq[c]] = c /\ job[creq[c]] = "none"
    /\ cpc[c] = "submit" => handlers[Key(creq[c])] = creq[c]

\* A job that has found a handler has found its own.
FoundOwn ==
  \A r \in Reqs : job[r] \in {"lock", "erase", "result", "copy", "invoke"} => found[r] = r

OwnInv == ThreadType /\ MapType /\ ThreadOwns /\ FoundOwn /\ OwnHandler

-----------------------------------------------------------------------------

LEMMA KeyType == ASSUME NEW r \in Reqs PROVE Key(r) \in Keys /\ r # NoReq
BY HostAssumption DEF Key, Keys

LEMMA OwnInit == Init => OwnInv
BY DEF Init, OwnInv, ThreadType, MapType, JobStates, ThreadOwns, FoundOwn, OwnHandler

\* A step of a connection's thread that leaves the map and the jobs alone.
LEMMA OwnQuiet ==
  ASSUME OwnInv, NEW c \in Conns, UNCHANGED <<handlers, job, found>>,
         NEW pc \in {"idle", "register", "insert", "duplicate", "copy"}, NEW r \in Reqs \cup {NoReq},
         cpc' = [cpc EXCEPT ![c] = pc], creq' = [creq EXCEPT ![c] = r],
         pc # "idle" => r \in Reqs /\ ConnOf[r] = c /\ job[r] = "none"
  PROVE  OwnInv'
BY DEF OwnInv, ThreadType, MapType, ThreadOwns, FoundOwn, OwnHandler

LEMMA OwnInsert ==
  ASSUME OwnInv, NEW c \in Conns, Insert(c)
  PROVE  OwnInv'
<1> DEFINE r == creq[c]
<1>1. r \in Reqs /\ ConnOf[r] = c /\ job[r] = "none"
  BY DEF Insert, OwnInv, ThreadOwns
<1>2. UNCHANGED <<creq, job, found>>
  BY DEF Insert, jobvars
<1>3. CASE IsNew(Key(r))
  <2>1. handlers' = [handlers EXCEPT ![Key(r)] = r] /\ cpc' = [cpc EXCEPT ![c] = "submit"]
    BY <1>3 DEF Insert
  <2>2. handlers[Key(r)] = NoReq /\ Key(r) \in Keys /\ r # NoReq
    BY <1>1, <1>3, KeyType DEF IsNew
  <2>3. ThreadType' /\ MapType'
    BY <1>1, <1>2, <2>1 DEF OwnInv, ThreadType, MapType
  <2>4. \A k \in Reqs : handlers[Key(k)] = k => handlers'[Key(k)] = k
    BY <2>1, <2>2, KeyType DEF OwnInv, MapType
  <2>5. handlers'[Key(r)] = r
    BY <2>1, <2>2 DEF OwnInv, MapType
  <2>6. ThreadOwns'
    BY <1>1, <1>2, <2>1, <2>4, <2>5 DEF OwnInv, ThreadType, ThreadOwns
  <2>7. FoundOwn' /\ OwnHandler'
    BY <1>2, <2>4 DEF OwnInv, FoundOwn, OwnHandler
  <2> QED
    BY <2>3, <2>6, <2>7 DEF OwnInv
<1>4. CASE ~IsNew(Key(r))
  <2>1. handlers' = handlers /\ cpc' = [cpc EXCEPT ![c] = "duplicate"]
    BY <1>4 DEF Insert, IdTaken
  <2>2. creq' = [creq EXCEPT ![c] = r]
    BY <1>2 DEF OwnInv, ThreadType
  <2> QED
    BY <1>1, <1>2, <2>1, <2>2, OwnQuiet
<1> QED
  BY <1>3, <1>4

LEMMA OwnSubmit ==
  ASSUME OwnInv, NEW c \in Conns, Submit(c)
  PROVE  OwnInv'
<1>1. creq[c] \in Reqs /\ ConnOf[creq[c]] = c /\ handlers[Key(creq[c])] = creq[c] /\ job[creq[c]] = "none"
  BY DEF Submit, OwnInv, ThreadOwns
<1>2. /\ job' = [job EXCEPT ![creq[c]] = "queued"] /\ UNCHANGED <<handlers, found>>
      /\ cpc' = [cpc EXCEPT ![c] = "idle"] /\ creq' = [creq EXCEPT ![c] = NoReq]
  BY DEF Submit, mapvars
<1>3. ThreadType' /\ MapType'
  BY <1>1, <1>2 DEF OwnInv, ThreadType, MapType, JobStates
<1>4. \A k \in Conns \ {c} : cpc[k] # "idle" => creq[k] # creq[c]
  BY <1>1 DEF OwnInv, ThreadOwns
<1>5. ThreadOwns'
  BY <1>1, <1>2, <1>4 DEF OwnInv, ThreadType, MapType, ThreadOwns
<1>6. FoundOwn' /\ OwnHandler'
  BY <1>1, <1>2 DEF OwnInv, MapType, FoundOwn, OwnHandler
<1> QED
  BY <1>3, <1>5, <1>6 DEF OwnInv

LEMMA OwnThreadStep ==
  ASSUME OwnInv, NEW c \in Conns, OwnThread(c) \/ \E r \in Reqs : Receive(c, r)
  PROVE  OwnInv'
<1> USE DEF connvars, mapvars, jobvars
<1>1. [cpc EXCEPT ![c] = cpc[c]] = cpc /\ [creq EXCEPT ![c] = creq[c]] = creq
  BY DEF OwnInv, ThreadType
<1>2. cpc[c] # "idle" => creq[c] \in Reqs /\ ConnOf[creq[c]] = c /\ job[creq[c]] = "none"
  BY DEF OwnInv, ThreadOwns
<1>3. ASSUME NEW r \in Reqs, Receive(c, r) PROVE OwnInv'
  BY <1>3, OwnQuiet DEF Receive, RegisterFirst
<1>4. CASE LockMap(c)
  BY <1>1, <1>2, <1>4, OwnQuiet DEF LockMap
<1>5. CASE Duplicate(c)
  <2>1. CASE cpc[c] = "duplicate"
    BY <1>1, <1>2, <1>5, <2>1, OwnQuiet DEF Duplicate
  <2>2. CASE cpc[c] = "copy"
    BY <1>5, <2>2, OwnQuiet DEF Duplicate
  <2> QED
    BY <1>5, <2>1, <2>2 DEF Duplicate
<1>6. CASE Deliver(c)
  BY <1>6 DEF Deliver, OwnInv, ThreadType, MapType, ThreadOwns, FoundOwn, OwnHandler
<1> QED
  BY <1>3, <1>4, <1>5, <1>6, OwnInsert, OwnSubmit DEF OwnThread

\* A worker that moves its job on from where there is one.
LEMMA OwnMove ==
  ASSUME OwnInv, NEW r \in Reqs, NEW pc \in JobStates \ {"absent"},
         job[r] # "none", To(r, pc), UNCHANGED <<cpc, creq, handlers>>,
         found' = [found EXCEPT ![r] = found'[r]], found'[r] \in {r, NoReq},
         pc \in {"lock", "erase", "result", "copy", "invoke"} => found'[r] = r,
         pc \in {"queued", "write", "end", "find", "lock", "erase"} => handlers[Key(r)] = r
  PROVE  OwnInv'
<1>1. ThreadType' /\ MapType'
  BY DEF OwnInv, ThreadType, MapType, To
<1>2. ThreadOwns'
  BY DEF OwnInv, ThreadType, MapType, ThreadOwns, To
<1>3. FoundOwn' /\ OwnHandler'
  BY DEF OwnInv, MapType, FoundOwn, OwnHandler, To
<1> QED
  BY <1>1, <1>2, <1>3 DEF OwnInv

LEMMA OwnErase ==
  ASSUME OwnInv, NEW r \in Reqs, Erase(r)
  PROVE  OwnInv'
<1>1. /\ found[r] = r /\ handlers[Key(r)] = r /\ job[r] = "erase"
      /\ Key(r) \in Keys /\ r # NoReq
  BY KeyType DEF Erase, OwnInv, FoundOwn, OwnHandler
<1>2. /\ handlers' = [handlers EXCEPT ![Key(r)] = NoReq] /\ job' = [job EXCEPT ![r] = "result"]
      /\ UNCHANGED <<cpc, creq, found>>
  BY <1>1 DEF Erase, EraseEntry, To, connvars
<1>3. \A k \in Reqs \ {r} : handlers[Key(k)] = k => handlers'[Key(k)] = k
  BY <1>1, <1>2, KeyType DEF OwnInv, MapType
<1>4. ThreadType' /\ MapType'
  BY <1>1, <1>2 DEF OwnInv, ThreadType, MapType, JobStates
<1>5. ThreadOwns'
  BY <1>1, <1>2, <1>3 DEF OwnInv, MapType, ThreadOwns
<1>6. FoundOwn' /\ OwnHandler'
  BY <1>1, <1>2, <1>3 DEF OwnInv, MapType, FoundOwn, OwnHandler
<1> QED
  BY <1>4, <1>5, <1>6 DEF OwnInv

LEMMA OwnWorker ==
  ASSUME OwnInv, NEW r \in Reqs, Worker(r)
  PROVE  OwnInv'
<1> USE DEF connvars, mapvars, jobvars
<1>1. [found EXCEPT ![r] = found[r]] = found /\ found[r] \in {r, NoReq}
  BY DEF OwnInv, MapType, OwnHandler
<1>2. /\ job[r] \in {"queued", "write", "end", "find", "lock", "erase"} => handlers[Key(r)] = r
      /\ job[r] \in {"lock", "erase", "result", "copy", "invoke"} => found[r] = r
  BY DEF OwnInv, OwnHandler, FoundOwn
<1>3. CASE WriteBack(r)
  BY <1>1, <1>2, <1>3, OwnMove DEF WriteBack, JobStates
<1>4. CASE Find(r)
  <2>1. job[r] \in {"queued", "find"} /\ handlers[Key(r)] = r /\ r # NoReq
    BY <1>2, <1>4, KeyType DEF Find, MayFind
  <2>2. CASE To(r, "lock") /\ found' = [found EXCEPT ![r] = r]
    <3>1. found'[r] = r
      BY <2>2 DEF OwnInv, MapType
    <3> QED
      BY <1>4, <2>1, <2>2, <3>1, OwnMove DEF Find, JobStates
  <2>3. CASE To(r, "missed") /\ found' = found
    BY <1>1, <1>4, <2>1, <2>3, OwnMove DEF Find, JobStates
  <2> QED
    BY <1>4, <2>1, <2>2, <2>3 DEF Find
<1>5. CASE LockErase(r)
  BY <1>1, <1>2, <1>5, OwnMove DEF LockErase, JobStates
<1>6. CASE Fill(r)
  BY <1>1, <1>2, <1>6, OwnMove DEF Fill, JobStates
<1>7. CASE Invoke(r)
  <2>1. found' = [found EXCEPT ![r] = NoReq] /\ found'[r] = NoReq
    BY <1>7 DEF Invoke, OwnInv, MapType
  <2> QED
    BY <1>7, <2>1, OwnMove DEF Invoke, JobStates
<1> QED
  BY <1>3, <1>4, <1>5, <1>6, <1>7, OwnErase DEF Worker

LEMMA OwnStep == OwnInv /\ [Next]_vars => OwnInv'
<1> SUFFICES ASSUME OwnInv, [Next]_vars PROVE OwnInv'
  OBVIOUS
<1> USE DEF connvars, mapvars, jobvars
<1>1. ASSUME UNCHANGED <<cpc, creq, handlers, job, found>> PROVE OwnInv'
  BY <1>1 DEF OwnInv, ThreadType, MapType, ThreadOwns, FoundOwn, OwnHandler
<1>2. ASSUME NEW c \in Conns, PeerCloses(c) PROVE OwnInv'
  BY <1>1, <1>2 DEF PeerCloses
<1>3. CASE Timer \/ UNCHANGED vars
  BY <1>1, <1>3 DEF Timer, vars
<1> QED
  BY <1>2, <1>3, OwnThreadStep, OwnWorker DEF Next

\* A job always finds a handler under its id, and it is the one of its own request,
\* whatever ids the clients choose and whenever the map is searched without its mutex.
THEOREM FindsOwnHandler == Spec => []OwnHandler
<1>1. OwnInv => OwnHandler
  BY DEF OwnInv
<1> QED
  BY <1>1, OwnInit, OwnStep, PTL DEF Spec

-----------------------------------------------------------------------------
(***************************************************************************)
(* One place                                                               *)
(***************************************************************************)
PlaceType ==
  /\ conn \in [Conns -> {"up", "down"}]
  /\ mutex \in [{"author", "login"} -> Conns \cup Reqs \cup {NoOwner}]
  /\ posted \in [Conns -> Seq(Reqs)] /\ answers \in [Reqs -> 0..1]

\* A thread outside process() has no request, and each handler in the map is under
\* the id of its request.
IdleEmpty == \A c \in Conns : cpc[c] = "idle" => creq[c] = NoReq
OwnKey == \A k \in Keys : handlers[k] # NoReq => Key(handlers[k]) = k

\* What is posted waits once, at its own connection, and is nowhere else.
Posted(r) == \E i \in DOMAIN posted[ConnOf[r]] : posted[ConnOf[r]][i] = r
PostedOnce ==
  \A c \in Conns : \A i, j \in DOMAIN posted[c] :
    /\ ConnOf[posted[c][i]] = c
    /\ posted[c][i] = posted[c][j] => i = j
PostedNowhereElse ==
  \A r \in Reqs : Posted(r) =>
    job[r] \in {"none", "done"} /\ answers[r] = 0 /\ creq[ConnOf[r]] # r /\ handlers[Key(r)] # r

\* What a thread holds, the map holds or a job carries is not answered yet; the map
\* holds it only between its insertion and its erasure.
HeldUnanswered ==
  \A c \in Conns : creq[c] # NoReq =>
    answers[creq[c]] = 0 /\ (handlers[Key(creq[c])] = creq[c] => cpc[c] = "submit")
MappedUnanswered ==
  \A r \in Reqs : handlers[Key(r)] = r =>
    /\ answers[r] = 0
    /\ \/ job[r] \in {"queued", "write", "end", "find", "lock", "erase", "missed"}
       \/ creq[ConnOf[r]] = r
CarriedUnanswered == \A r \in Reqs : job[r] \notin {"none", "done"} => answers[r] = 0

PlaceInv ==
  /\ PlaceType /\ IdleEmpty /\ OwnKey /\ PostedOnce /\ PostedNowhereElse
  /\ HeldUnanswered /\ MappedUnanswered /\ CarriedUnanswered

(***************************************************************************)
(* No stale answer                                                         *)
(***************************************************************************)
StatusType ==
  /\ status \in Writers /\ info \in Writers \cup {"torn"}
  /\ infoWriters \subseteq Writers \cup {"clash"}
  /\ timer \in {"idle", "write", "end"} /\ ticks \in 0..MaxTicks
  /\ result \in [Reqs -> Results]
  /\ newStatus \in [Reqs -> SUBSET Writers] /\ newInfo \in [Reqs -> SUBSET Writers]

\* Once a job has written a field, what stands there counts as new for it, and so
\* does what it has copied.
StatusIsNew ==
  \A r \in Reqs \ Logins :
    job[r] \in {"write", "end", "find", "lock", "erase", "result", "copy", "invoke"} =>
      status \in newStatus[r]
InfoIsNew ==
  \A r \in Reqs \ Logins :
    job[r] \in {"find", "lock", "erase", "result", "copy", "invoke"} =>
      newInfo[r] # {} /\ info \in newInfo[r] \cup {"torn"}
CopiedIsNew ==
  \A r \in Reqs \ Logins :
    /\ job[r] \in {"copy", "invoke"} => result[r].status \in newStatus[r]
    /\ job[r] = "invoke" => result[r].info \in newInfo[r] \cup {"torn"}

FreshInv == StatusType /\ StatusIsNew /\ InfoIsNew /\ CopiedIsNew

HostInv == OwnInv /\ PlaceInv /\ FreshInv

-----------------------------------------------------------------------------

LEMMA AppendSeq ==
  ASSUME NEW S, NEW s \in Seq(S), NEW e \in S
  PROVE  /\ Append(s, e) \in Seq(S) /\ DOMAIN Append(s, e) = 1..Len(s) + 1
         /\ Append(s, e)[Len(s) + 1] = e /\ \A i \in DOMAIN s : Append(s, e)[i] = s[i]
         /\ Len(s) \in Nat /\ DOMAIN s = 1..Len(s)
OBVIOUS

LEMMA TailSeq ==
  ASSUME NEW S, NEW s \in Seq(S), s # <<>>
  PROVE  /\ Head(s) = s[1] /\ 1 \in DOMAIN s
         /\ Tail(s) \in Seq(S) /\ \A i \in DOMAIN Tail(s) : i + 1 \in DOMAIN s /\ Tail(s)[i] = s[i + 1]
         /\ DOMAIN Tail(s) \subseteq Nat \ {0}
OBVIOUS

LEMMA PlaceInit == Init => PlaceInv
<1> SUFFICES ASSUME Init PROVE PlaceInv
  OBVIOUS
<1>1. PlaceType
  BY DEF Init, PlaceType
<1>2. IdleEmpty /\ OwnKey /\ PostedOnce /\ HeldUnanswered /\ CarriedUnanswered
  BY DEF Init, IdleEmpty, OwnKey, PostedOnce, HeldUnanswered, CarriedUnanswered
<1>3. ASSUME NEW r \in Reqs PROVE ConnOf[r] \in Conns /\ posted[ConnOf[r]] = <<>> /\ handlers[Key(r)] # r
  BY KeyType, HostAssumption DEF Init
<1>4. PostedNowhereElse /\ MappedUnanswered
  BY <1>3 DEF Posted, PostedNowhereElse, MappedUnanswered
<1> QED
  BY <1>1, <1>2, <1>4 DEF PlaceInv

\* A thread that goes on with the request it has, takes one that is nowhere yet, or
\* only notes where it is.
LEMMA PlaceQuiet ==
  ASSUME OwnInv, PlaceInv, NEW c \in Conns, UNCHANGED <<posted, handlers, answers, job>>, PlaceType',
         NEW pc \in {"register", "insert", "duplicate", "copy"}, NEW r \in Reqs,
         cpc' = [cpc EXCEPT ![c] = pc], creq' = [creq EXCEPT ![c] = r],
         ConnOf[r] = c, answers[r] = 0, handlers[Key(r)] # r, ~Posted(r), creq[c] \in {NoReq, r}
  PROVE  PlaceInv'
<1>1. IdleEmpty' /\ HeldUnanswered'
  BY DEF OwnInv, ThreadType, PlaceInv, IdleEmpty, HeldUnanswered
<1>2. OwnKey' /\ PostedOnce' /\ CarriedUnanswered'
  BY DEF PlaceInv, OwnKey, PostedOnce, CarriedUnanswered
<1>3. \A q \in Reqs : Posted(q)' = Posted(q)
  BY DEF Posted
<1>4. \A q \in Reqs : creq'[ConnOf[q]] = q => q = r \/ creq[ConnOf[q]] = q
  BY HostAssumption DEF OwnInv, ThreadType
<1>5. PostedNowhereElse'
  BY <1>3, <1>4 DEF PlaceInv, PostedNowhereElse
<1>6. \A q \in Reqs : creq[ConnOf[q]] = q => creq'[ConnOf[q]] = q
  BY HostAssumption DEF OwnInv, ThreadType
<1>7. MappedUnanswered'
  BY <1>6 DEF PlaceInv, MappedUnanswered
<1> QED
  BY <1>1, <1>2, <1>5, <1>7 DEF PlaceInv

\* The request a thread holds.
LEMMA HeldByThread ==
  ASSUME OwnInv, PlaceInv, NEW c \in Conns, cpc[c] # "idle"
  PROVE  /\ creq[c] \in Reqs /\ ConnOf[creq[c]] = c /\ job[creq[c]] = "none" /\ answers[creq[c]] = 0
         /\ ~Posted(creq[c]) /\ (cpc[c] # "submit" => handlers[Key(creq[c])] # creq[c])
         /\ creq[c] # NoReq /\ Key(creq[c]) \in Keys
<1>1. creq[c] \in Reqs /\ ConnOf[creq[c]] = c /\ job[creq[c]] = "none"
  BY DEF OwnInv, ThreadOwns
<1>2. creq[c] # NoReq /\ Key(creq[c]) \in Keys
  BY <1>1, KeyType
<1>3. answers[creq[c]] = 0 /\ (cpc[c] # "submit" => handlers[Key(creq[c])] # creq[c])
  BY <1>2 DEF PlaceInv, HeldUnanswered
<1>4. ~Posted(creq[c])
  BY <1>1 DEF PlaceInv, PostedNowhereElse
<1> QED
  BY <1>1, <1>2, <1>3, <1>4

LEMMA PlaceInsert ==
  ASSUME OwnInv, PlaceInv, NEW c \in Conns, Insert(c)
  PROVE  PlaceInv'
<1> USE DEF connvars, mapvars, jobvars
<1> DEFINE r == creq[c]
<1>1. /\ r \in Reqs /\ ConnOf[r] = c /\ job[r] = "none" /\ answers[r] = 0 /\ ~Posted(r)
      /\ handlers[Key(r)] # r /\ r # NoReq /\ Key(r) \in Keys
  BY HeldByThread DEF Insert
<1>2. PlaceType'
  <2>1. UNCHANGED <<conn, posted, answers>> /\ mutex' = [mutex EXCEPT ![Map(r)] = NoOwner]
    BY DEF Insert
  <2> QED
    BY <2>1 DEF PlaceInv, PlaceType
<1>3. CASE ~IsNew(Key(r))
  <2>1. creq' = [creq EXCEPT ![c] = r]
    BY DEF Insert, OwnInv, ThreadType
  <2> QED
    BY <1>1, <1>2, <1>3, <2>1, PlaceQuiet DEF Insert, IdTaken
<1>4. CASE IsNew(Key(r))
  <2>1. /\ handlers' = [handlers EXCEPT ![Key(r)] = r] /\ cpc' = [cpc EXCEPT ![c] = "submit"]
        /\ UNCHANGED <<creq, posted, answers, job>> /\ handlers[Key(r)] = NoReq
    BY <1>4 DEF Insert, IsNew
  <2>2. IdleEmpty' /\ PostedOnce' /\ CarriedUnanswered'
    BY <1>1, <2>1 DEF OwnInv, ThreadType, PlaceInv, IdleEmpty, PostedOnce, CarriedUnanswered
  <2>3. OwnKey'
    BY <1>1, <2>1 DEF OwnInv, MapType, PlaceInv, OwnKey
  <2>4. \A q \in Reqs : handlers'[Key(q)] = q => q = r \/ handlers[Key(q)] = q
    BY <1>1, <2>1, KeyType DEF OwnInv, MapType
  <2>5. \A q \in Reqs : Posted(q)' = Posted(q)
    BY <2>1 DEF Posted
  <2>6. PostedNowhereElse'
    BY <1>1, <2>1, <2>4, <2>5 DEF PlaceInv, PostedNowhereElse
  <2>7. HeldUnanswered'
    <3>1. \A d \in Conns : creq[d] = r => d = c
      BY <1>1 DEF OwnInv, ThreadOwns, PlaceInv, IdleEmpty
    <3>2. \A d \in Conns : creq[d] # NoReq => creq[d] \in Reqs
      BY DEF OwnInv, ThreadType
    <3> QED
      BY <1>1, <2>1, <2>4, <3>1, <3>2 DEF OwnInv, ThreadType, PlaceInv, HeldUnanswered
  <2>8. MappedUnanswered'
    BY <1>1, <2>1, <2>4 DEF PlaceInv, MappedUnanswered
  <2> QED
    BY <1>2, <2>2, <2>3, <2>6, <2>7, <2>8 DEF PlaceInv
<1> QED
  BY <1>3, <1>4

LEMMA PlaceSubmit ==
  ASSUME OwnInv, PlaceInv, NEW c \in Conns, Submit(c)
  PROVE  PlaceInv'
<1> USE DEF connvars, mapvars, jobvars
<1> DEFINE r == creq[c]
<1>1. /\ r \in Reqs /\ ConnOf[r] = c /\ job[r] = "none" /\ answers[r] = 0 /\ ~Posted(r)
      /\ r # NoReq /\ Key(r) \in Keys
  BY HeldByThread DEF Submit
<1>2. /\ job' = [job EXCEPT ![r] = "queued"] /\ UNCHANGED <<conn, mutex, posted, answers, handlers>>
      /\ cpc' = [cpc EXCEPT ![c] = "idle"] /\ creq' = [creq EXCEPT ![c] = NoReq]
  BY DEF Submit
<1>3. PlaceType' /\ IdleEmpty' /\ OwnKey' /\ PostedOnce' /\ HeldUnanswered'
  BY <1>2 DEF OwnInv, ThreadType, PlaceInv, PlaceType, IdleEmpty, OwnKey, PostedOnce, HeldUnanswered
<1>4. \A q \in Reqs : Posted(q)' = Posted(q)
  BY <1>2 DEF Posted
<1>5. \A q \in Reqs : /\ q # r => job'[q] = job[q] /\ (creq'[ConnOf[q]] = q <=> creq[ConnOf[q]] = q)
                      /\ job'[r] = "queued" /\ creq'[c] # q
  BY <1>1, <1>2, KeyType, HostAssumption DEF OwnInv, ThreadType, MapType
<1>6. PostedNowhereElse'
  BY <1>1, <1>2, <1>4, <1>5 DEF PlaceInv, PostedNowhereElse
<1>7. MappedUnanswered'
  BY <1>1, <1>2, <1>5 DEF PlaceInv, MappedUnanswered
<1>8. CarriedUnanswered'
  BY <1>1, <1>2, <1>5 DEF PlaceInv, CarriedUnanswered
<1> QED
  BY <1>3, <1>6, <1>7, <1>8 DEF PlaceInv

\* A handler that is nowhere else is posted to its own connection.
LEMMA PostOnce ==
  ASSUME PlaceInv, NEW r \in Reqs, ~Posted(r), Post(r)
  PROVE  /\ posted' \in [Conns -> Seq(Reqs)] /\ PostedOnce'
         /\ \A q \in Reqs : Posted(q)' <=> Posted(q) \/ q = r
<1> DEFINE d == ConnOf[r]
           s == posted[d]
           t == Append(s, r)
<1>1. d \in Conns /\ s \in Seq(Reqs) /\ posted' = [posted EXCEPT ![d] = t]
  BY HostAssumption DEF Post, PlaceInv, PlaceType
<1>2. /\ t \in Seq(Reqs) /\ DOMAIN t = 1..Len(s) + 1 /\ t[Len(s) + 1] = r
      /\ \A i \in DOMAIN s : t[i] = s[i]
      /\ Len(s) \in Nat /\ DOMAIN s = 1..Len(s)
  BY <1>1, AppendSeq
<1>3. \A i \in DOMAIN s : s[i] # r
  BY DEF Posted
<1> HIDE DEF d, s, t
<1>4. posted' \in [Conns -> Seq(Reqs)] /\ posted'[d] = t /\ \A c \in Conns \ {d} : posted'[c] = posted[c]
  BY <1>1, <1>2 DEF PlaceInv, PlaceType
<1>5. PostedOnce'
  <2> SUFFICES ASSUME NEW c \in Conns, NEW i \in DOMAIN posted'[c], NEW j \in DOMAIN posted'[c]
               PROVE  ConnOf[posted'[c][i]] = c /\ (posted'[c][i] = posted'[c][j] => i = j)
    BY DEF PostedOnce
  <2>1. CASE c # d
    BY <1>4, <2>1 DEF PlaceInv, PostedOnce
  <2>2. CASE c = d
    <3>1. \A k \in DOMAIN t : k \in DOMAIN s \/ k = Len(s) + 1
      BY <1>2
    <3>2. \A k, l \in DOMAIN s : ConnOf[s[k]] = d /\ (s[k] = s[l] => k = l)
      BY <1>1 DEF PlaceInv, PostedOnce, s
    <3>3. ConnOf[r] = d
      BY DEF d
    <3> QED
      BY <1>2, <1>3, <1>4, <2>2, <3>1, <3>2, <3>3
  <2> QED
    BY <2>1, <2>2
<1>6. \A q \in Reqs : Posted(q)' <=> Posted(q) \/ q = r
  <2> TAKE q \in Reqs
  <2>1. CASE ConnOf[q] # d
    BY <1>4, <2>1, HostAssumption DEF Posted, d
  <2>2. CASE ConnOf[q] = d
    <3>1. Posted(q) <=> \E i \in DOMAIN s : s[i] = q
      BY <2>2 DEF Posted, s
    <3>2. Posted(q)' <=> \E i \in DOMAIN t : t[i] = q
      BY <1>4, <2>2 DEF Posted
    <3>3. \A k \in DOMAIN t : k \in DOMAIN s \/ k = Len(s) + 1
      BY <1>2
    <3>4. (\A k \in DOMAIN s : k \in DOMAIN t) /\ Len(s) + 1 \in DOMAIN t
      BY <1>2
    <3> QED
      BY <1>2, <3>1, <3>2, <3>3, <3>4
  <2> QED
    BY <2>1, <2>2
<1> QED
  BY <1>4, <1>5, <1>6

LEMMA PlaceAnswerNow ==
  ASSUME OwnInv, PlaceInv, NEW c \in Conns, Duplicate(c), cpc[c] = "copy"
  PROVE  PlaceInv'
<1> USE DEF connvars, mapvars, jobvars
<1> DEFINE r == creq[c]
<1>1. /\ r \in Reqs /\ ConnOf[r] = c /\ job[r] = "none" /\ answers[r] = 0 /\ ~Posted(r)
      /\ r # NoReq /\ Key(r) \in Keys /\ handlers[Key(r)] # r
  BY HeldByThread
<1>2. /\ UNCHANGED <<conn, mutex, answers, handlers, job>> /\ Post(r)
      /\ cpc' = [cpc EXCEPT ![c] = "idle"] /\ creq' = [creq EXCEPT ![c] = NoReq]
  BY DEF Duplicate
<1>3. /\ posted' \in [Conns -> Seq(Reqs)] /\ PostedOnce'
      /\ \A q \in Reqs : Posted(q)' <=> Posted(q) \/ q = r
  BY <1>1, <1>2, PostOnce
<1>4. PlaceType' /\ IdleEmpty' /\ OwnKey' /\ HeldUnanswered' /\ CarriedUnanswered'
  BY <1>2, <1>3 DEF OwnInv, ThreadType, PlaceInv, PlaceType, IdleEmpty, OwnKey, HeldUnanswered, CarriedUnanswered
<1>5. \A q \in Reqs : creq'[c] # q /\ (q # r => (creq'[ConnOf[q]] = q <=> creq[ConnOf[q]] = q))
  BY <1>1, <1>2, KeyType, HostAssumption DEF OwnInv, ThreadType
<1>6. PostedNowhereElse' /\ MappedUnanswered'
  BY <1>1, <1>2, <1>3, <1>5 DEF PlaceInv, PostedNowhereElse, MappedUnanswered
<1> QED
  BY <1>3, <1>4, <1>6 DEF PlaceInv

LEMMA PlaceDeliver ==
  ASSUME OwnInv, PlaceInv, NEW c \in Conns, Deliver(c)
  PROVE  PlaceInv'
<1> USE DEF connvars, mapvars, jobvars
<1> DEFINE s == posted[c]
           t == Tail(s)
           r == Head(s)
<1>1. /\ s \in Seq(Reqs) /\ s # <<>> /\ posted' = [posted EXCEPT ![c] = t]
      /\ UNCHANGED <<conn, mutex, handlers, job, cpc, creq>>
      /\ answers' \in {answers, [answers EXCEPT ![r] = @ + 1]}
  BY DEF Deliver, PlaceInv, PlaceType
<1>2. /\ r = s[1] /\ 1 \in DOMAIN s
      /\ t \in Seq(Reqs) /\ \A i \in DOMAIN t : i + 1 \in DOMAIN s /\ t[i] = s[i + 1]
      /\ DOMAIN t \subseteq Nat \ {0}
  BY <1>1, TailSeq
<1>3. \A i, j \in DOMAIN s : s[i] \in Reqs /\ ConnOf[s[i]] = c /\ (s[i] = s[j] => i = j)
  BY <1>1 DEF PlaceInv, PostedOnce
<1> HIDE DEF s, t, r
<1>4. posted' \in [Conns -> Seq(Reqs)] /\ posted'[c] = t /\ \A d \in Conns \ {c} : posted'[d] = posted[d]
  BY <1>1, <1>2 DEF PlaceInv, PlaceType
<1>5. PostedOnce'
  <2> SUFFICES ASSUME NEW d \in Conns, NEW i \in DOMAIN posted'[d], NEW j \in DOMAIN posted'[d]
               PROVE  ConnOf[posted'[d][i]] = d /\ (posted'[d][i] = posted'[d][j] => i = j)
    BY DEF PostedOnce
  <2>1. CASE d # c
    BY <1>4, <2>1 DEF PlaceInv, PostedOnce
  <2>2. CASE d = c
    BY <1>2, <1>3, <1>4, <2>2
  <2> QED
    BY <2>1, <2>2
<1>6. r \in Reqs /\ ConnOf[r] = c /\ Posted(r)
  BY <1>2, <1>3 DEF Posted, s
<1>7. \A q \in Reqs : Posted(q)' => Posted(q) /\ q # r
  <2> TAKE q \in Reqs
  <2>1. CASE ConnOf[q] # c
    BY <1>4, <1>6, <2>1, HostAssumption DEF Posted
  <2>2. CASE ConnOf[q] = c
    BY <1>2, <1>3, <1>4, <2>2 DEF Posted, s
  <2> QED
    BY <2>1, <2>2
<1>8. job[r] \in {"none", "done"} /\ answers[r] = 0 /\ creq[ConnOf[r]] # r /\ handlers[Key(r)] # r
  BY <1>6 DEF PlaceInv, PostedNowhereElse
<1>9. answers' \in [Reqs -> 0..1] /\ \A q \in Reqs \ {r} : answers'[q] = answers[q]
  BY <1>1, <1>6, <1>8 DEF PlaceInv, PlaceType
<1>10. PlaceType' /\ IdleEmpty' /\ OwnKey'
  BY <1>1, <1>4, <1>9 DEF PlaceInv, PlaceType, IdleEmpty, OwnKey
<1>11. HeldUnanswered'
  <2>1. \A d \in Conns : creq[d] # NoReq => creq[d] \in Reqs /\ ConnOf[creq[d]] = d
    BY DEF OwnInv, ThreadOwns, PlaceInv, IdleEmpty
  <2> QED
    BY <1>1, <1>8, <1>9, <2>1 DEF PlaceInv, HeldUnanswered
<1>12. MappedUnanswered' /\ CarriedUnanswered' /\ PostedNowhereElse'
  BY <1>1, <1>7, <1>8, <1>9 DEF PlaceInv, MappedUnanswered, CarriedUnanswered, PostedNowhereElse
<1> QED
  BY <1>5, <1>10, <1>11, <1>12 DEF PlaceInv

\* A worker that moves its job on and leaves the handler where it is.
LEMMA PlaceMove ==
  ASSUME OwnInv, PlaceInv, NEW r \in Reqs, NEW pc \in JobStates \ {"none", "done"},
         job[r] \notin {"none", "done"}, To(r, pc), UNCHANGED <<cpc, creq, handlers, posted, answers>>,
         handlers[Key(r)] = r => pc \in {"write", "end", "find", "lock", "erase", "missed"},
         PlaceType'
  PROVE  PlaceInv'
<1>1. IdleEmpty' /\ OwnKey' /\ PostedOnce' /\ HeldUnanswered'
  BY DEF PlaceInv, IdleEmpty, OwnKey, PostedOnce, HeldUnanswered
<1>2. \A q \in Reqs : Posted(q)' = Posted(q)
  BY DEF Posted
<1>3. job'[r] = pc /\ \A q \in Reqs \ {r} : job'[q] = job[q]
  BY DEF OwnInv, MapType, To
<1>4. PostedNowhereElse' /\ CarriedUnanswered'
  BY <1>2, <1>3 DEF PlaceInv, PostedNowhereElse, CarriedUnanswered
<1>5. MappedUnanswered'
  BY <1>3 DEF PlaceInv, MappedUnanswered
<1> QED
  BY <1>1, <1>4, <1>5 DEF PlaceInv

\* After the erasure only the worker has the handler.
LEMMA PlaceErase ==
  ASSUME OwnInv, PlaceInv, NEW r \in Reqs, Erase(r)
  PROVE  PlaceInv'
<1> USE DEF connvars, mapvars, jobvars
<1>1. found[r] = r /\ handlers[Key(r)] = r /\ job[r] = "erase" /\ Key(r) \in Keys /\ r # NoReq
  BY KeyType DEF Erase, OwnInv, FoundOwn, OwnHandler
<1>2. /\ handlers' = [handlers EXCEPT ![Key(r)] = NoReq] /\ job' = [job EXCEPT ![r] = "result"]
      /\ UNCHANGED <<conn, cpc, creq, posted, answers>>
      /\ mutex' = [mutex EXCEPT ![Map(r)] = NoOwner]
  BY <1>1 DEF Erase, EraseEntry, To
<1>3. job'[r] = "result" /\ \A q \in Reqs \ {r} : job'[q] = job[q]
  BY <1>2 DEF OwnInv, MapType
<1>4. handlers'[Key(r)] = NoReq /\ \A k \in Keys \ {Key(r)} : handlers'[k] = handlers[k]
  BY <1>1, <1>2 DEF OwnInv, MapType
<1>5. \A q \in Reqs : handlers'[Key(q)] = q => handlers[Key(q)] = q /\ q # r
  BY <1>1, <1>4, KeyType
<1>6. \A q \in Reqs : Posted(q)' = Posted(q)
  BY <1>2 DEF Posted
<1>7. PlaceType' /\ IdleEmpty' /\ PostedOnce'
  <2>1. mutex' \in [{"author", "login"} -> Conns \cup Reqs \cup {NoOwner}]
    BY <1>2 DEF PlaceInv, PlaceType
  <2> QED
    BY <1>2, <2>1 DEF PlaceInv, PlaceType, IdleEmpty, PostedOnce
<1>8. OwnKey'
  BY <1>4 DEF PlaceInv, OwnKey
<1>9. PostedNowhereElse' /\ CarriedUnanswered' /\ MappedUnanswered'
  BY <1>1, <1>2, <1>3, <1>5, <1>6
     DEF PlaceInv, PostedNowhereElse, CarriedUnanswered, MappedUnanswered
<1>10. HeldUnanswered'
  <2>1. \A d \in Conns : creq[d] # NoReq => creq[d] \in Reqs
    BY DEF OwnInv, ThreadType
  <2> QED
    BY <1>2, <1>5, <2>1 DEF PlaceInv, HeldUnanswered
<1> QED
  BY <1>7, <1>8, <1>9, <1>10 DEF PlaceInv

LEMMA PlaceInvoke ==
  ASSUME OwnInv, PlaceInv, NEW r \in Reqs, Invoke(r)
  PROVE  PlaceInv'
<1> USE DEF connvars, mapvars, jobvars
<1>1. /\ found[r] = r /\ job[r] = "invoke" /\ answers[r] = 0 /\ ConnOf[r] \in Conns
      /\ r # NoReq
  BY KeyType, HostAssumption DEF Invoke, OwnInv, FoundOwn, PlaceInv, CarriedUnanswered
<1>2. creq[ConnOf[r]] # r
  BY <1>1 DEF OwnInv, ThreadOwns, PlaceInv, IdleEmpty
<1>3. handlers[Key(r)] # r /\ ~Posted(r)
  BY <1>1, <1>2 DEF PlaceInv, MappedUnanswered, PostedNowhereElse
<1>4. /\ job' = [job EXCEPT ![r] = "done"] /\ Post(r)
      /\ UNCHANGED <<conn, cpc, creq, handlers, mutex, answers>>
  BY <1>1 DEF Invoke, To
<1>5. /\ posted' \in [Conns -> Seq(Reqs)] /\ PostedOnce'
      /\ \A q \in Reqs : Posted(q)' <=> Posted(q) \/ q = r
  BY <1>3, <1>4, PostOnce
<1>6. job'[r] = "done" /\ \A q \in Reqs \ {r} : job'[q] = job[q]
  BY <1>4 DEF OwnInv, MapType
<1>7. PlaceType' /\ IdleEmpty' /\ OwnKey' /\ HeldUnanswered'
  BY <1>4, <1>5 DEF PlaceInv, PlaceType, IdleEmpty, OwnKey, HeldUnanswered
<1>8. PostedNowhereElse' /\ CarriedUnanswered' /\ MappedUnanswered'
  BY <1>1, <1>2, <1>3, <1>4, <1>5, <1>6
     DEF PlaceInv, PostedNowhereElse, CarriedUnanswered, MappedUnanswered
<1> QED
  BY <1>5, <1>7, <1>8 DEF PlaceInv

LEMMA PlaceThreadStep ==
  ASSUME OwnInv, PlaceInv, NEW c \in Conns, OwnThread(c) \/ \E r \in Reqs : Receive(c, r)
  PROVE  PlaceInv'
<1> USE DEF connvars, mapvars, jobvars
<1>1. ASSUME cpc[c] # "idle", creq' = creq PROVE creq' = [creq EXCEPT ![c] = creq[c]]
  BY <1>1 DEF OwnInv, ThreadType
<1>2. ASSUME NEW r \in Reqs, Receive(c, r) PROVE PlaceInv'
  <2>1. PlaceType'
    BY <1>2 DEF Receive, PlaceInv, PlaceType
  <2>2. creq[c] = NoReq
    BY <1>2 DEF Receive, PlaceInv, IdleEmpty
  <2>3. handlers[Key(r)] # r
    BY <1>2, <2>2, KeyType DEF Receive, PlaceInv, MappedUnanswered
  <2>4. ~Posted(r)
    BY <1>2 DEF Receive, Posted
  <2> QED
    BY <1>2, <2>1, <2>2, <2>3, <2>4, PlaceQuiet DEF Receive, RegisterFirst
<1>3. CASE LockMap(c)
  <2>1. PlaceType'
    BY <1>3 DEF LockMap, PlaceInv, PlaceType
  <2> QED
    BY <1>1, <1>3, <2>1, HeldByThread, PlaceQuiet DEF LockMap
<1>4. CASE Duplicate(c) /\ cpc[c] = "duplicate"
  <2>1. PlaceType'
    BY <1>4 DEF Duplicate, PlaceInv, PlaceType
  <2> QED
    BY <1>1, <1>4, <2>1, HeldByThread, PlaceQuiet DEF Duplicate
<1>5. Duplicate(c) => cpc[c] \in {"duplicate", "copy"}
  BY DEF Duplicate
<1> QED
  BY <1>2, <1>3, <1>4, <1>5, PlaceInsert, PlaceSubmit, PlaceAnswerNow, PlaceDeliver DEF OwnThread

LEMMA PlaceWorker ==
  ASSUME OwnInv, PlaceInv, NEW r \in Reqs, Worker(r)
  PROVE  PlaceInv'
<1> USE DEF connvars, mapvars, jobvars
<1>1. /\ job[r] \in {"queued", "write", "end", "find", "lock", "erase"} => handlers[Key(r)] = r
      /\ job[r] \in {"result", "copy"} => handlers[Key(r)] # r
  <2>1. creq[ConnOf[r]] = r => job[r] = "none"
    BY KeyType, HostAssumption DEF OwnInv, ThreadOwns, PlaceInv, IdleEmpty
  <2> QED
    BY <2>1 DEF OwnInv, OwnHandler, PlaceInv, MappedUnanswered
<1>2. UNCHANGED <<conn, posted, answers>> /\ mutex' = mutex => PlaceType'
  BY DEF PlaceInv, PlaceType
<1>3. CASE WriteBack(r)
  BY <1>2, <1>3, PlaceMove DEF WriteBack, JobStates
<1>4. CASE Find(r)
  BY <1>1, <1>2, <1>4, KeyType, PlaceMove DEF Find, MayFind, JobStates
<1>5. CASE LockErase(r)
  <2>1. PlaceType'
    BY <1>5 DEF LockErase, PlaceInv, PlaceType
  <2> QED
    BY <1>5, <2>1, PlaceMove DEF LockErase, JobStates
<1>6. CASE Fill(r)
  BY <1>1, <1>2, <1>6, PlaceMove DEF Fill, JobStates
<1> QED
  BY <1>3, <1>4, <1>5, <1>6, PlaceErase, PlaceInvoke DEF Worker

LEMMA PlaceStep == OwnInv /\ PlaceInv /\ [Next]_vars => PlaceInv'
<1> SUFFICES ASSUME OwnInv, PlaceInv, [Next]_vars PROVE PlaceInv'
  OBVIOUS
<1> USE DEF connvars, mapvars, jobvars
<1>1. ASSUME UNCHANGED <<cpc, creq, handlers, job, posted, answers>>, PlaceType' PROVE PlaceInv'
  <2>1. \A q \in Reqs : Posted(q)' = Posted(q)
    BY <1>1 DEF Posted
  <2> QED
    BY <1>1, <2>1 DEF PlaceInv, IdleEmpty, OwnKey, PostedOnce, PostedNowhereElse, HeldUnanswered,
                      MappedUnanswered, CarriedUnanswered
<1>2. ASSUME NEW c \in Conns, PeerCloses(c) PROVE PlaceInv'
  <2>1. PlaceType'
    BY <1>2 DEF PeerCloses, PlaceInv, PlaceType
  <2> QED
    BY <1>1, <1>2, <2>1 DEF PeerCloses
<1>3. CASE Timer \/ UNCHANGED vars
  <2>1. PlaceType'
    BY <1>3 DEF Timer, vars, PlaceInv, PlaceType
  <2> QED
    BY <1>1, <1>3, <2>1 DEF Timer, vars
<1> QED
  BY <1>2, <1>3, PlaceThreadStep, PlaceWorker DEF Next


-----------------------------------------------------------------------------

LEMMA NotedGrows ==
  ASSUME NEW seen \in [Reqs -> SUBSET Writers], NEW w \in Writers
  PROVE  /\ Noted(seen, w) \in [Reqs -> SUBSET Writers]
         /\ \A r \in Reqs : seen[r] \subseteq Noted(seen, w)[r]
         /\ \A r \in Reqs : r = w \/ seen[r] # {} => w \in Noted(seen, w)[r]
BY DEF Noted

LEMMA ToOne ==
  ASSUME OwnInv, NEW r, NEW from, NEW pc, UNCHANGED job \/ (r \in Reqs /\ job[r] = from /\ To(r, pc))
  PROVE  \A q \in Reqs : job'[q] = job[q] \/ (q = r /\ job[q] = from /\ job'[q] = pc)
<1>1. CASE UNCHANGED job
  BY <1>1
<1>2. CASE r \in Reqs /\ job[r] = from /\ To(r, pc)
  BY <1>2 DEF To, OwnInv, MapType
<1> QED
  BY <1>1, <1>2

LEMMA FreshInit == Init => FreshInv
<1> SUFFICES ASSUME Init PROVE FreshInv
  OBVIOUS
<1>1. NoResult \in Results
  BY DEF NoResult, Results
<1>2. StatusType
  BY <1>1, HostAssumption DEF Init, StatusType, Writers
<1>3. StatusIsNew /\ InfoIsNew /\ CopiedIsNew
  BY DEF Init, StatusIsNew, InfoIsNew, CopiedIsNew
<1> QED
  BY <1>2, <1>3 DEF FreshInv

\* Steps that leave the author status alone and give no job anything new to answer for.
LEMMA FreshQuiet ==
  ASSUME FreshInv, UNCHANGED <<status, info, newStatus, newInfo>>, StatusType',
         \A r \in Reqs \ Logins : job'[r] # job[r] =>
           /\ job'[r] \in {"lock", "erase", "result"} => job[r] \in {"find", "lock", "erase"}
           /\ job'[r] \notin {"write", "end", "find", "copy", "invoke"},
         \A r \in Reqs : job[r] \in {"copy", "invoke"} => result'[r] = result[r]
  PROVE  FreshInv'
BY DEF FreshInv, StatusIsNew, InfoIsNew, CopiedIsNew

\* The assignment of one field, by the timer or by a job.
LEMMA FreshStatus ==
  ASSUME FreshInv, OwnInv, NEW w \in Writers, WriteStatus(w), UNCHANGED <<info, infoWriters, newInfo, result>>,
         StatusType', \/ UNCHANGED job
                      \/ w \in Reqs /\ job[w] = "queued" /\ To(w, "write")
  PROVE  FreshInv'
<1>1. status' = w /\ \A r \in Reqs : /\ newStatus[r] \subseteq newStatus'[r]
                                     /\ r = w \/ newStatus[r] # {} => w \in newStatus'[r]
  BY NotedGrows DEF WriteStatus, FreshInv, StatusType
<1>2. \A r \in Reqs : job'[r] = job[r] \/ (r = w /\ job[r] = "queued" /\ job'[r] = "write")
  BY ToOne
<1>3. StatusIsNew'
  BY <1>1, <1>2 DEF FreshInv, StatusIsNew
<1>4. InfoIsNew'
  BY <1>2 DEF FreshInv, InfoIsNew
<1>5. CopiedIsNew'
  BY <1>1, <1>2 DEF FreshInv, CopiedIsNew
<1> QED
  BY <1>3, <1>4, <1>5 DEF FreshInv

LEMMA FreshBegin ==
  ASSUME FreshInv, OwnInv, NEW w \in Writers, BeginInfo(w), UNCHANGED <<status, newStatus, newInfo, result>>,
         StatusType', \/ UNCHANGED job
                      \/ w \in Reqs /\ job[w] = "write" /\ To(w, "end")
  PROVE  FreshInv'
<1>1. \A r \in Reqs : job'[r] = job[r] \/ (r = w /\ job[r] = "write" /\ job'[r] = "end")
  BY ToOne
<1>2. info' = "torn"
  BY DEF BeginInfo
<1>3. StatusIsNew' /\ InfoIsNew' /\ CopiedIsNew'
  BY <1>1, <1>2 DEF FreshInv, StatusIsNew, InfoIsNew, CopiedIsNew
<1> QED
  BY <1>3 DEF FreshInv

LEMMA FreshEnd ==
  ASSUME FreshInv, OwnInv, NEW w \in Writers, EndInfo(w), UNCHANGED <<status, newStatus, result>>,
         StatusType', \/ UNCHANGED job
                      \/ w \in Reqs /\ job[w] = "end" /\ To(w, "find")
  PROVE  FreshInv'
<1>1. \A r \in Reqs : job'[r] = job[r] \/ (r = w /\ job[r] = "end" /\ job'[r] = "find")
  BY ToOne
<1>2. info' \in {w, "torn"} /\ \A r \in Reqs : /\ newInfo[r] \subseteq newInfo'[r]
                                               /\ r = w \/ newInfo[r] # {} => w \in newInfo'[r]
  BY NotedGrows DEF EndInfo, FreshInv, StatusType
<1>3. StatusIsNew'
  BY <1>1 DEF FreshInv, StatusIsNew
<1>4. InfoIsNew'
  <2> SUFFICES ASSUME NEW r \in Reqs \ Logins,
                      job'[r] \in {"find", "lock", "erase", "result", "copy", "invoke"}
               PROVE  newInfo'[r] # {} /\ info' \in newInfo'[r] \cup {"torn"}
    BY DEF InfoIsNew
  <2>1. r = w \/ newInfo[r] # {}
    BY <1>1 DEF FreshInv, InfoIsNew
  <2> QED
    BY <1>2, <2>1
<1>5. CopiedIsNew'
  BY <1>1, <1>2 DEF FreshInv, CopiedIsNew
<1> QED
  BY <1>3, <1>4, <1>5 DEF FreshInv

LEMMA StatusTyped ==
  ASSUME StatusType, NEW w \in Writers, UNCHANGED result,
         timer' \in {"idle", "write", "end"}, ticks' \in 0..MaxTicks
  PROVE  /\ WriteStatus(w) /\ UNCHANGED <<info, infoWriters, newInfo>> => StatusType'
         /\ BeginInfo(w) /\ UNCHANGED <<status, newStatus, newInfo>> => StatusType'
         /\ EndInfo(w) /\ UNCHANGED <<status, newStatus>> => StatusType'
<1>1. ASSUME WriteStatus(w), UNCHANGED <<info, infoWriters, newInfo>> PROVE StatusType'
  BY <1>1, NotedGrows DEF StatusType, WriteStatus
<1>2. ASSUME BeginInfo(w), UNCHANGED <<status, newStatus, newInfo>> PROVE StatusType'
  BY <1>2 DEF StatusType, BeginInfo
<1>3. ASSUME EndInfo(w), UNCHANGED <<status, newStatus>> PROVE StatusType'
  BY <1>3, NotedGrows DEF StatusType, EndInfo
<1> QED
  BY <1>1, <1>2, <1>3

LEMMA FreshTimer == OwnInv /\ FreshInv /\ Timer => FreshInv'
<1> SUFFICES ASSUME OwnInv, FreshInv, Timer PROVE FreshInv'
  OBVIOUS
<1> USE DEF connvars, mapvars, jobvars
<1>1. "timer" \in Writers /\ UNCHANGED <<job, result>> /\ StatusType
  BY DEF Timer, Writers, FreshInv
<1>2. timer' \in {"idle", "write", "end"} /\ ticks' \in 0..MaxTicks
  BY HostAssumption DEF Timer, FreshInv, StatusType
<1>3. CASE WriteStatus("timer") /\ UNCHANGED <<info, infoWriters, newInfo>>
  BY <1>1, <1>2, <1>3, StatusTyped, FreshStatus
<1>4. CASE BeginInfo("timer") /\ UNCHANGED <<status, newStatus, newInfo>>
  BY <1>1, <1>2, <1>4, StatusTyped, FreshBegin
<1>5. CASE EndInfo("timer") /\ UNCHANGED <<status, newStatus>>
  BY <1>1, <1>2, <1>5, StatusTyped, FreshEnd
<1> QED
  BY <1>3, <1>4, <1>5 DEF Timer

LEMMA FreshWriteBack ==
  ASSUME OwnInv, FreshInv, NEW r \in Reqs, WriteBack(r)
  PROVE  FreshInv'
<1> USE DEF connvars, mapvars, jobvars, timervars
<1>1. r \in Writers /\ UNCHANGED <<result, timer, ticks>> /\ StatusType
  BY DEF WriteBack, Writers, FreshInv
<1>2. timer' \in {"idle", "write", "end"} /\ ticks' \in 0..MaxTicks
  BY <1>1 DEF StatusType
<1>3. CASE job[r] = "queued" /\ To(r, "write") /\ WriteStatus(r) /\ UNCHANGED <<info, infoWriters, newInfo>>
  BY <1>1, <1>2, <1>3, StatusTyped, FreshStatus
<1>4. CASE job[r] = "write" /\ To(r, "end") /\ BeginInfo(r) /\ UNCHANGED <<status, newStatus, newInfo>>
  BY <1>1, <1>2, <1>4, StatusTyped, FreshBegin
<1>5. CASE job[r] = "end" /\ To(r, "find") /\ EndInfo(r) /\ UNCHANGED <<status, newStatus>>
  BY <1>1, <1>2, <1>5, StatusTyped, FreshEnd
<1> QED
  BY <1>3, <1>4, <1>5 DEF WriteBack

\* One field or both of a result become values that may stand there.
LEMMA ResultTyped ==
  ASSUME NEW x \in Results, NEW s \in Writers, NEW i \in Writers \cup {"torn"}
  PROVE  /\ [x EXCEPT !.status = s] \in Results /\ [x EXCEPT !.info = i] \in Results
         /\ [x EXCEPT !.status = s].status = s /\ [x EXCEPT !.info = i].info = i
         /\ [x EXCEPT !.info = i].status = x.status
         /\ [status |-> s, info |-> s] \in Results /\ NoResult \in Results
BY DEF Results, NoResult

LEMMA FreshFill ==
  ASSUME OwnInv, FreshInv, NEW r \in Reqs, Fill(r)
  PROVE  FreshInv'
<1> USE DEF connvars, mapvars, jobvars, timervars, statusvars
<1>1. found[r] = r /\ result[r] \in Results /\ r \in Writers
  BY DEF Fill, OwnInv, FoundOwn, FreshInv, StatusType, Writers
<1>2. status \in Writers /\ info \in Writers \cup {"torn"}
  BY DEF FreshInv, StatusType
<1>3. CASE job[r] = "result" /\ r \in Logins /\ To(r, "invoke")
           /\ result' = [result EXCEPT ![r] = [status |-> r, info |-> r]]
  <2>1. result' \in [Reqs -> Results] /\ StatusType'
    BY <1>1, <1>3, ResultTyped DEF Fill, FreshInv, StatusType
  <2> QED
    BY <1>3, <2>1 DEF Fill, To, OwnInv, MapType, FreshInv, StatusType, StatusIsNew, InfoIsNew, CopiedIsNew
<1>4. CASE job[r] = "result" /\ r \notin Logins /\ To(r, "copy")
           /\ result' = [result EXCEPT ![r].status = status]
  <2>1. [result[r] EXCEPT !.status = status] \in Results /\ [result[r] EXCEPT !.status = status].status = status
    BY <1>1, <1>2, ResultTyped
  <2>2. /\ result'[r] = [result[r] EXCEPT !.status = status]
        /\ \A q \in Reqs \ {r} : result'[q] = result[q]
        /\ result' \in [Reqs -> Results]
    BY <1>4, <2>1 DEF FreshInv, StatusType
  <2>3. StatusType'
    BY <2>2 DEF Fill, FreshInv, StatusType
  <2>4. UNCHANGED <<status, info, newStatus, newInfo>>
    BY DEF Fill
  <2>5. job'[r] = "copy" /\ \A q \in Reqs \ {r} : job'[q] = job[q]
    BY <1>4 DEF To, OwnInv, MapType
  <2>6. StatusIsNew' /\ InfoIsNew'
    BY <1>4, <2>4, <2>5 DEF FreshInv, StatusIsNew, InfoIsNew
  <2>7. CopiedIsNew'
    BY <1>4, <2>1, <2>2, <2>4, <2>5 DEF FreshInv, StatusIsNew, CopiedIsNew
  <2> QED
    BY <2>3, <2>6, <2>7 DEF FreshInv
<1>5. CASE job[r] = "copy" /\ To(r, "invoke") /\ result' = [result EXCEPT ![r].info = info]
  <2>1. /\ [result[r] EXCEPT !.info = info] \in Results /\ [result[r] EXCEPT !.info = info].info = info
        /\ [result[r] EXCEPT !.info = info].status = result[r].status
    BY <1>1, <1>2, ResultTyped
  <2>2. /\ result'[r] = [result[r] EXCEPT !.info = info]
        /\ \A q \in Reqs \ {r} : result'[q] = result[q]
        /\ result' \in [Reqs -> Results]
    BY <1>5, <2>1 DEF FreshInv, StatusType
  <2>3. StatusType'
    BY <2>2 DEF Fill, FreshInv, StatusType
  <2>4. UNCHANGED <<status, info, newStatus, newInfo>>
    BY DEF Fill
  <2>5. job'[r] = "invoke" /\ \A q \in Reqs \ {r} : job'[q] = job[q]
    BY <1>5 DEF To, OwnInv, MapType
  <2>6. StatusIsNew' /\ InfoIsNew'
    BY <1>5, <2>4, <2>5 DEF FreshInv, StatusIsNew, InfoIsNew
  <2>7. CopiedIsNew'
    BY <1>5, <2>1, <2>2, <2>4, <2>5 DEF FreshInv, InfoIsNew, CopiedIsNew
  <2> QED
    BY <2>3, <2>6, <2>7 DEF FreshInv
<1> QED
  BY <1>1, <1>3, <1>4, <1>5 DEF Fill, CurrentStatus

LEMMA FreshWorker ==
  ASSUME OwnInv, FreshInv, NEW r \in Reqs, Worker(r)
  PROVE  FreshInv'
<1> USE DEF connvars, mapvars, jobvars, timervars, statusvars
<1>1. \A pc \in JobStates : To(r, pc) => job'[r] = pc /\ \A q \in Reqs \ {r} : job'[q] = job[q]
  BY DEF To, OwnInv, MapType
<1>2. ASSUME UNCHANGED <<status, info, infoWriters, timer, ticks, newStatus, newInfo, result>>
      PROVE  StatusType'
  BY <1>2 DEF FreshInv, StatusType
<1>3. CASE Find(r)
  BY <1>1, <1>2, <1>3, FreshQuiet DEF Find, MayFind, JobStates
<1>4. CASE LockErase(r)
  BY <1>1, <1>2, <1>4, FreshQuiet DEF LockErase, JobStates
<1>5. CASE Erase(r)
  BY <1>1, <1>2, <1>5, FreshQuiet DEF Erase, JobStates
<1>6. CASE Invoke(r)
  <2>1. job'[r] = "done" /\ \A q \in Reqs \ {r} : job'[q] = job[q]
    BY <1>1, <1>6 DEF Invoke, JobStates
  <2>2. /\ UNCHANGED <<status, info, infoWriters, timer, ticks, result>>
        /\ newStatus' = [newStatus EXCEPT ![r] = {}] /\ newInfo' = [newInfo EXCEPT ![r] = {}]
    BY <1>6 DEF Invoke
  <2>3. StatusType'
    BY <2>2 DEF FreshInv, StatusType
  <2>4. \A q \in Reqs \ {r} : newStatus'[q] = newStatus[q] /\ newInfo'[q] = newInfo[q]
    BY <2>2 DEF FreshInv, StatusType
  <2>5. StatusIsNew' /\ InfoIsNew' /\ CopiedIsNew'
    BY <2>1, <2>2, <2>4 DEF FreshInv, StatusIsNew, InfoIsNew, CopiedIsNew
  <2> QED
    BY <2>3, <2>5 DEF FreshInv
<1> QED
  BY <1>3, <1>4, <1>5, <1>6, FreshWriteBack, FreshFill DEF Worker

\* A connection's thread fills in or deletes only handlers that no job carries.
LEMMA FreshThread ==
  ASSUME OwnInv, PlaceInv, FreshInv, NEW c \in Conns, OwnThread(c) \/ \E r \in Reqs : Receive(c, r)
  PROVE  FreshInv'
<1> USE DEF connvars, mapvars, jobvars, timervars, statusvars
<1>1. UNCHANGED <<status, info, infoWriters, timer, ticks, newStatus, newInfo>>
  BY DEF OwnThread, Receive, LockMap, Insert, Submit, Duplicate, Deliver
<1>2. result' \in [Reqs -> Results] => StatusType'
  BY <1>1 DEF FreshInv, StatusType
<1>3. result \in [Reqs -> Results] /\ status \in Writers /\ info \in Writers \cup {"torn"}
  BY DEF FreshInv, StatusType
<1>4. ASSUME NEW r \in Reqs, NEW x \in Results, result' = [result EXCEPT ![r] = x],
             job[r] \in {"none", "done"}, UNCHANGED job
      PROVE  FreshInv'
  <2>1. result' \in [Reqs -> Results] /\ \A q \in Reqs \ {r} : result'[q] = result[q]
    BY <1>3, <1>4
  <2> QED
    BY <1>1, <1>2, <1>4, <2>1, FreshQuiet
<1>5. CASE Submit(c)
  <2>1. creq[c] \in Reqs
    BY <1>5 DEF Submit, OwnInv, ThreadOwns
  <2>2. \A q \in Reqs : job'[q] = job[q] \/ job'[q] = "queued"
    BY <1>5, <2>1 DEF Submit, OwnInv, MapType
  <2> QED
    BY <1>1, <1>2, <1>3, <1>5, <2>2, FreshQuiet DEF Submit
<1>6. CASE Duplicate(c)
  <2> DEFINE r == creq[c]
  <2>1. r \in Reqs /\ job[r] \in {"none", "done"} /\ result[r] \in Results
    BY <1>3, <1>6 DEF Duplicate, OwnInv, ThreadOwns
  <2>2. [result[r] EXCEPT !.status = status] \in Results /\ [result[r] EXCEPT !.info = info] \in Results
    BY <1>3, <2>1, ResultTyped
  <2>3. \/ result' = [result EXCEPT ![r] = [result[r] EXCEPT !.status = status]]
        \/ result' = [result EXCEPT ![r] = [result[r] EXCEPT !.info = info]]
    BY <1>6 DEF Duplicate
  <2> QED
    BY <1>4, <1>6, <2>1, <2>2, <2>3 DEF Duplicate
<1>7. CASE Deliver(c)
  <2> DEFINE r == Head(posted[c])
  <2>1. r = posted[c][1] /\ 1 \in DOMAIN posted[c] /\ posted[c] \in Seq(Reqs)
    BY <1>7, TailSeq DEF Deliver, PlaceInv, PlaceType
  <2>2. r \in Reqs /\ ConnOf[r] = c
    BY <2>1 DEF PlaceInv, PostedOnce
  <2>3. job[r] \in {"none", "done"}
    BY <2>1, <2>2 DEF PlaceInv, PostedNowhereElse, Posted
  <2>4. NoResult \in Results
    BY DEF Results, NoResult
  <2> QED
    BY <1>4, <1>7, <2>2, <2>3, <2>4 DEF Deliver
<1>8. CASE LockMap(c) \/ Insert(c) \/ \E r \in Reqs : Receive(c, r)
  <2>1. UNCHANGED <<job, result>>
    BY <1>8 DEF LockMap, Insert, Receive
  <2> QED
    BY <1>1, <1>2, <1>3, <2>1, FreshQuiet
<1> QED
  BY <1>5, <1>6, <1>7, <1>8 DEF OwnThread

LEMMA FreshStep == OwnInv /\ PlaceInv /\ FreshInv /\ [Next]_vars => FreshInv'
<1> SUFFICES ASSUME OwnInv, PlaceInv, FreshInv, [Next]_vars PROVE FreshInv'
  OBVIOUS
<1> USE DEF connvars, mapvars, jobvars, timervars, statusvars
<1>1. ASSUME UNCHANGED <<status, info, infoWriters, timer, ticks, newStatus, newInfo, result, job>>
      PROVE  FreshInv'
  BY <1>1 DEF FreshInv, StatusType, StatusIsNew, InfoIsNew, CopiedIsNew
<1>2. ASSUME NEW c \in Conns, PeerCloses(c) PROVE FreshInv'
  BY <1>1, <1>2 DEF PeerCloses
<1>3. CASE UNCHANGED vars
  BY <1>1, <1>3 DEF vars
<1> QED
  BY <1>2, <1>3, FreshThread, FreshWorker, FreshTimer DEF Next

LEMMA HostInductive == Spec => []HostInv
<1>1. Init => HostInv
  BY OwnInit, PlaceInit, FreshInit DEF HostInv
<1>2. HostInv /\ [Next]_vars => HostInv'
  BY OwnStep, PlaceStep, FreshStep DEF HostInv
<1> QED
  BY <1>1, <1>2, PTL DEF Spec

\* Type correctness: among other things no request is answered twice.
THEOREM TypeCorrect == Spec => []TypeOK
<1>1. HostInv => TypeOK
  BY DEF HostInv, OwnInv, ThreadType, MapType, JobStates, PlaceInv, PlaceType, FreshInv, StatusType, TypeOK
<1> QED
  BY <1>1, HostInductive, PTL

\* A job's answer never carries an author status older than the one it stored itself,
\* however many jobs, and the timer, write the status at the same time.
THEOREM NeverStale == Spec => []NoStaleAnswer
<1>1. HostInv => NoStaleAnswer
  BY DEF HostInv, FreshInv, CopiedIsNew, NoStaleAnswer
<1> QED
  BY <1>1, HostInductive, PTL

-----------------------------------------------------------------------------

\* A set with no element but x counts 1 or 0.
LEMMA AtMostOne ==
  ASSUME NEW S, NEW x, S \subseteq {x}
  PROVE  Cardinality(S) = IF x \in S THEN 1 ELSE 0
<1>1. S = {} \/ S = {x}
  OBVIOUS
<1> QED
  BY <1>1, FS_EmptySet, FS_Singleton

LEMMA QueuedOnce ==
  ASSUME OwnInv, PlaceInv, NEW r \in Reqs
  PROVE  Cardinality(Queued(r)) = IF Posted(r) THEN 1 ELSE 0
<1>1. \A x \in Queued(r) : x = <<x[1], x[2]>> /\ x[1] \in Conns /\ x[2] \in DOMAIN posted[x[1]]
                           /\ posted[x[1]][x[2]] = r
  BY DEF Queued
<1>2. \A x, y \in Queued(r) : x = y
  <2> SUFFICES ASSUME NEW x \in Queued(r), NEW y \in Queued(r) PROVE x = y
    OBVIOUS
  <2>1. x[1] = ConnOf[r] /\ y[1] = ConnOf[r]
    BY <1>1 DEF PlaceInv, PostedOnce
  <2>2. x[2] = y[2]
    BY <1>1, <2>1 DEF PlaceInv, PostedOnce
  <2> QED
    BY <1>1, <2>1, <2>2
<1>3. CASE Posted(r)
  <2>1. PICK i \in DOMAIN posted[ConnOf[r]] : posted[ConnOf[r]][i] = r
    BY <1>3 DEF Posted
  <2>2. ConnOf[r] \in Conns
    BY HostAssumption
  <2>3. <<ConnOf[r], i>> \in Queued(r)
    BY <2>1, <2>2 DEF Queued
  <2> QED
    BY <1>2, <1>3, <2>3, AtMostOne
<1>4. CASE ~Posted(r)
  <2>1. Queued(r) = {}
    <3> SUFFICES ASSUME NEW x \in Queued(r) PROVE FALSE
      OBVIOUS
    <3>1. x[1] = ConnOf[r]
      BY <1>1 DEF PlaceInv, PostedOnce
    <3> QED
      BY <1>1, <1>4, <3>1 DEF Posted
  <2> QED
    BY <1>4, <2>1, FS_EmptySet
<1> QED
  BY <1>3, <1>4

LEMMA OnePlace == OwnInv /\ PlaceInv => HandlerInOnePlace
<1> SUFFICES ASSUME OwnInv, PlaceInv, NEW r \in Reqs
             PROVE  Cardinality(Held(r)) + Cardinality(InMap(r)) + Cardinality(Carried(r))
                      + Cardinality(Queued(r)) + answers[r] <= 1
  BY DEF HandlerInOnePlace
<1> DEFINE held == creq[ConnOf[r]] = r /\ cpc[ConnOf[r]] # "submit"
           mapped == handlers[Key(r)] = r
           carried == job[r] \in {"result", "copy", "invoke"}
<1>1. r # NoReq /\ ConnOf[r] \in Conns /\ Key(r) \in Keys
  BY KeyType, HostAssumption
<1>2. Held(r) \subseteq {ConnOf[r]} /\ (ConnOf[r] \in Held(r) <=> held)
  BY <1>1 DEF Held, OwnInv, ThreadOwns, PlaceInv, IdleEmpty
<1>3. InMap(r) \subseteq {Key(r)} /\ (Key(r) \in InMap(r) <=> mapped)
  BY <1>1 DEF InMap, PlaceInv, OwnKey
<1>4. Carried(r) \subseteq {r} /\ (r \in Carried(r) <=> carried)
  BY <1>1 DEF Carried, OwnInv, FoundOwn, OwnHandler
<1>5. /\ Cardinality(Held(r)) = (IF held THEN 1 ELSE 0) /\ Cardinality(InMap(r)) = (IF mapped THEN 1 ELSE 0)
      /\ Cardinality(Carried(r)) = (IF carried THEN 1 ELSE 0)
      /\ Cardinality(Queued(r)) = (IF Posted(r) THEN 1 ELSE 0)
  BY <1>2, <1>3, <1>4, AtMostOne, QueuedOnce
<1>6. creq[ConnOf[r]] = r => job[r] = "none" /\ answers[r] = 0
  BY <1>1 DEF OwnInv, ThreadOwns, PlaceInv, IdleEmpty, HeldUnanswered
<1>7. held => ~mapped /\ ~carried /\ ~Posted(r) /\ answers[r] = 0
  BY <1>1, <1>6 DEF PlaceInv, HeldUnanswered, PostedNowhereElse
<1>8. mapped => ~carried /\ ~Posted(r) /\ answers[r] = 0
  BY <1>6 DEF PlaceInv, MappedUnanswered, PostedNowhereElse
<1>9. carried => ~Posted(r) /\ answers[r] = 0
  BY DEF PlaceInv, CarriedUnanswered, PostedNowhereElse
<1>10. (Posted(r) => answers[r] = 0) /\ answers[r] \in 0..1
  BY DEF PlaceInv, PlaceType, PostedNowhereElse
<1> HIDE DEF held, mapped, carried
<1> QED
  BY <1>5, <1>7, <1>8, <1>9, <1>10

\* The handler of a request is never in two places, so that nobody answers or deletes it
\* twice: not with equal ids, not with a search beside an insertion or an erasure, and
\* not when the connection ends first.
THEOREM HandlerUnique == Spec => []HandlerInOnePlace
<1>1. HostInv => HandlerInOnePlace
  BY OnePlace DEF HostInv
<1> QED
  BY <1>1, HostInductive, PTL
=============================================================================
