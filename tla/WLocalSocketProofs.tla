------------------------- MODULE WLocalSocketProofs -------------------------
(***************************************************************************)
(* Proofs about WLocalSocket for any number of connections and messages in *)
(* either direction and any capacity of the queue.                         *)
(***************************************************************************)
EXTENDS WLocalSocket, FiniteSetTheorems, TLAPS

-----------------------------------------------------------------------------
(***************************************************************************)
(* The inductive invariant                                                 *)
(***************************************************************************)

\* What the owner, the worker and the window are up to.
OwnerInv ==
  /\ ~running => /\ window = <<>> /\ todo = {} /\ thread = "none"
                 /\ m_state = "unconnected" /\ main \in {"idle", "joined"}
  /\ running => main # "joined"
  /\ "connect" \in todo => todo = {"connect"}
  /\ running /\ connecting => todo = {}

\* The worker has yet to connect: nothing has been written, read or posted.
NotYet == running /\ (connecting \/ "connect" \in todo)
FreshInv ==
  NotYet => /\ ~write.bWritting /\ writeIO = "none" /\ ~read.bReading /\ readIO = "none"
            /\ ~peerUp /\ toPeer = <<>> /\ fromPeer = <<>> /\ sent = 0 /\ got = <<>>
            /\ DataPlaces = {} /\ Len(accepted) = Len(queue)

\* The numbers that were accepted, are queued, are being written, were written.
Writing == IF write.bWritting /\ writeIO # "done" THEN 1 ELSE 0
WriteInv ==
  /\ \A i \in DOMAIN accepted : accepted[i] = i
  /\ \A i \in DOMAIN toPeer : toPeer[i] = i
  /\ Len(toPeer) <= Len(accepted) /\ Len(queue) <= Len(accepted)
  /\ \A i \in DOMAIN queue : queue[i] = Len(accepted) - Len(queue) + i
  /\ ~write.bWritting => writeIO = "none"
  /\ writeIO \in {"pending", "failed"} => write.data = Len(toPeer) + 1 /\ write.data <= Len(accepted)
  /\ running /\ write.bSuccess => Len(accepted) = Len(toPeer) + Writing + Len(queue)
  /\ write.bSuccess /\ write.bWritting /\ writeIO = "none" => m_state \notin {"connecting", "connected"}

\* The numbers that were heard, are posted, are read, are in the pipe: last
\* is the last one the worker has posted.
Taken == IF readIO = "done" THEN 1 ELSE 0
ReadUpTo(last) ==
  /\ last + Taken <= sent
  /\ readIO = "done" => read.data = last + 1
  /\ peerUp => /\ last + Taken + Len(fromPeer) = sent
               /\ \A i \in DOMAIN fromPeer : fromPeer[i] = sent - Len(fromPeer) + i
  /\ Len(got) <= last /\ \A i \in DOMAIN got : got[i] = i
  /\ \A i \in DataPlaces : window[i].data \in Len(got) + 1..last
  /\ \A i, j \in DataPlaces : i < j => window[i].data < window[j].data
  /\ \A n \in Len(got) + 1..last : \E i \in DataPlaces : window[i].data = n
ReadInv ==
  /\ ~read.bReading => readIO = "none"
  /\ running => \E last \in Nat : ReadUpTo(last)

\* What the owner hears before it hears of an error and closes.
Is(i, m) == i \in DOMAIN window /\ window[i].msg = m
InTime(i) == \A j \in 1..i - 1 : ~Is(j, "error")
Began(i) == heard = <<"connected">> \/ (heard = <<>> /\ i > 1 /\ Is(1, "connected"))
HeardInv ==
  /\ heard \in {<<>>, <<"connected">>, <<"connected", "disconnected">>}
  /\ running /\ main \in {"idle", "connecting"} =>
     /\ m_state # "closing"
     /\ NotYet <=> m_state = "connecting"
     /\ NotYet => window = <<>> /\ heard = <<>>
     /\ m_state = "connected" =>
          /\ \A i \in DOMAIN window : window[i].msg \in {"connected", "data"}
          /\ Began(Len(window) + 1)
     /\ m_state = "unconnected" => \E i \in DOMAIN window : Is(i, "error")
     /\ heard = <<"connected", "disconnected">> => Is(1, "error")
     /\ \A i \in DOMAIN window : InTime(i) =>
          /\ Is(i, "connected") => i = 1 /\ heard = <<>>
          /\ Is(i, "data") => Began(i) /\ \A j \in 1..i - 1 : ~Is(j, "disconnected")
          /\ Is(i, "disconnected") => Began(i) /\ Is(i + 1, "error")

SocketInv == TypeOK /\ OwnerInv /\ FreshInv /\ WriteInv /\ ReadInv /\ HeardInv

-----------------------------------------------------------------------------
(***************************************************************************)
(* Sequences.                                                              *)
(***************************************************************************)
LEMMA SeqFacts ==
  ASSUME NEW S, NEW q \in Seq(S)
  PROVE  Len(q) \in Nat /\ DOMAIN q = 1..Len(q) /\ \A i \in DOMAIN q : q[i] \in S
OBVIOUS

LEMMA ConcatSeq ==
  ASSUME NEW S, NEW q \in Seq(S), NEW r \in Seq(S)
  PROVE  /\ q \o r \in Seq(S) /\ Len(q \o r) = Len(q) + Len(r)
         /\ \A i \in 1..Len(q) : (q \o r)[i] = q[i]
         /\ \A i \in 1..Len(r) : (q \o r)[Len(q) + i] = r[i]
OBVIOUS

LEMMA ConcatThree ==
  ASSUME NEW S, NEW q \in Seq(S), NEW r \in Seq(S), NEW s \in Seq(S)
  PROVE  (q \o r) \o s = q \o (r \o s)
OBVIOUS

LEMMA TailSeq ==
  ASSUME NEW S, NEW q \in Seq(S), q # <<>>
  PROVE  /\ Tail(q) \in Seq(S) /\ Head(q) \in S /\ Head(q) = q[1]
         /\ Len(q) \in Nat \ {0} /\ Len(Tail(q)) = Len(q) - 1
         /\ \A i \in 1..(Len(q) - 1) : Tail(q)[i] = q[i + 1]
OBVIOUS

LEMMA AppendSeq ==
  ASSUME NEW S, NEW q \in Seq(S), NEW e \in S
  PROVE  /\ Append(q, e) \in Seq(S) /\ Len(Append(q, e)) = Len(q) + 1
         /\ \A i \in 1..Len(q) : Append(q, e)[i] = q[i]
         /\ Append(q, e)[Len(q) + 1] = e
OBVIOUS

LEMMA SeqEqual ==
  ASSUME NEW S, NEW q \in Seq(S), NEW r \in Seq(S), Len(q) = Len(r),
         \A i \in 1..Len(q) : q[i] = r[i]
  PROVE  q = r
OBVIOUS

(***************************************************************************)
(* Types.                                                                  *)
(***************************************************************************)
Entries == [msg : Posts, data : Numbers]

LEMMA Bounds ==
  /\ MaxOpens \in Nat /\ MaxWrites \in Nat /\ MaxPeerWrites \in Nat /\ Capacity \in Nat \ {0}
  /\ 0 \in Numbers /\ \A n \in Nat : n <= MaxWrites \/ n <= MaxPeerWrites => n \in Numbers
  /\ Numbers \subseteq Nat
BY SocketAssumption DEF Numbers

LEMMA PostedSeq ==
  ASSUME NEW m \in Posts, NEW d \in Numbers
  PROVE  /\ Posted(m, d) \in Seq(Entries) /\ Len(Posted(m, d)) = 1
         /\ Posted(m, d)[1].msg = m /\ Posted(m, d)[1].data = d
BY DEF Posted, Entries

LEMMA LostSeq ==
  /\ Lost \in Seq(Entries)
  /\ Lost = IF m_state # "unconnected" THEN Posted("disconnected", 0) ELSE <<>>
<1>1. Posted("disconnected", 0) \in Seq(Entries)
  BY PostedSeq, Bounds DEF Posts
<1> QED
  BY <1>1 DEF Lost

\* What setError posts.
LEMMA ErrorSeq ==
  ASSUME TypeOK, SetError
  PROVE  \E x \in Seq(Entries) :
           /\ window' = window \o x
           /\ m_state # "unconnected" => Len(x) = 2 /\ x[1].msg = "disconnected" /\ x[2].msg = "error"
           /\ m_state = "unconnected" => Len(x) = 1 /\ x[1].msg = "error"
<1> DEFINE e == Posted("error", 0)
           x == Lost \o e
<1>1. e \in Seq(Entries) /\ Len(e) = 1 /\ e[1].msg = "error"
  BY PostedSeq, Bounds DEF Posts
<1>2. Lost \in Seq(Entries)
  BY LostSeq
<1>3. window \in Seq(Entries)
  BY DEF TypeOK, Entries
<1>4. window' = (window \o Lost) \o e
  BY DEF SetError
<1> HIDE DEF e
<1>5. window' = window \o x
  BY <1>1, <1>2, <1>3, <1>4, ConcatThree
<1>6. x \in Seq(Entries) /\ Len(x) = Len(Lost) + 1 /\ x[Len(Lost) + 1] = e[1]
      /\ \A i \in 1..Len(Lost) : x[i] = Lost[i]
  <2>1. /\ x \in Seq(Entries) /\ Len(x) = Len(Lost) + Len(e)
        /\ \A i \in 1..Len(Lost) : x[i] = Lost[i]
        /\ \A i \in 1..Len(e) : x[Len(Lost) + i] = e[i]
    <3>1. e \in Seq(Entries)
      BY <1>1
    <3> QED
      BY ONLY <3>1, <1>2, ConcatSeq
  <2>2. 1 \in 1..Len(e)
    BY <1>1
  <2> HIDE DEF x
  <2> QED
    BY <1>1, <2>1, <2>2
<1> HIDE DEF x
<1>7. CASE m_state # "unconnected"
  <2>1. Len(Lost) = 1 /\ Lost[1].msg = "disconnected"
    BY <1>7, LostSeq, PostedSeq, Bounds DEF Posts
  <2>2. Len(x) = 2 /\ x[1] = Lost[1] /\ x[2] = e[1]
    BY <1>6, <2>1
  <2>3. Len(x) = 2 /\ x[1].msg = "disconnected" /\ x[2].msg = "error"
    BY <1>1, <2>1, <2>2
  <2> QED
    BY <1>5, <1>6, <1>7, <2>3
<1>8. CASE m_state = "unconnected"
  <2>1. Len(Lost) = 0
    BY <1>8, LostSeq
  <2> QED
    BY <1>1, <1>5, <1>6, <1>8, <2>1
<1> QED
  BY <1>7, <1>8

\* What the completion routines post: the data that were read, and the end of
\* the connection if an operation failed.
Fails == readIO = "failed" \/ writeIO = "failed"

LEMMA ErrorsSeq ==
  /\ Errors \in Seq(Entries) /\ \A i \in 1..Len(Errors) : Errors[i].msg = "error"
  /\ Errors = <<>> <=> ~Fails
  /\ Fails => Len(Errors) >= 1
<1> DEFINE e(io) == IF io = "failed" THEN Posted("error", 0) ELSE <<>>
<1>1. Posted("error", 0) \in Seq(Entries) /\ Len(Posted("error", 0)) = 1 /\ Posted("error", 0)[1].msg = "error"
  BY PostedSeq, Bounds DEF Posts
<1>2. ASSUME NEW io
      PROVE  /\ e(io) \in Seq(Entries) /\ \A i \in 1..Len(e(io)) : e(io)[i].msg = "error"
             /\ Len(e(io)) = IF io = "failed" THEN 1 ELSE 0
  <2>1. CASE io = "failed"
    <3>1. e(io) = Posted("error", 0) /\ \A i \in 1..1 : i = 1
      BY <2>1
    <3> QED
      BY <1>1, <2>1, <3>1
  <2>2. CASE io # "failed"
    BY <2>2
  <2> QED
    BY <2>1, <2>2
<1>3. Errors = e(readIO) \o e(writeIO)
  BY DEF Errors
<1> HIDE DEF e
<1>4. e(readIO) \in Seq(Entries) /\ e(writeIO) \in Seq(Entries)
  BY <1>2
<1>5. /\ Errors \in Seq(Entries) /\ Len(Errors) = Len(e(readIO)) + Len(e(writeIO))
      /\ \A i \in 1..Len(e(readIO)) : Errors[i] = e(readIO)[i]
      /\ \A i \in 1..Len(e(writeIO)) : Errors[Len(e(readIO)) + i] = e(writeIO)[i]
  BY ONLY <1>3, <1>4, ConcatSeq
<1>6. ASSUME NEW i \in 1..Len(Errors) PROVE Errors[i].msg = "error"
  <2>1. Len(e(readIO)) \in Nat /\ Len(e(writeIO)) \in Nat
    BY <1>4
  <2>2. CASE i <= Len(e(readIO))
    BY <1>2, <1>5, <2>1, <2>2
  <2>3. CASE i > Len(e(readIO))
    <3>1. i - Len(e(readIO)) \in 1..Len(e(writeIO)) /\ i = Len(e(readIO)) + (i - Len(e(readIO)))
      BY <1>5, <2>1, <2>3
    <3> QED
      BY <1>2, <1>5, <3>1
  <2> QED
    BY <2>1, <2>2, <2>3
<1>7. Len(Errors) = (IF readIO = "failed" THEN 1 ELSE 0) + (IF writeIO = "failed" THEN 1 ELSE 0)
  BY <1>2, <1>5
<1>8. Errors = <<>> <=> Len(Errors) = 0
  BY <1>5
<1> QED
  BY <1>5, <1>6, <1>7, <1>8 DEF Fails

LEMMA EndsSeq ==
  /\ Ends \in Seq(Entries) /\ \A i \in 1..Len(Ends) : Ends[i].msg # "data"
  /\ ~Fails => Len(Ends) = 0
  /\ Fails => \E i \in 1..Len(Ends) : Ends[i].msg = "error"
  /\ Fails /\ m_state # "unconnected" =>
       Len(Ends) >= 2 /\ Ends[1].msg = "disconnected" /\ Ends[2].msg = "error"
<1>1. CASE ~Fails
  BY <1>1, ErrorsSeq DEF Ends
<1>2. CASE Fails /\ m_state = "unconnected"
  <2>1. Ends = <<>> \o Errors
    BY <1>2, ErrorsSeq, LostSeq DEF Ends
  <2>2. Ends = Errors
    BY <2>1, ErrorsSeq
  <2>3. Errors \in Seq(Entries) /\ Len(Errors) >= 1 /\ \A i \in 1..Len(Errors) : Errors[i].msg = "error"
    BY <1>2, ErrorsSeq
  <2>4. 1 \in 1..Len(Errors)
    BY <2>3
  <2> QED
    BY <1>2, <2>2, <2>3, <2>4
<1>3. CASE Fails /\ m_state # "unconnected"
  <2> DEFINE d == Posted("disconnected", 0)
  <2>1. d \in Seq(Entries) /\ Len(d) = 1 /\ d[1].msg = "disconnected"
    BY PostedSeq, Bounds DEF Posts
  <2>2. Ends = d \o Errors
    BY <1>3, ErrorsSeq, LostSeq DEF Ends
  <2>3. Errors \in Seq(Entries) /\ Len(Errors) >= 1 /\ \A i \in 1..Len(Errors) : Errors[i].msg = "error"
    BY <1>3, ErrorsSeq
  <2> HIDE DEF d
  <2>4. /\ Ends \in Seq(Entries) /\ Len(Ends) = Len(d) + Len(Errors)
        /\ \A i \in 1..Len(d) : Ends[i] = d[i]
        /\ \A i \in 1..Len(Errors) : Ends[Len(d) + i] = Errors[i]
    <3>1. d \in Seq(Entries) /\ Errors \in Seq(Entries)
      BY <2>1, <2>3
    <3> QED
      BY ONLY <2>2, <3>1, ConcatSeq
  <2>5. /\ Len(Ends) >= 2 /\ Ends[1].msg = "disconnected"
        /\ \A i \in 2..Len(Ends) : Ends[i].msg = "error"
    <3>1. 1 \in 1..Len(d) /\ Len(Errors) \in Nat
      BY <2>1, <2>3
    <3>2. ASSUME NEW i \in 2..Len(Ends) PROVE Ends[i].msg = "error"
      <4>1. i - 1 \in 1..Len(Errors) /\ i = Len(d) + (i - 1)
        BY <2>1, <2>4, <3>1
      <4> QED
        BY <2>3, <2>4, <4>1
    <3> QED
      BY <2>1, <2>3, <2>4, <3>1, <3>2
  <2>6. 2 \in 2..Len(Ends) /\ 2 \in 1..Len(Ends) /\ \A i \in 1..Len(Ends) : i = 1 \/ i \in 2..Len(Ends)
    BY <2>4, <2>5
  <2>7. Ends[2].msg = "error" /\ \A i \in 1..Len(Ends) : Ends[i].msg # "data"
    BY <2>5, <2>6
  <2> QED
    BY <1>3, <2>4, <2>5, <2>6, <2>7
<1> QED
  BY <1>1, <1>2, <1>3

LEMMA CompletionSeq ==
  ASSUME TypeOK, Completion
  PROVE  /\ m_state' = IF Fails THEN "unconnected" ELSE m_state
         /\ \E x \in Seq(Entries) :
           /\ window' = window \o x
           /\ readIO = "done" => \E p \in 1..Len(x) :
                /\ x[p].msg = "data" /\ x[p].data = read.data
                /\ \A i \in 1..Len(x) : x[i].msg = "data" => i = p
           /\ readIO # "done" => \A i \in 1..Len(x) : x[i].msg # "data"
           /\ ~Fails => \A i \in 1..Len(x) : x[i].msg = "data"
           /\ Fails => \E i \in 1..Len(x) : x[i].msg = "error"
           /\ Fails /\ m_state # "unconnected" => \E p \in 1..Len(x) :
                /\ p + 1 \in 1..Len(x) /\ x[p].msg = "disconnected" /\ x[p + 1].msg = "error"
                /\ \A i \in 1..p - 1 : x[i].msg = "data"
<1> DEFINE n == IF readIO = "done" THEN 1 ELSE 0
<1>1. m_state' = IF Fails THEN "unconnected" ELSE m_state
  BY ErrorsSeq DEF Completion
<1>2. /\ Data \in Seq(Entries) /\ Len(Data) = n
      /\ \A i \in 1..Len(Data) : Data[i].msg = "data" /\ Data[i].data = read.data
  <2>1. CASE readIO = "done"
    <3>1. Data = Posted("data", read.data) /\ read.data \in Numbers
      BY <2>1 DEF Data, TypeOK
    <3>2. Data \in Seq(Entries) /\ Len(Data) = 1 /\ Data[1].msg = "data" /\ Data[1].data = read.data
      BY <3>1, PostedSeq DEF Posts
    <3>3. \A i \in 1..1 : i = 1
      OBVIOUS
    <3> QED
      BY <2>1, <3>2, <3>3
  <2>2. CASE readIO # "done"
    BY <2>2 DEF Data
  <2> QED
    BY <2>1, <2>2
<1>3. Ends \in Seq(Entries) /\ \A i \in 1..Len(Ends) : Ends[i].msg # "data"
  BY EndsSeq
<1>4. Data \in Seq(Entries)
  BY <1>2
<1>5. Ends \in Seq(Entries)
  BY <1>3
<1>6. n \in 0..1 /\ Len(Ends) \in Nat
  BY <1>5
<1>7. window \in Seq(Entries)
  BY DEF TypeOK, Entries
<1>8. CASE window' = window \o Data \o Ends
  <2> DEFINE x == Data \o Ends
  <2>1. window' = window \o x
    BY <1>4, <1>5, <1>7, <1>8, ConcatThree, SMTT(30)
  <2>2. /\ x \in Seq(Entries) /\ Len(x) = Len(Data) + Len(Ends)
        /\ \A i \in 1..Len(Data) : x[i] = Data[i]
        /\ \A i \in 1..Len(Ends) : x[Len(Data) + i] = Ends[i]
    BY ONLY <1>4, <1>5, ConcatSeq
  <2> HIDE DEF x, n
  <2>3. \A i \in 1..n : x[i].msg = "data" /\ x[i].data = read.data
    BY <1>2, <1>6, <2>2
  <2>4. \A i \in 1..Len(Ends) : x[n + i] = Ends[i] /\ x[n + i].msg # "data"
    BY <1>2, <1>3, <1>6, <2>2
  <2>5. Len(x) = n + Len(Ends) /\ \A i \in 1..Len(x) : i \in 1..n \/ (i - n \in 1..Len(Ends) /\ i = n + (i - n))
    BY <1>2, <1>6, <2>2
  <2>6. readIO = "done" => \E p \in 1..Len(x) :
          /\ x[p].msg = "data" /\ x[p].data = read.data
          /\ \A i \in 1..Len(x) : x[i].msg = "data" => i = p
    <3> HAVE readIO = "done"
    <3>1. n = 1 /\ 1 \in 1..Len(x)
      BY <1>6, <2>5 DEF n
    <3>2. ASSUME NEW i \in 1..Len(x), x[i].msg = "data" PROVE i = 1
      <4>1. i \in 1..n
        BY <2>4, <2>5, <3>2
      <4> QED
        BY <3>1, <4>1
    <3> QED
      BY <2>3, <3>1, <3>2
  <2>7. readIO # "done" => \A i \in 1..Len(x) : x[i].msg # "data"
    BY <2>4, <2>5 DEF n
  <2>8. ~Fails => \A i \in 1..Len(x) : x[i].msg = "data"
    BY <2>3, <2>5, EndsSeq
  <2>9. Fails => \E i \in 1..Len(x) : x[i].msg = "error"
    <3> HAVE Fails
    <3>1. PICK i \in 1..Len(Ends) : Ends[i].msg = "error"
      BY EndsSeq
    <3>2. n + i \in 1..Len(x)
      BY <1>6, <2>5
    <3> QED
      BY <2>4, <3>1, <3>2
  <2>10. Fails /\ m_state # "unconnected" => \E p \in 1..Len(x) :
           /\ p + 1 \in 1..Len(x) /\ x[p].msg = "disconnected" /\ x[p + 1].msg = "error"
           /\ \A i \in 1..p - 1 : x[i].msg = "data"
    <3> HAVE Fails /\ m_state # "unconnected"
    <3>1. Len(Ends) >= 2 /\ Ends[1].msg = "disconnected" /\ Ends[2].msg = "error"
      BY EndsSeq
    <3>2. 1 \in 1..Len(Ends) /\ 2 \in 1..Len(Ends)
      BY <1>6, <3>1
    <3>3. x[n + 1] = Ends[1] /\ x[n + 2] = Ends[2]
      BY <2>4, <3>2
    <3>4. n + 1 \in 1..Len(x) /\ (n + 1) + 1 = n + 2 /\ n + 2 \in 1..Len(x) /\ 1..(n + 1) - 1 = 1..n
      BY <1>6, <2>5, <3>1
    <3> QED
      BY <2>3, <3>1, <3>3, <3>4
  <2> QED
    BY <1>1, <2>1, <2>2, <2>6, <2>7, <2>8, <2>9, <2>10
<1>9. CASE window' = window \o Ends \o Data
  <2> DEFINE x == Ends \o Data
             m == Len(Ends)
  <2>1. window' = window \o x
    BY <1>4, <1>5, <1>7, <1>9, ConcatThree
  <2>2. /\ x \in Seq(Entries) /\ Len(x) = Len(Ends) + Len(Data)
        /\ \A i \in 1..Len(Ends) : x[i] = Ends[i]
        /\ \A i \in 1..Len(Data) : x[Len(Ends) + i] = Data[i]
    BY ONLY <1>4, <1>5, ConcatSeq
  <2> HIDE DEF x, n
  <2>3. \A i \in 1..n : x[m + i].msg = "data" /\ x[m + i].data = read.data
    BY <1>2, <1>6, <2>2
  <2>4. \A i \in 1..m : x[i] = Ends[i] /\ x[i].msg # "data"
    BY <1>3, <1>6, <2>2
  <2>5. Len(x) = m + n /\ m \in Nat /\ \A i \in 1..Len(x) : i \in 1..m \/ (i - m \in 1..n /\ i = m + (i - m))
    BY <1>2, <1>6, <2>2
  <2> HIDE DEF m
  <2>6. readIO = "done" => \E p \in 1..Len(x) :
          /\ x[p].msg = "data" /\ x[p].data = read.data
          /\ \A i \in 1..Len(x) : x[i].msg = "data" => i = p
    <3> HAVE readIO = "done"
    <3>1. n = 1 /\ m + 1 \in 1..Len(x) /\ 1 \in 1..n
      BY <1>6, <2>5 DEF n
    <3>2. \A i \in 1..Len(x) : x[i].msg = "data" => i = m + 1
      BY <2>4, <2>5, <3>1
    <3> QED
      BY <2>3, <3>1, <3>2
  <2>7. readIO # "done" => \A i \in 1..Len(x) : x[i].msg # "data"
    BY <2>4, <2>5 DEF n
  <2>8. ~Fails => \A i \in 1..Len(x) : x[i].msg = "data"
    BY <2>3, <2>5, EndsSeq DEF m
  <2>9. Fails => \E i \in 1..Len(x) : x[i].msg = "error"
    <3> HAVE Fails
    <3>1. PICK i \in 1..m : Ends[i].msg = "error"
      BY EndsSeq DEF m
    <3>2. i \in 1..Len(x)
      BY <1>6, <2>5
    <3> QED
      BY <2>4, <3>1, <3>2
  <2>10. Fails /\ m_state # "unconnected" => \E p \in 1..Len(x) :
           /\ p + 1 \in 1..Len(x) /\ x[p].msg = "disconnected" /\ x[p + 1].msg = "error"
           /\ \A i \in 1..p - 1 : x[i].msg = "data"
    <3> HAVE Fails /\ m_state # "unconnected"
    <3>1. m >= 2 /\ Ends[1].msg = "disconnected" /\ Ends[2].msg = "error"
      BY EndsSeq DEF m
    <3>2. 1 \in 1..m /\ 2 \in 1..m /\ 1 \in 1..Len(x) /\ 2 \in 1..Len(x) /\ 1 + 1 = 2 /\ 1..1 - 1 = {}
      BY <1>6, <2>5, <3>1
    <3> QED
      BY <2>4, <3>1, <3>2
  <2> QED
    BY <1>1, <2>1, <2>2, <2>6, <2>7, <2>8, <2>9, <2>10
<1> QED
  BY <1>8, <1>9 DEF Completion

(***************************************************************************)
(* The type invariant.                                                     *)
(***************************************************************************)
LEMMA WindowType ==
  ASSUME TypeOK, NEW x \in Seq(Entries), window' = window \o x
  PROVE  (window \in Seq([msg : Posts, data : Numbers]))'
<1>1. window \in Seq(Entries)
  BY DEF TypeOK, Entries
<1>2. window' \in Seq(Entries)
  BY <1>1, ConcatSeq
<1> QED
  BY <1>2 DEF Entries

LEMMA TypeInit == Init => TypeOK
<1> SUFFICES ASSUME Init PROVE TypeOK
  OBVIOUS
<1>1. running \in BOOLEAN /\ quit \in BOOLEAN /\ connecting \in BOOLEAN /\ reading \in BOOLEAN /\ peerUp \in BOOLEAN
  BY DEF Init
<1> QED
  BY <1>1, Bounds DEF Init, TypeOK, IOStates, Invalid

LEMMA TypeNext == TypeOK /\ [Next]_vars => TypeOK'
<1> SUFFICES ASSUME TypeOK, [Next]_vars PROVE TypeOK'
  OBVIOUS
<1>1. CASE Connect
  <2>1. /\ running' \in BOOLEAN /\ quit' \in BOOLEAN /\ connecting' \in BOOLEAN /\ reading' \in BOOLEAN
        /\ peerUp' \in BOOLEAN
    BY <1>1 DEF Connect, Fresh
  <2> QED
    BY <1>1, <2>1, Bounds DEF Connect, Fresh, Instances, TypeOK, IOStates, Invalid, instances
<1>2. CASE ConnectAgain
  BY <1>2 DEF ConnectAgain, TypeOK, events, worker, instances, pipe, history
<1>3. CASE ConnectReads
  BY <1>3 DEF ConnectReads, TypeOK, worker, instances, pipe, history
<1>4. CASE Accept
  <2>1. (window \in Seq([msg : Posts, data : Numbers]))'
    <3>1. Posted("connected", 0) \in Seq(Entries)
      BY PostedSeq, Bounds DEF Posts
    <3> QED
      BY <1>4, <3>1, WindowType DEF Accept
  <2>2. conn + 1 \in 0..MaxOpens
    BY <1>4, Bounds DEF Accept, Fresh, TypeOK
  <2>3. /\ running' \in BOOLEAN /\ quit' \in BOOLEAN /\ connecting' \in BOOLEAN /\ reading' \in BOOLEAN
        /\ peerUp' \in BOOLEAN
    BY <1>4 DEF Accept, Fresh
  <2> QED
    BY <1>4, <2>1, <2>2, <2>3, Bounds DEF Accept, Fresh, Instances, TypeOK, IOStates
<1>5. CASE Write
  <2>1. Len(accepted) + 1 \in Numbers
    BY <1>5, Bounds DEF Write, TypeOK
  <2>2. Release \in 0..Capacity
    BY Bounds DEF TypeOK, Release
  <2>3. queue' \in Seq(Numbers) /\ accepted' \in Seq(Numbers)
    BY <1>5, <2>1 DEF Write, TypeOK
  <2> QED
    BY <1>5, <2>2, <2>3 DEF Write, TypeOK, owner, worker, instances, pipe
<1>6. CASE Deliver
  <2>1. window \in Seq(Entries) /\ window # <<>>
    BY <1>6 DEF Deliver, TypeOK, Entries
  <2>2. window' \in Seq(Entries) /\ Head(window) \in Entries
    BY <1>6, <2>1, TailSeq DEF Deliver
  <2>3. Head(window).msg \in Posts /\ Head(window).data \in Numbers
    BY <2>2 DEF Entries
  <2>4. heard' \in Seq({"connected", "disconnected"})
    BY <1>6, <2>3 DEF Deliver, TypeOK
  <2>5. got' \in Seq(Numbers)
    BY <1>6, <2>3 DEF Deliver, TypeOK
  <2>6. main' \in {"idle", "connecting", "disconnecting", "disconnected", "terminating", "joining", "joined"}
    BY <1>6 DEF Deliver, TypeOK
  <2> QED
    BY <1>6, <2>2, <2>4, <2>5, <2>6 DEF Deliver, TypeOK, Entries, events, worker, instances, pipe
<1>7. CASE Close
  BY <1>7 DEF Close, TypeOK, events, worker, instances, pipe, history
<1>8. CASE NothingOpen
  BY <1>8 DEF NothingOpen, TypeOK, events, worker, instances, pipe, history
<1>9. CASE CloseHandle
  <2>1. peerUp' \in BOOLEAN
    BY <1>9 DEF CloseHandle
  <2> QED
    BY <1>9, <2>1, Bounds DEF CloseHandle, TypeOK, events, worker, history, Invalid, Broken, IOStates
<1>10. CASE Disconnected
  <2>1. (window \in Seq([msg : Posts, data : Numbers]))'
    <3>1. Posted("disconnected", 0) \in Seq(Entries)
      BY PostedSeq, Bounds DEF Posts
    <3> QED
      BY <1>10, <3>1, WindowType DEF Disconnected
  <2>2. Invalid \in 0..MaxOpens
    BY Bounds DEF Invalid
  <2> QED
    BY <1>10, <2>1, <2>2 DEF Disconnected, TypeOK, events, worker, pipe, history
<1>11. CASE TermQuits
  BY <1>11 DEF TermQuits, TypeOK, worker, instances, pipe, history
<1>12. CASE TermJoins
  <2>1. window' = <<>> /\ queue' = <<>>
    BY <1>12 DEF TermJoins, DestroyWindow
  <2>2. m_hPipe' \in 0..MaxOpens
    BY <1>12, Bounds DEF TermJoins, TypeOK, Invalid
  <2>3. main' \in {"idle", "joined"} /\ then' \in {"idle", "connect"}
    BY <1>12 DEF TermJoins
  <2>4. running' \in BOOLEAN
    BY <1>12 DEF TermJoins
  <2> QED
    BY <1>12, <2>1, <2>2, <2>3, <2>4 DEF TermJoins, TypeOK, events, instances, pipe, history
<1>13. CASE WakeQuit
  <2>1. quit' \in BOOLEAN
    BY <1>13 DEF WakeQuit
  <2> QED
    BY <1>13, <2>1 DEF WakeQuit, TypeOK, owner, instances, pipe, history
<1>14. CASE WakeConnecting
  <2>1. connecting' \in BOOLEAN
    BY <1>14 DEF WakeConnecting
  <2> QED
    BY <1>14, <2>1 DEF WakeConnecting, TypeOK, owner, instances, pipe, history
<1>15. CASE WakeWritten
  BY <1>15, Bounds DEF WakeWritten, TypeOK, owner, instances, pipe, history
<1>16. CASE WakeRead
  <2>1. reading' \in BOOLEAN
    BY <1>16 DEF WakeRead
  <2> QED
    BY <1>16, <2>1 DEF WakeRead, TypeOK, owner, instances, pipe, history
<1>17. CASE Completion
  <2>1. (window \in Seq([msg : Posts, data : Numbers]))'
    BY <1>17, CompletionSeq, WindowType
  <2>2. m_state' \in {"unconnected", "connecting", "connected", "closing"}
    BY <1>17, CompletionSeq DEF TypeOK
  <2>3. readIO' \in IOStates /\ writeIO' \in IOStates
    BY <1>17 DEF Completion, TypeOK, Left, IOStates
  <2>4. todo' \subseteq {"connect", "write", "read"}
    BY <1>17 DEF Completion, NextIO, WriteNext, ReadNext
  <2>5. /\ (read \in [hPipeInst : 0..MaxOpens, bReading : BOOLEAN, bSuccess : BOOLEAN, data : Numbers])'
        /\ (write \in [hPipeInst : 0..MaxOpens, bWritting : BOOLEAN, bSuccess : BOOLEAN, data : Numbers])'
    BY <1>17 DEF Completion, TypeOK
  <2> QED
    BY <1>17, <2>1, <2>2, <2>3, <2>4, <2>5 DEF Completion, TypeOK, owner, events, pipe, history
<1>18. CASE Connects
  <2>1. (window \in Seq([msg : Posts, data : Numbers]))'
    <3>1. Posted("connected", 0) \in Seq(Entries) /\ Posted("error", 0) \in Seq(Entries)
      BY PostedSeq, Bounds DEF Posts
    <3> QED
      BY <1>18, <3>1, WindowType DEF Connects
  <2>2. conn \in 0..MaxOpens
    BY DEF TypeOK
  <2>3. /\ (write \in [hPipeInst : 0..MaxOpens, bWritting : BOOLEAN, bSuccess : BOOLEAN, data : Numbers])'
        /\ (read \in [hPipeInst : 0..MaxOpens, bReading : BOOLEAN, bSuccess : BOOLEAN, data : Numbers])'
    <3>1. CASE UNCHANGED <<write, read>>
      BY <3>1 DEF TypeOK
    <3>2. CASE /\ write' = [write EXCEPT !.hPipeInst = conn, !.bSuccess = TRUE]
               /\ read' = [read EXCEPT !.hPipeInst = conn, !.bSuccess = TRUE]
      BY <2>2, <3>2 DEF TypeOK
    <3> QED
      BY <1>18, <3>1, <3>2 DEF Connects
  <2>4. /\ m_hPipe' = m_hPipe \/ m_hPipe' = conn
        /\ m_state' \in {"connected", "unconnected"} /\ todo' = {}
    BY <1>18 DEF Connects
  <2>5. UNCHANGED <<owner, events, queue, thread, writeIO, readIO, toPeer, fromPeer, history>>
    BY <1>18 DEF Connects
  <2>6. peerUp' \in BOOLEAN
    BY <1>18 DEF Connects, TypeOK
  <2> QED
    BY <2>1, <2>2, <2>3, <2>4, <2>5, <2>6 DEF TypeOK, owner, events, history
<1>19. CASE DoWrite
  <2>1. (window \in Seq([msg : Posts, data : Numbers]))' /\ (m_state' = m_state \/ m_state' = "unconnected")
    <3>1. CASE SetError
      BY <3>1, ErrorSeq, WindowType DEF SetError
    <3>2. CASE UNCHANGED <<m_state, window>>
      BY <3>2 DEF TypeOK
    <3> QED
      BY <1>19, <3>1, <3>2 DEF DoWrite
  <2>2. queue' \in Seq(Numbers) /\ (MayWrite => Head(queue) \in Numbers)
    <3>1. CASE MayWrite
      <4>1. queue \in Seq(Numbers) /\ queue # <<>>
        BY <3>1 DEF TypeOK, MayWrite
      <4> QED
        BY <1>19, <3>1, <4>1, TailSeq DEF DoWrite
    <3>2. CASE ~MayWrite
      BY <1>19, <3>2 DEF DoWrite, TypeOK
    <3> QED
      BY <3>1, <3>2
  <2>3. (write \in [hPipeInst : 0..MaxOpens, bWritting : BOOLEAN, bSuccess : BOOLEAN, data : Numbers])'
    BY <1>19, <2>2 DEF DoWrite, TypeOK, Open
  <2>4. writeIO' \in IOStates /\ todo' \subseteq {"connect", "write", "read"}
    BY <1>19 DEF DoWrite, TypeOK, IOStates
  <2> QED
    BY <1>19, <2>1, <2>2, <2>3, <2>4 DEF DoWrite, TypeOK, owner, events, pipe, history
<1>20. CASE DoRead
  <2>1. (window \in Seq([msg : Posts, data : Numbers]))' /\ (m_state' = m_state \/ m_state' = "unconnected")
    <3>1. CASE SetError
      BY <3>1, ErrorSeq, WindowType DEF SetError
    <3>2. CASE UNCHANGED <<m_state, window>>
      BY <3>2 DEF TypeOK
    <3> QED
      BY <1>20, <3>1, <3>2 DEF DoRead
  <2>2. (read \in [hPipeInst : 0..MaxOpens, bReading : BOOLEAN, bSuccess : BOOLEAN, data : Numbers])'
    BY <1>20 DEF DoRead, TypeOK, Open
  <2>3. readIO' \in IOStates /\ todo' \subseteq {"connect", "write", "read"}
    BY <1>20 DEF DoRead, TypeOK, IOStates
  <2> QED
    BY <1>20, <2>1, <2>2, <2>3 DEF DoRead, TypeOK, owner, events, pipe, history
<1>21. CASE KernelWrites
  <2>1. toPeer' \in Seq(Numbers)
    BY <1>21 DEF KernelWrites, TypeOK
  <2> QED
    BY <1>21, <2>1 DEF KernelWrites, TypeOK, IOStates, owner, events, worker, history
<1>22. CASE KernelReads
  <2>1. fromPeer' \in Seq(Numbers) /\ Head(fromPeer) \in Numbers
    <3>1. fromPeer \in Seq(Numbers) /\ fromPeer # <<>>
      BY <1>22 DEF KernelReads, TypeOK
    <3> QED
      BY <1>22, <3>1, TailSeq DEF KernelReads
  <2>2. (read \in [hPipeInst : 0..MaxOpens, bReading : BOOLEAN, bSuccess : BOOLEAN, data : Numbers])'
    BY <1>22, <2>1 DEF KernelReads, TypeOK
  <2> QED
    BY <1>22, <2>1, <2>2 DEF KernelReads, TypeOK, IOStates, owner, events, worker, history
<1>23. CASE PeerWrites
  <2>1. sent' \in Numbers
    BY <1>23, Bounds DEF PeerWrites, TypeOK
  <2>2. fromPeer' \in Seq(Numbers)
    BY <1>23, <2>1 DEF PeerWrites, TypeOK
  <2> QED
    BY <1>23, <2>1, <2>2 DEF PeerWrites, TypeOK, owner, events, worker, instances
<1>24. CASE PeerCloses
  <2>1. peerUp' \in BOOLEAN
    BY <1>24 DEF PeerCloses
  <2> QED
    BY <1>24, <2>1 DEF PeerCloses, TypeOK, Broken, IOStates, owner, events, worker, history
<1>25. CASE UNCHANGED vars
  BY <1>25 DEF TypeOK, vars, owner, events, worker, pipe, instances, history
<1> QED
  BY <1>1, <1>2, <1>3, <1>4, <1>5, <1>6, <1>7, <1>8, <1>9, <1>10, <1>11, <1>12, <1>13,
     <1>14, <1>15, <1>16, <1>17, <1>18, <1>19, <1>20, <1>21, <1>22, <1>23, <1>24, <1>25
     DEF Next, Owner, OwnerCloses, Worker, Kernel

(***************************************************************************)
(* The owner and the worker.                                               *)
(***************************************************************************)
LEMMA OwnerNext == TypeOK /\ OwnerInv /\ FreshInv /\ [Next]_vars => OwnerInv'
<1> SUFFICES ASSUME TypeOK, OwnerInv, FreshInv, [Next]_vars PROVE OwnerInv'
  OBVIOUS
<1>1. CASE Connect
  <2>1. running'
    BY <1>1 DEF Connect, Fresh
  <2>2. main' = "connecting" /\ todo' = {}
    BY <1>1 DEF Connect, Fresh
  <2> QED
    BY <2>1, <2>2 DEF OwnerInv
<1>2. CASE ConnectAgain
  BY <1>2 DEF ConnectAgain, Idle, worker, events, TypeOK, OwnerInv
<1>3. CASE ConnectReads
  BY <1>3 DEF ConnectReads, worker, TypeOK, OwnerInv
<1>4. CASE Accept
  BY <1>4 DEF Accept, Fresh, Idle, TypeOK, OwnerInv
<1>5. CASE Write
  BY <1>5 DEF Write, owner, worker, TypeOK, OwnerInv
<1>6. CASE Deliver
  BY <1>6 DEF Deliver, worker, Idle, events, TypeOK, OwnerInv
<1>7. CASE Close
  BY <1>7 DEF Close, worker, Idle, events, TypeOK, OwnerInv
<1>8. CASE NothingOpen
  BY <1>8 DEF NothingOpen, worker, events, TypeOK, OwnerInv
<1>9. CASE CloseHandle
  BY <1>9 DEF CloseHandle, worker, events, TypeOK, OwnerInv
<1>10. CASE Disconnected
  BY <1>10 DEF Disconnected, worker, events, TypeOK, OwnerInv
<1>11. CASE TermQuits
  BY <1>11 DEF TermQuits, worker, TypeOK, OwnerInv
<1>12. CASE TermJoins
  BY <1>12 DEF TermJoins, events, DestroyWindow, TypeOK, OwnerInv
<1>13. CASE WakeQuit
  BY <1>13 DEF WakeQuit, owner, Waits, TypeOK, OwnerInv
<1>14. CASE WakeConnecting
  BY <1>14 DEF WakeConnecting, owner, Waits, TypeOK, OwnerInv
<1>15. CASE WakeWritten
  BY <1>15 DEF WakeWritten, owner, Waits, TypeOK, OwnerInv
<1>16. CASE WakeRead
  BY <1>16 DEF WakeRead, owner, Waits, TypeOK, OwnerInv
<1>17. CASE Completion
  <2>1. running /\ main # "joined" /\ todo = {}
    BY <1>17 DEF Completion, Waits, OwnerInv
  <2>2. running' = running /\ main' = main /\ connecting' = connecting
    BY <1>17 DEF Completion, owner, events
  <2>3. "connect" \notin todo'
    BY <1>17 DEF Completion, NextIO, WriteNext, ReadNext
  <2>4. ~connecting
    BY <1>17, <2>1 DEF Completion, FreshInv, NotYet, Finished
  <2> QED
    BY <2>1, <2>2, <2>3, <2>4 DEF OwnerInv
<1>18. CASE Connects
  BY <1>18 DEF Connects, owner, events, TypeOK, OwnerInv
<1>19. CASE DoWrite
  BY <1>19 DEF DoWrite, owner, events, TypeOK, OwnerInv
<1>20. CASE DoRead
  BY <1>20 DEF DoRead, owner, events, TypeOK, OwnerInv
<1>21. CASE KernelWrites
  BY <1>21 DEF KernelWrites, owner, worker, events, TypeOK, OwnerInv
<1>22. CASE KernelReads
  BY <1>22 DEF KernelReads, owner, worker, events, TypeOK, OwnerInv
<1>23. CASE PeerWrites
  BY <1>23 DEF PeerWrites, owner, worker, events, TypeOK, OwnerInv
<1>24. CASE PeerCloses
  BY <1>24 DEF PeerCloses, owner, worker, events, TypeOK, OwnerInv
<1>25. CASE UNCHANGED vars
  BY <1>25 DEF vars, owner, events, worker, pipe, instances, history, TypeOK, OwnerInv
<1> QED
  BY <1>1, <1>2, <1>3, <1>4, <1>5, <1>6, <1>7, <1>8, <1>9, <1>10, <1>11, <1>12, <1>13,
     <1>14, <1>15, <1>16, <1>17, <1>18, <1>19, <1>20, <1>21, <1>22, <1>23, <1>24, <1>25
     DEF Next, Owner, OwnerCloses, Worker, Kernel

\* What is posted goes behind what was posted before.
LEMMA Appends ==
  ASSUME TypeOK, NEW x \in Seq(Entries), window' = window \o x
  PROVE  /\ Len(window) \in Nat /\ Len(x) \in Nat /\ Len(window') = Len(window) + Len(x)
         /\ DOMAIN window = 1..Len(window) /\ DOMAIN window' = 1..Len(window) + Len(x)
         /\ \A i \in 1..Len(window) : window'[i] = window[i]
         /\ \A i \in 1..Len(x) : window'[Len(window) + i] = x[i]
<1>1. window \in Seq(Entries)
  BY DEF TypeOK, Entries
<1>2. /\ window' \in Seq(Entries) /\ Len(window') = Len(window) + Len(x)
      /\ \A i \in 1..Len(window) : window'[i] = window[i]
      /\ \A i \in 1..Len(x) : window'[Len(window) + i] = x[i]
  BY <1>1, ConcatSeq
<1> QED
  BY <1>1, <1>2, SeqFacts

\* News that carry no data leave the data alone.
SameData == DataPlaces' = DataPlaces /\ \A i \in DataPlaces : window'[i] = window[i]

LEMMA QuietPost ==
  ASSUME TypeOK, NEW x \in Seq(Entries), window' = window \o x,
         \A i \in 1..Len(x) : x[i].msg # "data"
  PROVE  SameData
<1>1. ASSUME NEW i \in 1..Len(window) + Len(x)
      PROVE  i \in 1..Len(window) \/ (i - Len(window) \in 1..Len(x) /\ i = Len(window) + (i - Len(window)))
  BY Appends
<1>2. DataPlaces' = {i \in 1..Len(window) + Len(x) : window'[i].msg = "data"}
  BY Appends DEF DataPlaces
<1>3. DataPlaces = {i \in 1..Len(window) : window[i].msg = "data"}
  BY Appends DEF DataPlaces
<1>4. 1..Len(window) \subseteq 1..Len(window) + Len(x)
  BY Appends
<1>5. ASSUME NEW i \in 1..Len(window) + Len(x), window'[i].msg = "data" PROVE i \in 1..Len(window)
  BY <1>1, <1>5, Appends
<1>6. DataPlaces' = DataPlaces
  BY <1>2, <1>3, <1>4, <1>5, Appends
<1> QED
  BY <1>3, <1>6, Appends DEF SameData

LEMMA SameWindow ==
  ASSUME window' = window
  PROVE  SameData
BY DEF SameData, DataPlaces

LEMMA ErrorQuiet ==
  ASSUME TypeOK, SetError
  PROVE  SameData
<1>1. PICK x \in Seq(Entries) :
        /\ window' = window \o x
        /\ m_state # "unconnected" => Len(x) = 2 /\ x[1].msg = "disconnected" /\ x[2].msg = "error"
        /\ m_state = "unconnected" => Len(x) = 1 /\ x[1].msg = "error"
  BY ErrorSeq
<1>2. \A i \in 1..Len(x) : x[i].msg # "data"
  <2>1. CASE m_state # "unconnected"
    <3>1. \A i \in 1..2 : i = 1 \/ i = 2
      OBVIOUS
    <3> QED
      BY <1>1, <2>1, <3>1
  <2>2. CASE m_state = "unconnected"
    <3>1. \A i \in 1..1 : i = 1
      OBVIOUS
    <3> QED
      BY <1>1, <2>2, <3>1
  <2> QED
    BY <2>1, <2>2
<1> QED
  BY <1>1, <1>2, QuietPost

LEMMA OneQuiet ==
  ASSUME TypeOK, NEW m \in Posts \ {"data"}, window' = window \o Posted(m, 0)
  PROVE  SameData
<1>1. Posted(m, 0) \in Seq(Entries) /\ Len(Posted(m, 0)) = 1 /\ Posted(m, 0)[1].msg = m
  BY PostedSeq, Bounds
<1>2. \A i \in 1..1 : i = 1
  OBVIOUS
<1>3. \A i \in 1..Len(Posted(m, 0)) : Posted(m, 0)[i].msg # "data"
  BY <1>1, <1>2
<1> QED
  BY <1>1, <1>3, QuietPost

(***************************************************************************)
(* Before the worker has connected.                                        *)
(***************************************************************************)
LEMMA FreshFrame ==
  ASSUME TypeOK, FreshInv, NotYet' => NotYet,
         UNCHANGED <<write.bWritting, read.bReading, writeIO, readIO, peerUp, toPeer, fromPeer, sent, got>>,
         UNCHANGED <<DataPlaces, accepted, queue>>
  PROVE  FreshInv'
BY DEF FreshInv

LEMMA FreshNext == TypeOK /\ OwnerInv /\ FreshInv /\ [Next]_vars => FreshInv'
<1> SUFFICES ASSUME TypeOK, OwnerInv, FreshInv, [Next]_vars PROVE FreshInv'
  OBVIOUS
<1>1. CASE Connect
  <2>1. /\ ~write'.bWritting /\ writeIO' = "none" /\ ~read'.bReading /\ readIO' = "none"
        /\ ~peerUp' /\ toPeer' = <<>> /\ fromPeer' = <<>> /\ sent' = 0 /\ got' = <<>>
        /\ accepted' = <<>> /\ queue' = <<>>
    BY <1>1 DEF Connect, Fresh, Instances
  <2>2. window' = <<>>
    BY <1>1 DEF Connect, OwnerInv
  <2>3. DataPlaces' = {}
    BY <2>2 DEF DataPlaces
  <2> QED
    BY <2>1, <2>3 DEF FreshInv
<1>2. CASE ConnectAgain
  <2>1. NotYet' => NotYet
    BY <1>2 DEF NotYet, ConnectAgain, events, worker, instances, pipe, history
  <2>2. DataPlaces' = DataPlaces
    BY <1>2 DEF DataPlaces, ConnectAgain, events, worker, instances, pipe, history
  <2> QED
    BY <1>2, <2>1, <2>2, FreshFrame DEF ConnectAgain, events, worker, instances, pipe, history
<1>3. CASE ConnectReads
  <2>1. NotYet' => NotYet
    BY <1>3 DEF NotYet, ConnectReads, worker, instances, pipe, history
  <2>2. DataPlaces' = DataPlaces
    BY <1>3 DEF DataPlaces, ConnectReads, worker, instances, pipe, history
  <2> QED
    BY <1>3, <2>1, <2>2, FreshFrame DEF ConnectReads, worker, instances, pipe, history
<1>4. CASE Accept
  <2>1. ~connecting' /\ todo' = {}
    BY <1>4 DEF Accept, Fresh
  <2> QED
    BY <2>1 DEF FreshInv, NotYet
<1>5. CASE Write
  <2>1. Len(accepted') = Len(accepted) + 1 /\ Len(queue') = Len(queue) + 1
    BY <1>5, AppendSeq DEF Write, TypeOK
  <2>2. NotYet' => NotYet
    BY <1>5 DEF NotYet, Write, owner, worker
  <2>3. DataPlaces' = DataPlaces
    BY <1>5 DEF DataPlaces, Write
  <2> QED
    BY <1>5, <2>1, <2>2, <2>3 DEF Write, FreshInv, worker, instances, pipe
<1>6. CASE Deliver
  <2>1. NotYet' => NotYet
    BY <1>6 DEF NotYet, Deliver, events, worker
  <2>2. NotYet => DataPlaces' = {} /\ got' = got
    <3> HAVE NotYet
    <3>1. window \in Seq(Entries) /\ window # <<>> /\ window' = Tail(window)
      BY <1>6 DEF Deliver, TypeOK, Entries
    <3>2. \A i \in 1..Len(window) : window[i].msg # "data"
      BY <3>1, SeqFacts DEF FreshInv, DataPlaces
    <3>3. Head(window).msg # "data"
      BY <3>1, <3>2, TailSeq
    <3>4. \A i \in 1..Len(window) - 1 : i + 1 \in 1..Len(window) /\ window'[i] = window[i + 1]
      BY <3>1, TailSeq
    <3>5. DOMAIN window' = 1..Len(window) - 1
      BY <3>1, TailSeq, SeqFacts
    <3>6. DataPlaces' = {}
      BY <3>2, <3>4, <3>5 DEF DataPlaces
    <3> QED
      BY <1>6, <3>3, <3>6 DEF Deliver
  <2> QED
    BY <1>6, <2>1, <2>2 DEF Deliver, FreshInv, events, worker, instances, pipe
<1>7. CASE Close
  <2>1. NotYet' => NotYet
    BY <1>7 DEF NotYet, Close, events, worker, instances, pipe, history
  <2>2. DataPlaces' = DataPlaces
    BY <1>7 DEF DataPlaces, Close, events, worker, instances, pipe, history
  <2> QED
    BY <1>7, <2>1, <2>2, FreshFrame DEF Close, events, worker, instances, pipe, history
<1>8. CASE NothingOpen
  <2>1. NotYet' => NotYet
    BY <1>8 DEF NotYet, NothingOpen, events, worker, instances, pipe, history
  <2>2. DataPlaces' = DataPlaces
    BY <1>8 DEF DataPlaces, NothingOpen, events, worker, instances, pipe, history
  <2> QED
    BY <1>8, <2>1, <2>2, FreshFrame DEF NothingOpen, events, worker, instances, pipe, history
<1>9. CASE CloseHandle
  <2>1. NotYet' => NotYet
    BY <1>9 DEF NotYet, CloseHandle, events, worker
  <2>2. DataPlaces' = DataPlaces
    BY <1>9 DEF DataPlaces, CloseHandle
  <2>3. ~peerUp'
    BY <1>9 DEF CloseHandle
  <2> QED
    BY <1>9, <2>1, <2>2, <2>3 DEF CloseHandle, Broken, FreshInv, history
<1>10. CASE Disconnected
  <2>1. NotYet' => NotYet
    BY <1>10 DEF NotYet, Disconnected, events, worker
  <2>2. DataPlaces' = DataPlaces
    BY <1>10, OneQuiet DEF Disconnected, Posts, SameData
  <2>3. write'.bWritting = write.bWritting /\ read'.bReading = read.bReading
    BY <1>10 DEF Disconnected, TypeOK
  <2> QED
    BY <1>10, <2>1, <2>2, <2>3, FreshFrame DEF Disconnected, pipe, history
<1>11. CASE TermQuits
  <2>1. NotYet' => NotYet
    BY <1>11 DEF NotYet, TermQuits, worker, instances, pipe, history
  <2>2. DataPlaces' = DataPlaces
    BY <1>11 DEF DataPlaces, TermQuits, worker, instances, pipe, history
  <2> QED
    BY <1>11, <2>1, <2>2, FreshFrame DEF TermQuits, worker, instances, pipe, history
<1>12. CASE TermJoins
  <2>1. ~running'
    BY <1>12 DEF TermJoins
  <2> QED
    BY <2>1 DEF FreshInv, NotYet
<1>13. CASE WakeQuit
  <2>1. NotYet' => NotYet
    BY <1>13 DEF NotYet, WakeQuit, owner, instances, pipe, history
  <2>2. DataPlaces' = DataPlaces
    BY <1>13 DEF DataPlaces, WakeQuit, owner, instances, pipe, history
  <2> QED
    BY <1>13, <2>1, <2>2, FreshFrame DEF WakeQuit, owner, instances, pipe, history
<1>14. CASE WakeConnecting
  <2>1. NotYet' => NotYet
    BY <1>14 DEF NotYet, WakeConnecting, owner, instances, pipe, history
  <2>2. DataPlaces' = DataPlaces
    BY <1>14 DEF DataPlaces, WakeConnecting, owner, instances, pipe, history
  <2> QED
    BY <1>14, <2>1, <2>2, FreshFrame DEF WakeConnecting, owner, instances, pipe, history
<1>15. CASE WakeWritten
  <2>1. NotYet' => NotYet
    BY <1>15 DEF NotYet, WakeWritten, owner, instances, pipe, history
  <2>2. DataPlaces' = DataPlaces
    BY <1>15 DEF DataPlaces, WakeWritten, owner, instances, pipe, history
  <2> QED
    BY <1>15, <2>1, <2>2, FreshFrame DEF WakeWritten, owner, instances, pipe, history
<1>16. CASE WakeRead
  <2>1. NotYet' => NotYet
    BY <1>16 DEF NotYet, WakeRead, owner, instances, pipe, history
  <2>2. DataPlaces' = DataPlaces
    BY <1>16 DEF DataPlaces, WakeRead, owner, instances, pipe, history
  <2> QED
    BY <1>16, <2>1, <2>2, FreshFrame DEF WakeRead, owner, instances, pipe, history
<1>17. CASE Completion
  <2>1. ~NotYet
    BY <1>17 DEF Completion, FreshInv, Finished
  <2>2. ~NotYet'
    BY <1>17, <2>1 DEF NotYet, Completion, NextIO, WriteNext, ReadNext, owner, events
  <2> QED
    BY <2>2 DEF FreshInv
<1>18. CASE Connects
  <2>1. ~connecting
    BY <1>18 DEF Connects, OwnerInv
  <2>2. ~NotYet'
    BY <1>18, <2>1 DEF NotYet, Connects, owner, events
  <2> QED
    BY <2>2 DEF FreshInv
<1>19. CASE DoWrite
  <2>1. ~NotYet
    BY <1>19 DEF DoWrite, OwnerInv, NotYet
  <2>2. ~NotYet'
    BY <1>19, <2>1 DEF NotYet, DoWrite, owner, events
  <2> QED
    BY <2>2 DEF FreshInv
<1>20. CASE DoRead
  <2>1. ~NotYet
    BY <1>20 DEF DoRead, OwnerInv, NotYet
  <2>2. ~NotYet'
    BY <1>20, <2>1 DEF NotYet, DoRead, owner, events
  <2> QED
    BY <2>2 DEF FreshInv
<1>21. CASE KernelWrites
  <2>1. ~NotYet
    BY <1>21 DEF KernelWrites, FreshInv
  <2>2. ~NotYet'
    BY <1>21, <2>1 DEF NotYet, KernelWrites, owner, events, worker
  <2> QED
    BY <2>2 DEF FreshInv
<1>22. CASE KernelReads
  <2>1. ~NotYet
    BY <1>22 DEF KernelReads, FreshInv
  <2>2. ~NotYet'
    BY <1>22, <2>1 DEF NotYet, KernelReads, owner, events, worker
  <2> QED
    BY <2>2 DEF FreshInv
<1>23. CASE PeerWrites
  <2>1. ~NotYet
    BY <1>23 DEF PeerWrites, FreshInv
  <2>2. ~NotYet'
    BY <1>23, <2>1 DEF NotYet, PeerWrites, owner, events, worker
  <2> QED
    BY <2>2 DEF FreshInv
<1>24. CASE PeerCloses
  <2>1. ~NotYet
    BY <1>24 DEF PeerCloses, FreshInv
  <2>2. ~NotYet'
    BY <1>24, <2>1 DEF NotYet, PeerCloses, owner, events, worker
  <2> QED
    BY <2>2 DEF FreshInv
<1>25. CASE UNCHANGED vars
  BY <1>25 DEF vars, owner, events, worker, pipe, instances, history, FreshInv, NotYet, DataPlaces
<1> QED
  BY <1>1, <1>2, <1>3, <1>4, <1>5, <1>6, <1>7, <1>8, <1>9, <1>10, <1>11, <1>12, <1>13,
     <1>14, <1>15, <1>16, <1>17, <1>18, <1>19, <1>20, <1>21, <1>22, <1>23, <1>24, <1>25
     DEF Next, Owner, OwnerCloses, Worker, Kernel

(***************************************************************************)
(* What is written.                                                        *)
(***************************************************************************)
LEMMA WriteFrame ==
  ASSUME TypeOK, WriteInv,
         UNCHANGED <<accepted, toPeer, queue, writeIO, write.bWritting, write.data>>,
         write'.bSuccess => write.bSuccess, running' => running,
         m_state' \in {"connecting", "connected"} => m_state' = m_state
  PROVE  WriteInv'
<1>1. Writing' = Writing
  BY DEF Writing
<1>2. write'.data = write.data /\ write'.bWritting = write.bWritting
  OBVIOUS
<1> QED
  BY <1>1, <1>2 DEF WriteInv

\* An operation that the kernel breaks off is still the one under way.
LEMMA WriteBroken ==
  ASSUME TypeOK, WriteInv,
         UNCHANGED <<accepted, toPeer, queue, write>>, writeIO' = Broken(writeIO),
         running' => running, m_state' \in {"connecting", "connected"} => m_state' = m_state
  PROVE  WriteInv'
<1>1. Writing' = Writing
  BY DEF Writing, Broken
<1>2. writeIO' \in {"pending", "failed"} => writeIO \in {"pending", "failed"}
  BY DEF Broken
<1>3. (writeIO' = "none") <=> (writeIO = "none")
  BY DEF Broken
<1> QED
  BY <1>1, <1>2, <1>3 DEF WriteInv

LEMMA WriteEmpty ==
  ASSUME accepted' = <<>>, toPeer' = <<>>, queue' = <<>>, writeIO' = "none", ~write'.bWritting
  PROVE  WriteInv'
<1>1. /\ Len(accepted') = 0 /\ Len(toPeer') = 0 /\ Len(queue') = 0
      /\ DOMAIN accepted' = {} /\ DOMAIN toPeer' = {} /\ DOMAIN queue' = {}
  OBVIOUS
<1>2. Writing' = 0
  BY DEF Writing
<1> QED
  BY <1>1, <1>2 DEF WriteInv

LEMMA WriteLengths ==
  ASSUME TypeOK
  PROVE  /\ Len(accepted) \in Nat /\ DOMAIN accepted = 1..Len(accepted)
         /\ Len(toPeer) \in Nat /\ DOMAIN toPeer = 1..Len(toPeer)
         /\ Len(queue) \in Nat /\ DOMAIN queue = 1..Len(queue)
BY DEF TypeOK

LEMMA WriteStep == TypeOK /\ OwnerInv /\ FreshInv /\ WriteInv /\ [Next]_vars => WriteInv'
<1> SUFFICES ASSUME TypeOK, OwnerInv, FreshInv, WriteInv, [Next]_vars PROVE WriteInv'
  OBVIOUS
<1>1. CASE Connect
  <2>1. ~write'.bWritting
    BY <1>1 DEF Connect, Instances
  <2> QED
    BY <1>1, <2>1, WriteEmpty DEF Connect, Fresh
<1>2. CASE ConnectAgain
  BY <1>2, WriteFrame DEF ConnectAgain, instances, pipe, history
<1>3. CASE ConnectReads
  BY <1>3, WriteFrame DEF ConnectReads, instances, pipe, history
<1>4. CASE Accept
  <2>1. ~write'.bWritting
    BY <1>4 DEF Accept, Instances
  <2> QED
    BY <1>4, <2>1, WriteEmpty DEF Accept, Fresh
<1>5. CASE Write
  <2> DEFINE n == Len(accepted) + 1
  <2>1. n \in Numbers /\ accepted \in Seq(Numbers) /\ queue \in Seq(Numbers)
    BY <1>5, Bounds DEF Write, TypeOK
  <2>2. /\ Len(accepted') = n /\ DOMAIN accepted' = 1..n
        /\ \A i \in 1..Len(accepted) : accepted'[i] = accepted[i]
        /\ accepted'[n] = n
    BY <1>5, <2>1, AppendSeq, SeqFacts DEF Write
  <2>3. /\ Len(queue') = Len(queue) + 1 /\ DOMAIN queue' = 1..Len(queue) + 1
        /\ \A i \in 1..Len(queue) : queue'[i] = queue[i]
        /\ queue'[Len(queue) + 1] = n
    BY <1>5, <2>1, AppendSeq, SeqFacts DEF Write
  <2>4. UNCHANGED <<m_state, running, toPeer, write, writeIO>>
    BY <1>5 DEF Write, owner, instances, pipe
  <2>5. Writing' = Writing /\ Writing \in Nat
    BY <2>4 DEF Writing
  <2>6. \A i \in DOMAIN accepted' : accepted'[i] = i
    <3> SUFFICES ASSUME NEW i \in 1..n PROVE accepted'[i] = i
      BY <2>2
    <3>1. i \in 1..Len(accepted) \/ i = n
      BY WriteLengths
    <3> QED
      BY <2>2, <3>1, WriteLengths DEF WriteInv
  <2>7. \A i \in DOMAIN queue' : queue'[i] = Len(accepted') - Len(queue') + i
    <3> SUFFICES ASSUME NEW i \in 1..Len(queue) + 1 PROVE queue'[i] = Len(accepted') - Len(queue') + i
      BY <2>3
    <3>1. CASE i \in 1..Len(queue)
      <4>1. queue'[i] = Len(accepted) - Len(queue) + i
        BY <2>3, <3>1, WriteLengths DEF WriteInv
      <4> QED
        BY <2>2, <2>3, <4>1, WriteLengths
    <3>2. CASE i = Len(queue) + 1
      BY <2>2, <2>3, <3>2, WriteLengths
    <3> QED
      BY <3>1, <3>2, WriteLengths
  <2>8. (writeIO \in {"pending", "failed"} => write.data = Len(toPeer) + 1 /\ write.data <= Len(accepted))'
    BY <2>2, <2>4, WriteLengths DEF WriteInv
  <2>9. (running /\ write.bSuccess => Len(accepted) = Len(toPeer) + Writing + Len(queue))'
    BY <2>2, <2>3, <2>4, <2>5, WriteLengths DEF WriteInv
  <2>10. (Len(toPeer) <= Len(accepted) /\ Len(queue) <= Len(accepted))'
    BY <2>2, <2>3, <2>4, WriteLengths DEF WriteInv
  <2>11. (/\ \A i \in DOMAIN toPeer : toPeer[i] = i
          /\ ~write.bWritting => writeIO = "none"
          /\ write.bSuccess /\ write.bWritting /\ writeIO = "none" => m_state \notin {"connecting", "connected"})'
    BY <2>4 DEF WriteInv
  <2> QED
    BY <2>6, <2>7, <2>8, <2>9, <2>10, <2>11 DEF WriteInv
<1>6. CASE Deliver
  BY <1>6, WriteFrame DEF Deliver, instances, pipe
<1>7. CASE Close
  BY <1>7, WriteFrame DEF Close, instances, pipe, history
<1>8. CASE NothingOpen
  BY <1>8, WriteFrame DEF NothingOpen, instances, pipe, history
<1>9. CASE CloseHandle
  BY <1>9, WriteBroken DEF CloseHandle, history
<1>10. CASE Disconnected
  <2>1. write'.bWritting = write.bWritting /\ write'.data = write.data /\ ~write'.bSuccess
    BY <1>10 DEF Disconnected, TypeOK
  <2> QED
    BY <1>10, <2>1, WriteFrame DEF Disconnected, pipe, history
<1>11. CASE TermQuits
  BY <1>11, WriteFrame DEF TermQuits, instances, pipe, history
<1>12. CASE TermJoins
  <2>1. /\ ~running' /\ m_state' = "unconnected" /\ queue' = <<>>
        /\ UNCHANGED <<accepted, toPeer, write, writeIO>>
    BY <1>12 DEF TermJoins, instances, pipe, history
  <2>2. Len(queue') = 0 /\ DOMAIN queue' = {}
    BY <2>1
  <2> QED
    BY <2>1, <2>2, WriteLengths DEF WriteInv
<1>13. CASE WakeQuit
  BY <1>13, WriteFrame DEF WakeQuit, owner, instances, pipe, history
<1>14. CASE WakeConnecting
  BY <1>14, WriteFrame DEF WakeConnecting, owner, instances, pipe, history
<1>15. CASE WakeWritten
  BY <1>15, WriteFrame DEF WakeWritten, owner, instances, pipe, history
<1>16. CASE WakeRead
  BY <1>16, WriteFrame DEF WakeRead, owner, instances, pipe, history
<1>17. CASE Completion
  <2>1. /\ m_state' = IF Fails THEN "unconnected" ELSE m_state
        /\ UNCHANGED <<accepted, toPeer, queue, running>>
    BY <1>17, CompletionSeq DEF Completion, owner, pipe, history
  <2>2. /\ write'.bSuccess = write.bSuccess /\ write'.data = write.data
        /\ write'.bWritting = (write.bWritting /\ writeIO # "done")
    BY <1>17 DEF Completion, TypeOK
  <2>3. CASE writeIO = "done"
    <3>1. writeIO' = "none" /\ ~write'.bWritting
      BY <1>17, <2>2, <2>3 DEF Completion, Left, Finished
    <3>2. Writing' = Writing
      BY <2>3, <3>1 DEF Writing
    <3> QED
      BY <2>1, <2>2, <3>1, <3>2 DEF WriteInv
  <2>4. CASE writeIO = "failed"
    <3>1. writeIO' = "none" /\ write'.bWritting = write.bWritting /\ m_state' = "unconnected"
      BY <1>17, <2>1, <2>2, <2>4 DEF Completion, Left, Finished, Fails, TypeOK
    <3>2. Writing' = Writing
      BY <2>4, <3>1 DEF Writing
    <3> QED
      BY <2>1, <2>2, <3>1, <3>2 DEF WriteInv
  <2>5. CASE writeIO \in {"none", "pending"}
    <3>1. writeIO' = writeIO /\ write'.bWritting = write.bWritting
      BY <1>17, <2>2, <2>5 DEF Completion, Left, Finished, TypeOK
    <3> QED
      BY <2>1, <2>2, <3>1, WriteFrame
  <2> QED
    BY <2>3, <2>4, <2>5 DEF TypeOK, IOStates
<1>18. CASE Connects
  <2>1. NotYet
    BY <1>18 DEF Connects, OwnerInv, NotYet
  <2>2. UNCHANGED <<accepted, toPeer, queue, running, writeIO>>
    BY <1>18 DEF Connects, owner, history
  <2>3. write'.bWritting = write.bWritting /\ write'.data = write.data
    BY <1>18 DEF Connects, TypeOK
  <2>4. ~write'.bWritting /\ writeIO' = "none" /\ Writing' = 0
    BY <2>1, <2>2, <2>3 DEF FreshInv, Writing
  <2>5. Len(accepted') = Len(queue') /\ Len(toPeer') = 0
    BY <2>1, <2>2 DEF FreshInv
  <2> QED
    BY <2>2, <2>4, <2>5, WriteLengths DEF WriteInv
<1>19. CASE DoWrite
  <2>1. UNCHANGED <<accepted, toPeer, running>> /\ running
    BY <1>19 DEF DoWrite, owner, pipe, history, OwnerInv
  <2>2. CASE ~MayWrite
    BY <1>19, <2>1, <2>2, WriteFrame DEF DoWrite
  <2>3. CASE MayWrite
    <3>1. queue \in Seq(Numbers) /\ queue # <<>> /\ ~write.bWritting /\ write.bSuccess /\ writeIO = "none"
      BY <2>3 DEF MayWrite, TypeOK, WriteInv
    <3>2. /\ queue' = Tail(queue) /\ write'.bWritting /\ write'.data = Head(queue)
          /\ write'.bSuccess = Open(write)
      BY <1>19, <2>3 DEF DoWrite, TypeOK
    <3>3. /\ Len(queue) \in Nat \ {0} /\ Len(queue') = Len(queue) - 1 /\ DOMAIN queue' = 1..Len(queue) - 1
          /\ \A i \in 1..Len(queue) - 1 : queue'[i] = queue[i + 1]
          /\ Head(queue) = queue[1]
      BY <3>1, <3>2, TailSeq, SeqFacts
    <3>4. Len(accepted) = Len(toPeer) + Len(queue)
      BY <2>1, <3>1, WriteLengths DEF WriteInv, Writing
    <3>5. write'.data = Len(toPeer) + 1 /\ write'.data <= Len(accepted)
      <4>1. queue[1] = Len(accepted) - Len(queue) + 1
        BY <3>3, WriteLengths DEF WriteInv
      <4> QED
        BY <3>2, <3>3, <3>4, <4>1, WriteLengths
    <3>6. \A i \in DOMAIN queue' : queue'[i] = Len(accepted') - Len(queue') + i
      <4> SUFFICES ASSUME NEW i \in 1..Len(queue) - 1 PROVE queue'[i] = Len(accepted') - Len(queue') + i
        BY <3>3
      <4>1. i + 1 \in 1..Len(queue)
        BY <3>3
      <4>2. queue[i + 1] = Len(accepted) - Len(queue) + (i + 1)
        BY <4>1, WriteLengths DEF WriteInv
      <4> QED
        BY <2>1, <3>3, <4>2, WriteLengths
    <3>7. CASE Open(write)
      <4>1. writeIO' = "pending"
        BY <1>19, <2>3, <3>7 DEF DoWrite
      <4>2. Writing' = 1
        BY <3>2, <4>1 DEF Writing
      <4> QED
        BY <2>1, <3>2, <3>3, <3>4, <3>5, <3>6, <4>1, <4>2, WriteLengths DEF WriteInv
    <3>8. CASE ~Open(write)
      <4>1. writeIO' = "none" /\ ~write'.bSuccess
        BY <1>19, <2>3, <3>1, <3>2, <3>8 DEF DoWrite
      <4> QED
        BY <2>1, <3>2, <3>3, <3>6, <4>1, WriteLengths DEF WriteInv
    <3> QED
      BY <3>7, <3>8
  <2> QED
    BY <2>2, <2>3
<1>20. CASE DoRead
  BY <1>20, WriteFrame DEF DoRead, SetError, owner, pipe, history
<1>21. CASE KernelWrites
  <2>1. UNCHANGED <<accepted, queue, running, m_state, write>> /\ writeIO = "pending" /\ writeIO' = "done"
    BY <1>21 DEF KernelWrites, owner, history
  <2>2. write.bWritting /\ write.data = Len(toPeer) + 1 /\ write.data <= Len(accepted)
    BY <2>1 DEF WriteInv
  <2>3. /\ Len(toPeer') = Len(toPeer) + 1 /\ DOMAIN toPeer' = 1..Len(toPeer) + 1
        /\ \A i \in 1..Len(toPeer) : toPeer'[i] = toPeer[i]
        /\ toPeer'[Len(toPeer) + 1] = Len(toPeer) + 1
    <3>1. toPeer' = Append(toPeer, write.data) /\ toPeer \in Seq(Numbers) /\ write.data \in Numbers
      BY <1>21 DEF KernelWrites, TypeOK
    <3> QED
      BY <2>2, <3>1, AppendSeq, SeqFacts
  <2>4. \A i \in DOMAIN toPeer' : toPeer'[i] = i
    <3> SUFFICES ASSUME NEW i \in 1..Len(toPeer) + 1 PROVE toPeer'[i] = i
      BY <2>3
    <3>1. i \in 1..Len(toPeer) \/ i = Len(toPeer) + 1
      BY WriteLengths
    <3> QED
      BY <2>3, <3>1, WriteLengths DEF WriteInv
  <2>5. Writing = 1 /\ Writing' = 0
    BY <2>1, <2>2 DEF Writing
  <2>6. (running /\ write.bSuccess => Len(accepted) = Len(toPeer) + Writing + Len(queue))'
    BY <2>1, <2>3, <2>5, WriteLengths DEF WriteInv
  <2>7. (Len(toPeer) <= Len(accepted) /\ Len(queue) <= Len(accepted))'
    BY <2>1, <2>2, <2>3, WriteLengths DEF WriteInv
  <2>8. (/\ \A i \in DOMAIN accepted : accepted[i] = i
         /\ \A i \in DOMAIN queue : queue[i] = Len(accepted) - Len(queue) + i)'
    BY <2>1 DEF WriteInv
  <2> QED
    BY <2>1, <2>2, <2>4, <2>6, <2>7, <2>8 DEF WriteInv
<1>22. CASE KernelReads
  BY <1>22, WriteFrame DEF KernelReads, owner, history
<1>23. CASE PeerWrites
  BY <1>23, WriteFrame DEF PeerWrites, owner, instances
<1>24. CASE PeerCloses
  BY <1>24, WriteBroken DEF PeerCloses, owner, history
<1>25. CASE UNCHANGED vars
  BY <1>25, WriteFrame DEF vars, owner, events, worker, pipe, instances, history
<1> QED
  BY <1>1, <1>2, <1>3, <1>4, <1>5, <1>6, <1>7, <1>8, <1>9, <1>10, <1>11, <1>12, <1>13,
     <1>14, <1>15, <1>16, <1>17, <1>18, <1>19, <1>20, <1>21, <1>22, <1>23, <1>24, <1>25
     DEF Next, Owner, OwnerCloses, Worker, Kernel

(***************************************************************************)
(* What is read.                                                           *)
(***************************************************************************)
LEMMA ReadFrame ==
  ASSUME ReadInv, SameData, UNCHANGED <<sent, got, read.data>>, readIO' = "done" <=> readIO = "done",
         ~read'.bReading => readIO' = "none", running' => running,
         peerUp' => peerUp /\ fromPeer' = fromPeer
  PROVE  ReadInv'
<1> SUFFICES ASSUME running' PROVE \E last \in Nat : ReadUpTo(last)'
  BY DEF ReadInv
<1>1. PICK last \in Nat : ReadUpTo(last)
  BY DEF ReadInv
<1>2. Taken' = Taken
  BY DEF Taken
<1>3. read'.data = read.data
  OBVIOUS
<1>4. DataPlaces' = DataPlaces /\ \A i \in DataPlaces : window'[i] = window[i]
  BY DEF SameData
<1>5. ReadUpTo(last)'
  BY <1>1, <1>2, <1>3, <1>4 DEF ReadUpTo
<1> QED
  BY <1>5

LEMMA ReadEmpty ==
  ASSUME sent' = 0, got' = <<>>, fromPeer' = <<>>, readIO' = "none", DataPlaces' = {}
  PROVE  ReadInv'
<1>1. Len(got') = 0 /\ DOMAIN got' = {} /\ Len(fromPeer') = 0 /\ DOMAIN fromPeer' = {} /\ Taken' = 0
  BY DEF Taken
<1>2. ReadUpTo(0)'
  BY <1>1 DEF ReadUpTo
<1> QED
  BY <1>2 DEF ReadInv

LEMMA ReadLengths ==
  ASSUME TypeOK
  PROVE  /\ Len(got) \in Nat /\ DOMAIN got = 1..Len(got)
         /\ Len(fromPeer) \in Nat /\ DOMAIN fromPeer = 1..Len(fromPeer)
         /\ Len(window) \in Nat /\ DOMAIN window = 1..Len(window) /\ DataPlaces \subseteq 1..Len(window)
         /\ sent \in Nat /\ read.data \in Nat /\ \A i \in 1..Len(window) : window[i].data \in Nat
<1>1. \A i \in 1..Len(window) : window[i].data \in Numbers
  <2>1. window \in Seq(Entries)
    BY DEF TypeOK, Entries
  <2>2. \A i \in 1..Len(window) : window[i] \in Entries
    BY <2>1, SeqFacts
  <2> QED
    BY <2>2 DEF Entries
<1>2. read.data \in Numbers /\ sent \in Numbers
  BY DEF TypeOK
<1>3. Len(window) \in Nat /\ DOMAIN window = 1..Len(window)
  BY DEF TypeOK
<1>4. DataPlaces \subseteq 1..Len(window)
  BY <1>3 DEF DataPlaces
<1>5. /\ Len(got) \in Nat /\ DOMAIN got = 1..Len(got)
      /\ Len(fromPeer) \in Nat /\ DOMAIN fromPeer = 1..Len(fromPeer)
  BY DEF TypeOK
<1>6. /\ sent \in Nat /\ read.data \in Nat /\ \A i \in 1..Len(window) : window[i].data \in Nat
  BY <1>1, <1>2, Bounds
<1> QED
  BY <1>3, <1>4, <1>5, <1>6

LEMMA ReadStep == TypeOK /\ OwnerInv /\ FreshInv /\ ReadInv /\ [Next]_vars => ReadInv'
<1> SUFFICES ASSUME TypeOK, OwnerInv, FreshInv, ReadInv, [Next]_vars PROVE ReadInv'
  OBVIOUS
<1>1. CASE Connect
  <2>1. window' = <<>>
    BY <1>1 DEF Connect, OwnerInv
  <2>2. DataPlaces' = {}
    BY <2>1 DEF DataPlaces
  <2> QED
    BY <1>1, <2>2, ReadEmpty DEF Connect, Fresh
<1>2. CASE ConnectAgain
  <2>1. SameData
    BY <1>2, SameWindow DEF ConnectAgain, instances, pipe, history
  <2> QED
    BY <1>2, <2>1, ReadFrame DEF ConnectAgain, instances, pipe, history, ReadInv
<1>3. CASE ConnectReads
  <2>1. SameData
    BY <1>3, SameWindow DEF ConnectReads, instances, pipe, history
  <2> QED
    BY <1>3, <2>1, ReadFrame DEF ConnectReads, instances, pipe, history, ReadInv
<1>4. CASE Accept
  <2>1. window = <<>> /\ window' = window \o Posted("connected", 0)
    BY <1>4 DEF Accept, OwnerInv
  <2>2. SameData
    BY <2>1, OneQuiet DEF Posts
  <2>3. DataPlaces = {}
    BY <2>1 DEF DataPlaces
  <2> QED
    BY <1>4, <2>2, <2>3, ReadEmpty DEF Accept, Fresh, SameData
<1>5. CASE Write
  <2>1. SameData
    BY <1>5, SameWindow DEF Write, owner, instances, pipe
  <2> QED
    BY <1>5, <2>1, ReadFrame DEF Write, owner, instances, pipe, ReadInv
<1>6. CASE Deliver
  <2>1. window \in Seq(Entries) /\ window # <<>>
    BY <1>6 DEF Deliver, TypeOK, Entries
  <2>2. running /\ running'
    BY <1>6, <2>1 DEF Deliver, OwnerInv
  <2>3. UNCHANGED <<sent, read, readIO, peerUp, fromPeer>>
    BY <1>6 DEF Deliver, instances, pipe
  <2>4. PICK last \in Nat : ReadUpTo(last)
    BY <2>2 DEF ReadInv
  <2>5. /\ Len(window) \in Nat \ {0} /\ DOMAIN window = 1..Len(window)
        /\ DOMAIN window' = 1..Len(window) - 1
        /\ Head(window) = window[1] /\ \A i \in 1..Len(window) - 1 : window'[i] = window[i + 1]
    BY <1>6, <2>1, TailSeq, SeqFacts DEF Deliver
  <2>6. DataPlaces' = {i \in 1..Len(window) - 1 : i + 1 \in DataPlaces}
    <3>1. \A i \in 1..Len(window) - 1 : i + 1 \in 1..Len(window)
      BY <2>5
    <3> QED
      BY <2>5, <3>1 DEF DataPlaces
  <2>7. \A j \in DataPlaces : j = 1 \/ (j - 1 \in DataPlaces' /\ j = (j - 1) + 1)
    <3>1. \A j \in 1..Len(window) : j = 1 \/ (j - 1 \in 1..Len(window) - 1 /\ j = (j - 1) + 1)
      BY <2>5
    <3> QED
      BY <2>6, <3>1, ReadLengths
  <2>8. \A i \in DataPlaces' : /\ i \in 1..Len(window) - 1 /\ i + 1 \in DataPlaces /\ window'[i] = window[i + 1]
    BY <2>5, <2>6
  <2>9. Taken' = Taken
    BY <2>3 DEF Taken
  <2>10. \A i, j \in DataPlaces' : i < j => window'[i].data < window'[j].data
    <3> SUFFICES ASSUME NEW i \in DataPlaces', NEW j \in DataPlaces', i < j
                 PROVE  window'[i].data < window'[j].data
      OBVIOUS
    <3>1. i + 1 < j + 1
      BY <2>8
    <3> QED
      BY <2>4, <2>8, <3>1 DEF ReadUpTo
  <2>11. CASE window[1].msg = "data"
    <3>1. 1 \in DataPlaces /\ 1 \in 1..Len(window)
      BY <2>5, <2>11 DEF DataPlaces
    <3>2. window[1].data = Len(got) + 1 /\ Len(got) + 1 <= last
      <4>1. window[1].data \in Len(got) + 1..last
        BY <2>4, <3>1 DEF ReadUpTo
      <4>2. Len(got) + 1 \in Len(got) + 1..last
        BY <4>1, ReadLengths
      <4>3. PICK i \in DataPlaces : window[i].data = Len(got) + 1
        BY <2>4, <4>2 DEF ReadUpTo
      <4>4. i = 1 \/ 1 < i
        BY ReadLengths
      <4>5. 1 < i => window[1].data < window[i].data
        BY <2>4, <3>1 DEF ReadUpTo
      <4> QED
        BY <4>1, <4>2, <4>3, <4>4, <4>5, ReadLengths
    <3>3. /\ Len(got') = Len(got) + 1 /\ DOMAIN got' = 1..Len(got) + 1
          /\ \A i \in 1..Len(got) : got'[i] = got[i]
          /\ got'[Len(got) + 1] = Len(got) + 1
      <4>1. got' = Append(got, window[1].data) /\ got \in Seq(Numbers) /\ window[1].data \in Numbers
        <5>1. window[1].data \in Numbers
          <6>1. window[1] \in Entries
            BY <2>1, <3>1, SeqFacts
          <6> QED
            BY <6>1 DEF Entries
        <5> QED
          BY <1>6, <2>5, <2>11, <5>1 DEF Deliver, TypeOK
      <4> QED
        BY <3>2, <4>1, AppendSeq, SeqFacts
    <3>4. \A i \in DOMAIN got' : got'[i] = i
      <4> SUFFICES ASSUME NEW i \in 1..Len(got) + 1 PROVE got'[i] = i
        BY <3>3
      <4>1. i \in 1..Len(got) \/ i = Len(got) + 1
        BY ReadLengths
      <4> QED
        BY <2>4, <3>3, <4>1, ReadLengths DEF ReadUpTo
    <3>5. \A i \in DataPlaces' : window'[i].data \in Len(got') + 1..last
      <4> SUFFICES ASSUME NEW i \in DataPlaces' PROVE window'[i].data \in Len(got') + 1..last
        OBVIOUS
      <4>1. i + 1 \in DataPlaces /\ 1 < i + 1 /\ window'[i] = window[i + 1]
        BY <2>8
      <4>2. window[i + 1].data \in Len(got) + 1..last /\ window[1].data < window[i + 1].data
        BY <2>4, <3>1, <4>1 DEF ReadUpTo
      <4> QED
        BY <3>2, <3>3, <4>1, <4>2, ReadLengths
    <3>6. \A n \in Len(got') + 1..last : \E i \in DataPlaces' : window'[i].data = n
      <4> SUFFICES ASSUME NEW n \in Len(got') + 1..last PROVE \E i \in DataPlaces' : window'[i].data = n
        OBVIOUS
      <4>1. n \in Len(got) + 1..last /\ n # Len(got) + 1
        BY <3>3, ReadLengths
      <4>2. PICK j \in DataPlaces : window[j].data = n
        BY <2>4, <4>1 DEF ReadUpTo
      <4>3. j # 1
        BY <3>2, <4>1, <4>2
      <4>4. j - 1 \in DataPlaces' /\ window'[j - 1] = window[j]
        BY <2>7, <2>8, <4>3
      <4> QED
        BY <4>2, <4>4
    <3>7. ReadUpTo(last)'
      <4>1. Len(got') <= last
        BY <3>2, <3>3
      <4> QED
        BY <2>3, <2>4, <2>9, <2>10, <3>4, <3>5, <3>6, <4>1 DEF ReadUpTo
    <3> QED
      BY <2>3, <3>7 DEF ReadInv
  <2>12. CASE window[1].msg # "data"
    <3>1. 1 \notin DataPlaces /\ got' = got
      BY <1>6, <2>5, <2>12 DEF DataPlaces, Deliver
    <3>2. \A i \in DataPlaces' : window'[i].data \in Len(got') + 1..last
      BY <2>4, <2>8, <3>1 DEF ReadUpTo
    <3>3. \A n \in Len(got') + 1..last : \E i \in DataPlaces' : window'[i].data = n
      <4> SUFFICES ASSUME NEW n \in Len(got) + 1..last PROVE \E i \in DataPlaces' : window'[i].data = n
        BY <3>1
      <4>1. PICK j \in DataPlaces : window[j].data = n
        BY <2>4 DEF ReadUpTo
      <4>2. j - 1 \in DataPlaces' /\ window'[j - 1] = window[j]
        BY <2>7, <2>8, <3>1
      <4> QED
        BY <4>1, <4>2
    <3>4. ReadUpTo(last)'
      BY <2>3, <2>4, <2>9, <2>10, <3>1, <3>2, <3>3 DEF ReadUpTo
    <3> QED
      BY <2>3, <3>4 DEF ReadInv
  <2> QED
    BY <2>11, <2>12
<1>7. CASE Close
  <2>1. SameData
    BY <1>7, SameWindow DEF Close, instances, pipe, history
  <2> QED
    BY <1>7, <2>1, ReadFrame DEF Close, instances, pipe, history, ReadInv
<1>8. CASE NothingOpen
  <2>1. SameData
    BY <1>8, SameWindow DEF NothingOpen, instances, pipe, history
  <2> QED
    BY <1>8, <2>1, ReadFrame DEF NothingOpen, instances, pipe, history, ReadInv
<1>9. CASE CloseHandle
  <2>1. SameData
    BY <1>9, SameWindow DEF CloseHandle
  <2>2. (readIO' = "done" <=> readIO = "done") /\ (readIO = "none" => readIO' = "none") /\ ~peerUp'
    BY <1>9 DEF CloseHandle, Broken
  <2> QED
    BY <1>9, <2>1, <2>2, ReadFrame DEF CloseHandle, history, ReadInv
<1>10. CASE Disconnected
  <2>1. SameData
    BY <1>10, OneQuiet DEF Disconnected, Posts
  <2>2. read'.bReading = read.bReading /\ read'.data = read.data
    BY <1>10 DEF Disconnected, TypeOK
  <2> QED
    BY <1>10, <2>1, <2>2, ReadFrame DEF Disconnected, pipe, history, ReadInv
<1>11. CASE TermQuits
  <2>1. SameData
    BY <1>11, SameWindow DEF TermQuits, instances, pipe, history
  <2> QED
    BY <1>11, <2>1, ReadFrame DEF TermQuits, instances, pipe, history, ReadInv
<1>12. CASE TermJoins
  <2>1. ~running' /\ UNCHANGED <<read, readIO>>
    BY <1>12 DEF TermJoins, instances
  <2> QED
    BY <2>1 DEF ReadInv
<1>13. CASE WakeQuit
  <2>1. SameData
    BY <1>13, SameWindow DEF WakeQuit, owner, instances, pipe, history
  <2> QED
    BY <1>13, <2>1, ReadFrame DEF WakeQuit, owner, instances, pipe, history, ReadInv
<1>14. CASE WakeConnecting
  <2>1. SameData
    BY <1>14, SameWindow DEF WakeConnecting, owner, instances, pipe, history
  <2> QED
    BY <1>14, <2>1, ReadFrame DEF WakeConnecting, owner, instances, pipe, history, ReadInv
<1>15. CASE WakeWritten
  <2>1. SameData
    BY <1>15, SameWindow DEF WakeWritten, owner, instances, pipe, history
  <2> QED
    BY <1>15, <2>1, ReadFrame DEF WakeWritten, owner, instances, pipe, history, ReadInv
<1>16. CASE WakeRead
  <2>1. SameData
    BY <1>16, SameWindow DEF WakeRead, owner, instances, pipe, history
  <2> QED
    BY <1>16, <2>1, ReadFrame DEF WakeRead, owner, instances, pipe, history, ReadInv
<1>17. CASE Completion
  <2>1. /\ UNCHANGED <<sent, got, peerUp, fromPeer, running>> /\ readIO' = Left(readIO)
        /\ read'.data = read.data /\ read'.bReading = (read.bReading /\ readIO # "done")
    BY <1>17 DEF Completion, owner, pipe, history, TypeOK
  <2>2. PICK x \in Seq(Entries) :
          /\ window' = window \o x
          /\ readIO = "done" => \E p \in 1..Len(x) :
               /\ x[p].msg = "data" /\ x[p].data = read.data
               /\ \A i \in 1..Len(x) : x[i].msg = "data" => i = p
          /\ readIO # "done" => \A i \in 1..Len(x) : x[i].msg # "data"
    BY <1>17, CompletionSeq
  <2>3. CASE readIO # "done"
    <3>1. SameData
      BY <2>2, <2>3, QuietPost
    <3>2. (readIO' = "done" <=> readIO = "done") /\ (~read'.bReading => readIO' = "none")
      BY <2>1, <2>3 DEF Left, Finished, ReadInv
    <3> QED
      BY <2>1, <3>1, <3>2, ReadFrame
  <2>4. CASE readIO = "done"
    <3>1. running
      BY <1>17 DEF Completion, Waits, OwnerInv
    <3>2. PICK last \in Nat : ReadUpTo(last)
      BY <3>1 DEF ReadInv
    <3>3. PICK q \in 1..Len(x) :
            /\ x[q].msg = "data" /\ x[q].data = read.data
            /\ \A i \in 1..Len(x) : x[i].msg = "data" => i = q
      BY <2>2, <2>4
    <3> DEFINE p == Len(window) + q
    <3>4. /\ Len(window) \in Nat /\ Len(x) \in Nat
          /\ DOMAIN window = 1..Len(window) /\ DOMAIN window' = 1..Len(window) + Len(x)
          /\ \A i \in 1..Len(window) : window'[i] = window[i]
          /\ \A i \in 1..Len(x) : window'[Len(window) + i] = x[i]
      BY <2>2, Appends
    <3>5. p \in 1..Len(window) + Len(x) /\ window'[p].msg = "data" /\ window'[p].data = last + 1
          /\ \A i \in DataPlaces : i < p /\ i \in 1..Len(window)
      <4>1. read.data = last + 1
        BY <2>4, <3>2 DEF ReadUpTo
      <4> QED
        BY <3>3, <3>4, <4>1, ReadLengths
    <3> HIDE DEF p
    <3>6. DataPlaces' = DataPlaces \cup {p}
      <4>1. ASSUME NEW i \in 1..Len(window) + Len(x), window'[i].msg = "data", i \notin 1..Len(window)
            PROVE  i = p
        <5>1. i - Len(window) \in 1..Len(x) /\ i = Len(window) + (i - Len(window))
          BY <3>4, <4>1
        <5>2. x[i - Len(window)].msg = "data"
          BY <3>4, <4>1, <5>1
        <5>3. i - Len(window) = q
          BY <3>3, <5>1, <5>2
        <5> QED
          BY <5>1, <5>3 DEF p
      <4>2. 1..Len(window) \subseteq 1..Len(window) + Len(x)
        BY <3>4
      <4>3. DataPlaces' = {i \in 1..Len(window) + Len(x) : window'[i].msg = "data"}
        BY <3>4 DEF DataPlaces
      <4>4. DataPlaces = {i \in 1..Len(window) : window[i].msg = "data"}
        BY <3>4 DEF DataPlaces
      <4> QED
        BY <3>4, <3>5, <4>1, <4>2, <4>3, <4>4
    <3>7. \A i \in DataPlaces : window'[i] = window[i]
      BY <3>4, ReadLengths
    <3>8. Taken = 1 /\ Taken' = 0 /\ readIO' = "none"
      BY <2>1, <2>4 DEF Taken, Left, Finished
    <3>9. ReadUpTo(last + 1)'
      <4>1. (/\ last + 1 + Taken <= sent
             /\ peerUp => /\ last + 1 + Taken + Len(fromPeer) = sent
                          /\ \A i \in DOMAIN fromPeer : fromPeer[i] = sent - Len(fromPeer) + i)'
        BY <2>1, <3>2, <3>8, ReadLengths DEF ReadUpTo
      <4>2. (Len(got) <= last + 1 /\ \A i \in DOMAIN got : got[i] = i)'
        BY <2>1, <3>2, ReadLengths DEF ReadUpTo
      <4>3. \A i \in DataPlaces' : window'[i].data \in Len(got') + 1..last + 1
        <5>1. CASE TRUE
          <6> SUFFICES ASSUME NEW i \in DataPlaces' PROVE window'[i].data \in Len(got') + 1..last + 1
            OBVIOUS
          <6>1. CASE i = p
            BY <2>1, <3>2, <3>5, <6>1, ReadLengths DEF ReadUpTo
          <6>2. CASE i \in DataPlaces
            <7>1. window'[i].data \in Len(got) + 1..last
              BY <3>2, <3>7, <6>2 DEF ReadUpTo
            <7> QED
              BY <2>1, <7>1, ReadLengths
          <6> QED
            BY <3>6, <6>1, <6>2
        <5> QED
          BY <5>1
      <4>4. \A i, j \in DataPlaces' : i < j => window'[i].data < window'[j].data
        <5> SUFFICES ASSUME NEW i \in DataPlaces', NEW j \in DataPlaces', i < j
                     PROVE  window'[i].data < window'[j].data
          OBVIOUS
        <5>1. i # p
          <6> SUFFICES ASSUME i = p PROVE FALSE
            OBVIOUS
          <6>1. j \in DataPlaces \/ j = p
            BY <3>6
          <6>2. p \in Nat /\ (j \in DataPlaces => j \in Nat /\ j < p)
            BY <3>4, <3>5
          <6> QED
            BY <6>1, <6>2
        <5>2. i \in DataPlaces
          BY <3>6, <5>1
        <5>3. CASE j \in DataPlaces
          BY <3>2, <3>7, <5>2, <5>3 DEF ReadUpTo
        <5>4. CASE j = p
          <6>1. window'[i].data \in Len(got) + 1..last
            BY <3>2, <3>7, <5>2 DEF ReadUpTo
          <6> QED
            BY <3>5, <5>4, <6>1, ReadLengths
        <5> QED
          BY <3>6, <5>3, <5>4
      <4>5. \A n \in Len(got') + 1..last + 1 : \E i \in DataPlaces' : window'[i].data = n
        <5> SUFFICES ASSUME NEW n \in Len(got) + 1..last + 1 PROVE \E i \in DataPlaces' : window'[i].data = n
          BY <2>1
        <5>1. n \in Len(got) + 1..last \/ n = last + 1
          BY ReadLengths
        <5>2. CASE n = last + 1
          BY <3>5, <3>6, <5>2
        <5>3. CASE n \in Len(got) + 1..last
          <6>1. PICK i \in DataPlaces : window[i].data = n
            BY <3>2, <5>3 DEF ReadUpTo
          <6> QED
            BY <3>6, <3>7, <6>1
        <5> QED
          BY <5>1, <5>2, <5>3
      <4> QED
        BY <3>8, <4>1, <4>2, <4>3, <4>4, <4>5 DEF ReadUpTo
    <3>10. last + 1 \in Nat
      OBVIOUS
    <3> QED
      BY <3>8, <3>9, <3>10 DEF ReadInv
  <2> QED
    BY <2>3, <2>4
<1>18. CASE Connects
  <2>1. NotYet
    BY <1>18 DEF Connects, OwnerInv, NotYet
  <2>2. SameData
    BY <1>18, OneQuiet DEF Connects, Posts
  <2>3. UNCHANGED <<fromPeer, sent, got, readIO>>
    BY <1>18 DEF Connects, history
  <2> QED
    BY <2>1, <2>2, <2>3, ReadEmpty DEF FreshInv, SameData
<1>19. CASE DoWrite
  <2>1. SameData
    BY <1>19, SameWindow, ErrorQuiet DEF DoWrite
  <2> QED
    BY <1>19, <2>1, ReadFrame DEF DoWrite, owner, pipe, history, ReadInv
<1>20. CASE DoRead
  <2>1. SameData
    BY <1>20, SameWindow, ErrorQuiet DEF DoRead
  <2>2. UNCHANGED <<sent, got, running, peerUp, fromPeer>>
    BY <1>20 DEF DoRead, owner, pipe, history
  <2>3. CASE MayRead(read)
    <3>1. readIO = "none" /\ readIO' \in {"none", "pending"} /\ read'.bReading /\ read'.data = read.data
      BY <1>20, <2>3 DEF DoRead, MayRead, ReadInv, TypeOK
    <3> QED
      BY <2>1, <2>2, <3>1, ReadFrame
  <2>4. CASE ~MayRead(read)
    <3>1. UNCHANGED <<read, readIO>>
      BY <1>20, <2>4 DEF DoRead
    <3> QED
      BY <2>1, <2>2, <3>1, ReadFrame DEF ReadInv
  <2> QED
    BY <2>3, <2>4
<1>21. CASE KernelWrites
  <2>1. SameData
    BY <1>21, SameWindow DEF KernelWrites, owner, history
  <2> QED
    BY <1>21, <2>1, ReadFrame DEF KernelWrites, owner, history, ReadInv
<1>22. CASE KernelReads
  <2>1. UNCHANGED <<running, window, sent, got, peerUp>> /\ peerUp
    BY <1>22 DEF KernelReads, owner, history
  <2>2. readIO = "pending" /\ readIO' = "done" /\ read.bReading
    BY <1>22 DEF KernelReads, ReadInv
  <2>3. read'.bReading /\ read'.data = Head(fromPeer)
    BY <1>22, <2>2 DEF KernelReads, TypeOK
  <2>4. CASE ~running
    BY <2>1, <2>3, <2>4 DEF ReadInv
  <2>5. CASE running
    <3>1. PICK last \in Nat : ReadUpTo(last)
      BY <2>5 DEF ReadInv
    <3>2. /\ Len(fromPeer) \in Nat \ {0} /\ Len(fromPeer') = Len(fromPeer) - 1
          /\ DOMAIN fromPeer' = 1..Len(fromPeer) - 1 /\ Head(fromPeer) = fromPeer[1]
          /\ \A i \in 1..Len(fromPeer) - 1 : fromPeer'[i] = fromPeer[i + 1]
      <4>1. fromPeer \in Seq(Numbers) /\ fromPeer # <<>> /\ fromPeer' = Tail(fromPeer)
        BY <1>22 DEF KernelReads, TypeOK
      <4> QED
        BY <4>1, TailSeq, SeqFacts
    <3>3. Taken = 0 /\ Taken' = 1
      BY <2>2 DEF Taken
    <3>4. last + Len(fromPeer) = sent /\ \A i \in 1..Len(fromPeer) : fromPeer[i] = sent - Len(fromPeer) + i
      <4>1. /\ last + Taken + Len(fromPeer) = sent
            /\ \A i \in DOMAIN fromPeer : fromPeer[i] = sent - Len(fromPeer) + i
        BY <2>1, <3>1 DEF ReadUpTo
      <4> QED
        BY <3>3, <4>1, ReadLengths
    <3>5. read'.data = last + 1
      <4>1. 1 \in 1..Len(fromPeer)
        BY <3>2
      <4> QED
        BY <2>3, <3>2, <3>4, <4>1, ReadLengths
    <3>6. \A i \in DOMAIN fromPeer' : fromPeer'[i] = sent' - Len(fromPeer') + i
      <4> SUFFICES ASSUME NEW i \in 1..Len(fromPeer) - 1 PROVE fromPeer'[i] = sent - (Len(fromPeer) - 1) + i
        BY <2>1, <3>2
      <4>1. i + 1 \in 1..Len(fromPeer)
        BY <3>2
      <4>2. fromPeer'[i] = sent - Len(fromPeer) + (i + 1)
        BY <3>2, <3>4, <4>1
      <4> QED
        BY <3>2, <4>2, ReadLengths
    <3>7. DataPlaces' = DataPlaces
      BY <2>1 DEF DataPlaces
    <3>8. last + 1 <= sent /\ last + 1 + (Len(fromPeer) - 1) = sent
      BY <3>2, <3>4, ReadLengths
    <3>9. ReadUpTo(last)'
      BY <2>1, <3>1, <3>2, <3>3, <3>5, <3>6, <3>7, <3>8 DEF ReadUpTo
    <3> QED
      BY <2>3, <3>9 DEF ReadInv
  <2> QED
    BY <2>4, <2>5
<1>23. CASE PeerWrites
  <2>1. UNCHANGED <<running, window, got, peerUp, read, readIO>> /\ peerUp
    BY <1>23 DEF PeerWrites, owner, instances
  <2>2. CASE ~running
    BY <2>1, <2>2 DEF ReadInv
  <2>3. CASE running
    <3>1. PICK last \in Nat : ReadUpTo(last)
      BY <2>3 DEF ReadInv
    <3>2. sent' = sent + 1 /\ sent' \in Numbers
      BY <1>23, Bounds DEF PeerWrites, TypeOK
    <3>3. /\ Len(fromPeer') = Len(fromPeer) + 1 /\ DOMAIN fromPeer' = 1..Len(fromPeer) + 1
          /\ \A i \in 1..Len(fromPeer) : fromPeer'[i] = fromPeer[i]
          /\ fromPeer'[Len(fromPeer) + 1] = sent + 1
      <4>1. fromPeer \in Seq(Numbers) /\ fromPeer' = Append(fromPeer, sent')
        BY <1>23 DEF PeerWrites, TypeOK
      <4> QED
        BY <3>2, <4>1, AppendSeq, SeqFacts
    <3>4. Taken' = Taken /\ Taken \in 0..1
      BY <2>1 DEF Taken
    <3>5. /\ last + Taken + Len(fromPeer) = sent
          /\ \A i \in 1..Len(fromPeer) : fromPeer[i] = sent - Len(fromPeer) + i
      BY <2>1, <3>1, ReadLengths DEF ReadUpTo
    <3>6. \A i \in DOMAIN fromPeer' : fromPeer'[i] = sent' - Len(fromPeer') + i
      <4> SUFFICES ASSUME NEW i \in 1..Len(fromPeer) + 1
                   PROVE  fromPeer'[i] = sent - Len(fromPeer) + i
        <5>1. sent' - Len(fromPeer') = sent - Len(fromPeer)
          BY <3>2, <3>3, ReadLengths
        <5> QED
          BY <3>3, <5>1
      <4>1. CASE i \in 1..Len(fromPeer)
        BY <3>3, <3>5, <4>1, ReadLengths
      <4>2. CASE i = Len(fromPeer) + 1
        BY <3>3, <4>2, ReadLengths
      <4> QED
        BY <4>1, <4>2, ReadLengths
    <3>7. DataPlaces' = DataPlaces
      BY <2>1 DEF DataPlaces
    <3>8. last + Taken <= sent' /\ last + Taken + Len(fromPeer') = sent'
      BY <3>2, <3>3, <3>4, <3>5, ReadLengths
    <3>9. ReadUpTo(last)'
      BY <2>1, <3>1, <3>4, <3>6, <3>7, <3>8 DEF ReadUpTo
    <3> QED
      BY <2>1, <3>9 DEF ReadInv
  <2> QED
    BY <2>2, <2>3
<1>24. CASE PeerCloses
  <2>1. SameData
    BY <1>24, SameWindow DEF PeerCloses
  <2>2. (readIO' = "done" <=> readIO = "done") /\ (readIO = "none" => readIO' = "none") /\ ~peerUp'
    BY <1>24 DEF PeerCloses, Broken
  <2> QED
    BY <1>24, <2>1, <2>2, ReadFrame DEF PeerCloses, owner, history, ReadInv
<1>25. CASE UNCHANGED vars
  <2>1. SameData
    BY <1>25, SameWindow DEF vars
  <2> QED
    BY <1>25, <2>1, ReadFrame DEF vars, owner, pipe, instances, history, ReadInv
<1> QED
  BY <1>1, <1>2, <1>3, <1>4, <1>5, <1>6, <1>7, <1>8, <1>9, <1>10, <1>11, <1>12, <1>13,
     <1>14, <1>15, <1>16, <1>17, <1>18, <1>19, <1>20, <1>21, <1>22, <1>23, <1>24, <1>25
     DEF Next, Owner, OwnerCloses, Worker, Kernel

(***************************************************************************)
(* What the owner hears.                                                   *)
(***************************************************************************)
Listening == running /\ main \in {"idle", "connecting"}

LEMMA HeardFrame ==
  ASSUME HeardInv, UNCHANGED <<window, heard, m_state>>, NotYet' <=> NotYet, Listening' => Listening
  PROVE  HeardInv'
BY DEF HeardInv, Listening, Is, InTime, Began

LEMMA HeardDeaf ==
  ASSUME HeardInv, heard' = heard, ~Listening'
  PROVE  HeardInv'
BY DEF HeardInv, Listening

\* The first message of a connection.
LEMMA HeardFirst ==
  ASSUME TypeOK, window = <<>>, heard' = <<>>, ~NotYet', NEW m \in {"connected", "error"},
         window' = window \o Posted(m, 0),
         m_state' = IF m = "connected" THEN "connected" ELSE "unconnected"
  PROVE  HeardInv'
<1>1. Posted(m, 0) \in Seq(Entries) /\ Len(Posted(m, 0)) = 1 /\ Posted(m, 0)[1].msg = m
  BY PostedSeq, Bounds DEF Posts
<1>2. Len(window) = 0 /\ 1 \in 1..1
  OBVIOUS
<1>3. Len(window') = 1 /\ DOMAIN window' = 1..1 /\ window'[1].msg = m
  BY <1>1, <1>2, Appends
<1>4. \A i \in DOMAIN window' : i = 1 /\ window'[i].msg = m
  BY <1>3
<1>5. 1 \in DOMAIN window' /\ \A j \in 1..1 - 1 : FALSE
  BY <1>3
<1>6. Is(1, m)' /\ \A i, c : Is(i, c)' => i = 1 /\ c = m
  BY <1>3, <1>4, <1>5 DEF Is
<1>7. m = "connected" => Began(Len(window) + 1)'
  BY <1>3, <1>6 DEF Began
<1> QED
  BY <1>3, <1>4, <1>5, <1>6, <1>7 DEF HeardInv

\* More news behind what is posted already: of data while connected, of the
\* end, or anything once an error is posted.
LEMMA HeardPost ==
  ASSUME TypeOK, HeardInv, NEW x \in Seq(Entries), window' = window \o x, heard' = heard,
         Listening' => Listening, ~NotYet, ~NotYet',
         m_state' = IF \A i \in 1..Len(x) : x[i].msg = "data" THEN m_state ELSE "unconnected",
         m_state # "unconnected" =>
           \/ \A i \in 1..Len(x) : x[i].msg = "data"
           \/ \E p \in 1..Len(x) :
                /\ p + 1 \in 1..Len(x) /\ x[p].msg = "disconnected" /\ x[p + 1].msg = "error"
                /\ \A i \in 1..p - 1 : x[i].msg = "data"
  PROVE  HeardInv'
<1>3. PICK n \in Nat : n = Len(window)
  BY Appends
<1>1. CASE ~Listening'
  BY <1>1, HeardDeaf
<1>2. CASE Listening'
  <2>1. Listening
    BY <1>2
  <2>2. m_state \in {"unconnected", "connected"}
    BY <2>1 DEF HeardInv, Listening, TypeOK
  <2>3. /\ n \in Nat /\ Len(x) \in Nat
        /\ DOMAIN window = 1..n /\ DOMAIN window' = 1..n + Len(x)
        /\ \A i \in 1..n : window'[i] = window[i]
        /\ \A k \in 1..Len(x) : window'[n + k] = x[k]
    BY <1>3, Appends
  <2>4. \A i \in 1..n : \A c : Is(i, c)' <=> Is(i, c)
    <3>1. 1..n \subseteq 1..n + Len(x)
      BY <2>3
    <3> QED
      BY <2>3, <3>1 DEF Is
  <2>5. \A i, c : Is(i, c) => i \in 1..n
    BY <2>3 DEF Is
  <2>6. \A i, c : Is(i, c) => Is(i, c)'
    BY <2>4, <2>5
  <2>7. \A k \in 1..Len(x) : n + k \in DOMAIN window' /\ \A c : Is(n + k, c)' <=> x[k].msg = c
    BY <2>3, SMTT(30) DEF Is
  <2>8. \A i \in DOMAIN window' : i \in 1..n \/ (i - n \in 1..Len(x) /\ i = n + (i - n))
    BY <2>3
  <2>9. \A i \in 1..n : InTime(i)' => InTime(i)
    <3>1. \A i \in 1..n : \A j \in 1..i - 1 : j \in 1..n
      BY <2>3
    <3> QED
      BY <2>4, <3>1 DEF InTime
  <2>10. \A i : Began(i) => Began(i)'
    BY <2>6 DEF Began
  <2>11. heard' = <<"connected", "disconnected">> => Is(1, "error")'
    BY <2>1, <2>6 DEF HeardInv, Listening
  <2>12. heard' \in {<<>>, <<"connected">>, <<"connected", "disconnected">>}
    BY DEF HeardInv
  <2>13. ASSUME NEW i \in 1..n, InTime(i)'
         PROVE  /\ Is(i, "connected")' => i = 1 /\ heard' = <<>>
                /\ Is(i, "data")' => Began(i)' /\ \A j \in 1..i - 1 : ~Is(j, "disconnected")'
                /\ Is(i, "disconnected")' => Began(i)' /\ Is(i + 1, "error")'
    <3>1. InTime(i) /\ i \in DOMAIN window
      BY <2>3, <2>9, <2>13
    <3>2. /\ Is(i, "connected") => i = 1 /\ heard = <<>>
          /\ Is(i, "data") => Began(i) /\ \A j \in 1..i - 1 : ~Is(j, "disconnected")
          /\ Is(i, "disconnected") => Began(i) /\ Is(i + 1, "error")
      BY <2>1, <3>1 DEF HeardInv, Listening
    <3>3. \A j \in 1..i - 1 : j \in 1..n
      BY <2>3
    <3>4. \A c : Is(i, c)' <=> Is(i, c)
      BY <2>4
    <3>5. \A j \in 1..i - 1 : Is(j, "disconnected")' <=> Is(j, "disconnected")
      BY <2>4, <3>3
    <3>6. (Began(i) => Began(i)') /\ (Is(i + 1, "error") => Is(i + 1, "error")')
      BY <2>6, <2>10
    <3> QED
      BY <3>2, <3>4, <3>5, <3>6
  <2>14. CASE m_state = "unconnected"
    <3>1. PICK e \in DOMAIN window : Is(e, "error")
      BY <2>1, <2>14 DEF HeardInv, Listening
    <3>2. Is(e, "error")' /\ e \in 1..n /\ e \in DOMAIN window'
      BY <2>3, <2>6, <3>1
    <3>3. ASSUME NEW i \in DOMAIN window', InTime(i)' PROVE i \in 1..n
      <4>1. ~(e \in 1..i - 1)
        BY <3>2, <3>3 DEF InTime
      <4> QED
        BY <2>3, <3>2, <4>1
    <3>4. m_state' = "unconnected"
      BY <2>14
    <3> QED
      BY <2>11, <2>12, <2>13, <3>2, <3>3, <3>4 DEF HeardInv
  <2>15. CASE m_state = "connected"
    <3>1. (\A i \in 1..n : window[i].msg \in {"connected", "data"}) /\ Began(n + 1)
      BY <1>3, <2>1, <2>3, <2>15 DEF HeardInv, Listening
    <3>2. \A i \in 1..n : ~Is(i, "disconnected")' /\ ~Is(i, "error")'
      BY <2>4, <3>1 DEF Is
    <3>3. \A k \in Nat : k >= n + 1 => Began(k)'
      BY <2>3, <2>6, <3>1 DEF Began
    <3>4. CASE \A i \in 1..Len(x) : x[i].msg = "data"
      <4>1. m_state' = "connected"
        BY <2>15, <3>4
      <4>2. ASSUME NEW i \in DOMAIN window' PROVE window'[i].msg \in {"connected", "data"}
        BY <2>3, <2>8, <3>1, <3>4
      <4>3. \A i : ~Is(i, "disconnected")'
        BY <4>2 DEF Is
      <4>4. ASSUME NEW i \in DOMAIN window', i \notin 1..n PROVE Is(i, "data")' /\ Began(i)'
        <5>1. i \in Nat /\ i >= n + 1
          BY <2>3, <4>4
        <5> QED
          BY <2>7, <2>8, <3>3, <3>4, <4>4, <5>1
      <4>5. Began(Len(window) + 1)'
        <5>1. Len(window') = n + Len(x)
          BY <1>3, Appends
        <5>2. Len(window') + 1 \in Nat /\ Len(window') + 1 >= n + 1
          BY <2>3, <5>1
        <5> QED
          BY <3>3, <5>2
      <4>6. ASSUME NEW i \in DOMAIN window', InTime(i)'
            PROVE  /\ Is(i, "connected")' => i = 1 /\ heard' = <<>>
                   /\ Is(i, "data")' => Began(i)' /\ \A j \in 1..i - 1 : ~Is(j, "disconnected")'
                   /\ Is(i, "disconnected")' => Began(i)' /\ Is(i + 1, "error")'
        <5>1. CASE i \in 1..n
          BY <2>13, <4>6, <5>1
        <5>2. CASE i \notin 1..n
          <6>1. ~Is(i, "connected")'
            BY <4>4, <5>2 DEF Is
          <6> QED
            BY <4>3, <4>4, <5>2, <6>1
        <5> QED
          BY <5>1, <5>2
      <4> QED
        BY <2>11, <2>12, <4>1, <4>2, <4>5, <4>6 DEF HeardInv
    <3>5. CASE ~\A i \in 1..Len(x) : x[i].msg = "data"
      <4>1. m_state' = "unconnected"
        BY <3>5
      <4>2. PICK p \in 1..Len(x) :
              /\ p + 1 \in 1..Len(x) /\ x[p].msg = "disconnected" /\ x[p + 1].msg = "error"
              /\ \A i \in 1..p - 1 : x[i].msg = "data"
        BY <2>15, <3>5
      <4>3. Is(n + p, "disconnected")' /\ Is(n + p + 1, "error")' /\ n + p + 1 \in DOMAIN window'
        <5>1. n + p + 1 = n + (p + 1)
          BY <2>3
        <5> QED
          BY <2>7, <4>2, <5>1
      <4>4. \A k \in 1..p - 1 : Is(n + k, "data")' /\ ~Is(n + k, "disconnected")'
        <5>1. \A k \in 1..p - 1 : k \in 1..Len(x)
          BY <2>3
        <5> QED
          BY <2>7, <4>2, <5>1
      <4>5. ASSUME NEW i \in DOMAIN window', InTime(i)', i \notin 1..n, i # n + p
            PROVE  (i - n \in 1..p - 1 /\ i = n + (i - n)) \/ i = n + p + 1
        <5>1. ~(n + p + 1 \in 1..i - 1)
          BY <4>3, <4>5 DEF InTime
        <5>2. p \in 1..Len(x) /\ i \in 1..n + Len(x)
          BY <2>3, <4>2
        <5>3. n \in Nat /\ Len(x) \in Nat /\ p \in Nat /\ i \in Nat /\ i >= 1
          BY <2>3, <5>2, SMTT(30)
        <5>4. i > n /\ i # n + p /\ i <= n + p + 1
          BY <4>5, <5>1, <5>3, SMTT(30)
        <5>5. i = n + p + 1 \/ (i - n >= 1 /\ i - n <= p - 1)
          BY ONLY <5>3, <5>4
        <5>6. i - n \in Int /\ p - 1 \in Int /\ i = n + (i - n)
          BY ONLY <5>3
        <5> QED
          BY ONLY <5>5, <5>6
      <4>6. ASSUME NEW i \in DOMAIN window', InTime(i)'
            PROVE  /\ Is(i, "connected")' => i = 1 /\ heard' = <<>>
                   /\ Is(i, "data")' => Began(i)' /\ \A j \in 1..i - 1 : ~Is(j, "disconnected")'
                   /\ Is(i, "disconnected")' => Began(i)' /\ Is(i + 1, "error")'
        <5>1. CASE i \in 1..n
          BY <2>13, <4>6, <5>1
        <5>2. CASE i = n + p
          <6>1. i \in Nat /\ i >= n + 1
            BY <2>3, <5>2
          <6>2. Is(i, "disconnected")' /\ Is(i + 1, "error")' /\ Began(i)'
            BY <3>3, <4>3, <5>2, <6>1
          <6>3. ~Is(i, "connected")' /\ ~Is(i, "data")'
            BY <6>2 DEF Is
          <6> QED
            BY <6>2, <6>3
        <5>3. CASE i = n + p + 1
          <6>1. Is(i, "error")'
            BY <4>3, <5>3
          <6> QED
            BY <6>1 DEF Is
        <5>4. CASE i - n \in 1..p - 1 /\ i = n + (i - n)
          <6>1. i \in Nat /\ i >= n + 1
            <7>1. p \in 1..Len(x) /\ i \in 1..n + Len(x)
              BY <2>3, <4>2
            <7>2. n \in Nat /\ i \in Nat /\ p \in Nat
              BY <2>3, <7>1
            <7> QED
              BY <5>4, <7>2
          <6>2. Is(i, "data")' /\ Began(i)'
            BY <3>3, <4>4, <5>4, <6>1
          <6>3. ~Is(i, "connected")' /\ ~Is(i, "disconnected")'
            BY <6>2 DEF Is
          <6>4. ASSUME NEW j \in 1..i - 1 PROVE ~Is(j, "disconnected")'
            <7>1. j \in 1..n \/ (j - n \in 1..p - 1 /\ j = n + (j - n))
              BY <2>3, <5>4
            <7> QED
              BY <3>2, <4>4, <7>1
          <6> QED
            BY <6>2, <6>3, <6>4
        <5> QED
          BY <4>5, <4>6, <5>1, <5>2, <5>3, <5>4
      <4> QED
        BY <2>11, <2>12, <4>1, <4>3, <4>6 DEF HeardInv
    <3> QED
      BY <3>4, <3>5
  <2> QED
    BY <2>2, <2>14, <2>15
<1> QED
  BY <1>1, <1>2

LEMMA HeardDeliver ==
  ASSUME TypeOK, OwnerInv, HeardInv, Deliver
  PROVE  HeardInv'
<1>1. window \in Seq(Entries) /\ window # <<>> /\ main = "idle"
  BY DEF Deliver, Idle, TypeOK, Entries
<1>2. running /\ Listening
  BY <1>1 DEF OwnerInv, Listening
<1>3. UNCHANGED <<m_state, running, connecting, todo>> /\ (NotYet' <=> NotYet)
  BY DEF Deliver, NotYet, events, worker
<1>4. PICK n \in Nat : n = Len(window)
  BY <1>1
<1>5. /\ n \in Nat \ {0} /\ DOMAIN window = 1..n /\ DOMAIN window' = 1..n - 1
      /\ Head(window) = window[1] /\ \A i \in 1..n - 1 : window'[i] = window[i + 1]
  BY <1>1, <1>4, TailSeq, SeqFacts DEF Deliver
<1>6. window[1] \in Entries
  BY <1>1, <1>5, TailSeq
<1>7. window[1].msg \in Posts
  BY <1>6 DEF Entries
<1>8. \A i \in Nat \ {0} : \A c : Is(i, c)' <=> Is(i + 1, c)
  <2>1. \A i \in Nat \ {0} : i \in 1..n - 1 <=> i + 1 \in 1..n
    BY <1>5
  <2> QED
    BY <1>5, <2>1 DEF Is
<1>9. Is(1, window[1].msg) /\ 1 \in DOMAIN window /\ \A c : Is(1, c) => c = window[1].msg
  BY <1>5 DEF Is
<1>10. InTime(1)
  BY DEF InTime
<1>11. /\ Is(1, "connected") => heard = <<>>
       /\ Is(1, "data") => Began(1)
       /\ Is(1, "disconnected") => Began(1) /\ Is(2, "error")
       /\ m_state # "closing" /\ (NotYet <=> m_state = "connecting") /\ ~NotYet
       /\ heard = <<"connected", "disconnected">> => Is(1, "error")
       /\ m_state = "unconnected" => \E i \in DOMAIN window : Is(i, "error")
       /\ m_state = "connected" => \A i \in DOMAIN window : window[i].msg \in {"connected", "data"}
  <2>1. 1 + 1 = 2
    OBVIOUS
  <2> QED
    BY <1>1, <1>2, <1>9, <1>10, <2>1 DEF HeardInv, Listening
<1>12. Began(1) => heard = <<"connected">>
  BY DEF Began
<1>13. CASE window[1].msg = "error"
  <2>1. ~Listening' /\ heard' = heard
    BY <1>5, <1>13 DEF Deliver, Listening
  <2> QED
    BY <2>1, HeardDeaf
<1>14. CASE window[1].msg \in {"connected", "data"}
  <2>1. heard' = <<"connected">>
    <3>1. CASE window[1].msg = "connected"
      <4>1. heard = <<>>
        BY <1>9, <1>11, <3>1
      <4>2. heard' = Append(heard, "connected")
        BY <1>5, <3>1 DEF Deliver
      <4> QED
        BY <4>1, <4>2
    <3>2. CASE window[1].msg = "data"
      BY <1>5, <1>9, <1>11, <1>12, <3>2 DEF Deliver
    <3> QED
      BY <1>14, <3>1, <3>2
  <2>2. \A i : Began(i)'
    BY <2>1 DEF Began
  <2>3. ~Is(1, "error") /\ ~Is(1, "disconnected")
    BY <1>9, <1>14
  <2>4. ASSUME NEW i \in DOMAIN window', InTime(i)'
        PROVE  /\ ~Is(i, "connected")'
               /\ Is(i, "data")' => \A j \in 1..i - 1 : ~Is(j, "disconnected")'
               /\ Is(i, "disconnected")' => Is(i + 1, "error")'
    <3>1. i \in Nat \ {0} /\ i + 1 \in DOMAIN window /\ i + 1 # 1
      BY <1>5
    <3>2. InTime(i + 1)
      <4> SUFFICES ASSUME NEW j \in 1..(i + 1) - 1 PROVE ~Is(j, "error")
        BY DEF InTime
      <4>1. CASE j = 1
        BY <2>3, <4>1
      <4>2. CASE j # 1
        <5>1. j - 1 \in 1..i - 1 /\ j - 1 \in Nat \ {0} /\ j = (j - 1) + 1
          BY <3>1, <4>2
        <5>2. ~Is(j - 1, "error")'
          BY <2>4, <5>1 DEF InTime
        <5> QED
          BY <1>8, <5>1, <5>2
      <4> QED
        BY <4>1, <4>2
    <3>3. /\ Is(i + 1, "connected") => i + 1 = 1
          /\ Is(i + 1, "data") => \A j \in 1..(i + 1) - 1 : ~Is(j, "disconnected")
          /\ Is(i + 1, "disconnected") => Is((i + 1) + 1, "error")
      BY <1>1, <1>2, <3>1, <3>2 DEF HeardInv, Listening
    <3>4. \A c : Is(i, c)' <=> Is(i + 1, c)
      BY <1>8, <3>1
    <3>5. Is(i + 1, "error")' <=> Is((i + 1) + 1, "error")
      BY <1>8, <3>1
    <3>6. \A j \in 1..i - 1 : (Is(j, "disconnected")' <=> Is(j + 1, "disconnected")) /\ j + 1 \in 1..(i + 1) - 1
      BY <1>8, <3>1
    <3> QED
      BY <3>1, <3>3, <3>4, <3>5, <3>6
  <2>5. m_state' = "connected" => \A i \in DOMAIN window' : window'[i].msg \in {"connected", "data"}
    <3>1. \A i \in 1..n - 1 : i + 1 \in 1..n
      BY <1>5
    <3> QED
      BY <1>3, <1>5, <1>11, <3>1
  <2>6. m_state' = "unconnected" => \E i \in DOMAIN window' : Is(i, "error")'
    <3> SUFFICES ASSUME m_state' = "unconnected" PROVE \E i \in DOMAIN window' : Is(i, "error")'
      OBVIOUS
    <3>1. PICK e \in DOMAIN window : Is(e, "error")
      BY <1>3, <1>11
    <3>2. e # 1
      BY <2>3, <3>1
    <3>3. e - 1 \in DOMAIN window' /\ e - 1 \in Nat \ {0} /\ (e - 1) + 1 = e
      BY <1>5, <3>2
    <3> QED
      BY <1>8, <3>1, <3>3
  <2>7. heard' # <<"connected", "disconnected">>
    BY <2>1
  <2> QED
    BY <1>3, <1>11, <2>1, <2>2, <2>4, <2>5, <2>6, <2>7 DEF HeardInv
<1>15. CASE window[1].msg = "disconnected"
  <2>1. heard = <<"connected">> /\ Is(2, "error")
    BY <1>9, <1>11, <1>12, <1>15
  <2>2. heard' = <<"connected", "disconnected">>
    <3>1. heard' = Append(heard, "disconnected")
      BY <1>5, <1>15 DEF Deliver
    <3>2. <<"connected">> \in Seq({"connected", "disconnected"})
      OBVIOUS
    <3>3. /\ heard' \in Seq({"connected", "disconnected"}) /\ Len(heard') = 2
          /\ heard'[1] = "connected" /\ heard'[2] = "disconnected"
      BY <2>1, <3>1, <3>2
    <3> QED
      BY <3>3
  <2>3. Is(1, "error")' /\ 1 \in DOMAIN window'
    <3>1. 1 + 1 = 2 /\ 1 \in Nat \ {0}
      OBVIOUS
    <3>2. Is(1, "error")'
      BY <1>8, <2>1, <3>1
    <3> QED
      BY <3>2 DEF Is
  <2>4. ASSUME NEW i \in DOMAIN window', InTime(i)' PROVE i = 1
    <3>1. ~(1 \in 1..i - 1)
      BY <2>3, <2>4 DEF InTime
    <3> QED
      BY <1>5, <3>1
  <2>5. ~Is(1, "connected")' /\ ~Is(1, "data")' /\ ~Is(1, "disconnected")'
    BY <2>3 DEF Is
  <2>6. m_state' # "connected"
    BY <1>3, <1>9, <1>11, <1>15
  <2> QED
    BY <1>3, <1>11, <2>2, <2>3, <2>4, <2>5, <2>6 DEF HeardInv
<1> QED
  BY <1>7, <1>13, <1>14, <1>15 DEF Posts

\* setError.
LEMMA HeardError ==
  ASSUME TypeOK, HeardInv, SetError, heard' = heard, Listening' => Listening, ~NotYet, ~NotYet'
  PROVE  HeardInv'
<1>1. PICK x \in Seq(Entries) :
        /\ window' = window \o x
        /\ m_state # "unconnected" => Len(x) = 2 /\ x[1].msg = "disconnected" /\ x[2].msg = "error"
        /\ m_state = "unconnected" => Len(x) = 1 /\ x[1].msg = "error"
  BY ErrorSeq
<1>2. ~\A i \in 1..Len(x) : x[i].msg = "data"
  <2>1. 1 \in 1..Len(x) /\ x[1].msg # "data"
    BY <1>1
  <2> QED
    BY <2>1
<1>3. m_state' = "unconnected"
  BY DEF SetError
<1>4. m_state # "unconnected" => \E p \in 1..Len(x) :
        /\ p + 1 \in 1..Len(x) /\ x[p].msg = "disconnected" /\ x[p + 1].msg = "error"
        /\ \A i \in 1..p - 1 : x[i].msg = "data"
  <2> HAVE m_state # "unconnected"
  <2>1. Len(x) = 2 /\ x[1].msg = "disconnected" /\ x[2].msg = "error"
    BY <1>1
  <2>2. 1 \in 1..2 /\ 1 + 1 \in 1..2 /\ 1 + 1 = 2 /\ \A i \in 1..1 - 1 : FALSE
    OBVIOUS
  <2> QED
    BY <2>1, <2>2
<1> QED
  BY <1>1, <1>2, <1>3, <1>4, HeardPost

LEMMA HeardStep == TypeOK /\ OwnerInv /\ FreshInv /\ HeardInv /\ [Next]_vars => HeardInv'
<1> SUFFICES ASSUME TypeOK, OwnerInv, FreshInv, HeardInv, [Next]_vars PROVE HeardInv'
  OBVIOUS
<1>1. CASE Connect
  <2>1. window' = <<>>
    BY <1>1 DEF Connect, OwnerInv
  <2>2. DOMAIN window' = {} /\ \A i, c : ~Is(i, c)'
    BY <2>1 DEF Is
  <2>3. heard' = <<>> /\ m_state' = "connecting" /\ NotYet'
    BY <1>1 DEF Connect, Fresh, NotYet
  <2> QED
    BY <2>1, <2>2, <2>3 DEF HeardInv
<1>2. CASE ConnectAgain
  <2>1. ~Listening' /\ heard' = heard
    BY <1>2 DEF ConnectAgain, Listening, history
  <2> QED
    BY <2>1, HeardDeaf
<1>3. CASE ConnectReads
  <2>1. NotYet' <=> NotYet
    BY <1>3 DEF NotYet, ConnectReads, worker, history
  <2> QED
    BY <1>3, <2>1, HeardFrame DEF Listening, ConnectReads, worker, history
<1>4. CASE Accept
  <2>1. window = <<>>
    BY <1>4 DEF Accept, OwnerInv
  <2>2. ~NotYet'
    BY <1>4 DEF Accept, Fresh, NotYet
  <2> QED
    BY <1>4, <2>1, <2>2, HeardFirst DEF Accept, Fresh
<1>5. CASE Write
  <2>1. NotYet' <=> NotYet
    BY <1>5 DEF NotYet, Write, owner, worker
  <2> QED
    BY <1>5, <2>1, HeardFrame DEF Listening, Write, owner, worker
<1>6. CASE Deliver
  BY <1>6, HeardDeliver
<1>7. CASE Close
  <2>1. ~Listening' /\ heard' = heard
    BY <1>7 DEF Close, Listening, history
  <2> QED
    BY <2>1, HeardDeaf
<1>8. CASE NothingOpen
  <2>1. ~Listening' /\ heard' = heard
    BY <1>8 DEF NothingOpen, Listening, history
  <2> QED
    BY <2>1, HeardDeaf
<1>9. CASE CloseHandle
  <2>1. ~Listening' /\ heard' = heard
    BY <1>9 DEF CloseHandle, Listening, history
  <2> QED
    BY <2>1, HeardDeaf
<1>10. CASE Disconnected
  <2>1. ~Listening' /\ heard' = heard
    BY <1>10 DEF Disconnected, Listening, history
  <2> QED
    BY <2>1, HeardDeaf
<1>11. CASE TermQuits
  <2>1. ~Listening' /\ heard' = heard
    BY <1>11 DEF TermQuits, Listening, history
  <2> QED
    BY <2>1, HeardDeaf
<1>12. CASE TermJoins
  <2>1. ~Listening' /\ heard' = heard
    BY <1>12 DEF TermJoins, Listening, history
  <2> QED
    BY <2>1, HeardDeaf
<1>13. CASE WakeQuit
  <2>1. NotYet' <=> NotYet
    BY <1>13 DEF NotYet, WakeQuit, owner, history
  <2> QED
    BY <1>13, <2>1, HeardFrame DEF Listening, WakeQuit, owner, history
<1>14. CASE WakeConnecting
  <2>1. NotYet' <=> NotYet
    BY <1>14 DEF NotYet, WakeConnecting, owner, history
  <2> QED
    BY <1>14, <2>1, HeardFrame DEF Listening, WakeConnecting, owner, history
<1>15. CASE WakeWritten
  <2>1. NotYet' <=> NotYet
    BY <1>15 DEF NotYet, WakeWritten, Waits, owner, history
  <2> QED
    BY <1>15, <2>1, HeardFrame DEF Listening, WakeWritten, owner, history
<1>16. CASE WakeRead
  <2>1. NotYet' <=> NotYet
    BY <1>16 DEF NotYet, WakeRead, Waits, owner, history
  <2> QED
    BY <1>16, <2>1, HeardFrame DEF Listening, WakeRead, owner, history
<1>17. CASE Completion
  <2>1. ~NotYet
    BY <1>17 DEF Completion, FreshInv, Finished
  <2>2. UNCHANGED <<running, main, heard, connecting>>
    BY <1>17 DEF Completion, owner, events, history
  <2>3. ~NotYet'
    BY <1>17, <2>1, <2>2 DEF Completion, NotYet, NextIO, WriteNext, ReadNext
  <2>4. m_state' = IF Fails THEN "unconnected" ELSE m_state
    BY <1>17, CompletionSeq
  <2>5. PICK x \in Seq(Entries) :
          /\ window' = window \o x
          /\ ~Fails => \A i \in 1..Len(x) : x[i].msg = "data"
          /\ Fails => \E i \in 1..Len(x) : x[i].msg = "error"
          /\ Fails /\ m_state # "unconnected" => \E p \in 1..Len(x) :
               /\ p + 1 \in 1..Len(x) /\ x[p].msg = "disconnected" /\ x[p + 1].msg = "error"
               /\ \A i \in 1..p - 1 : x[i].msg = "data"
    BY <1>17, CompletionSeq
  <2>6. Fails <=> ~\A i \in 1..Len(x) : x[i].msg = "data"
    BY <2>5
  <2>7. m_state' = IF \A i \in 1..Len(x) : x[i].msg = "data" THEN m_state ELSE "unconnected"
    BY <2>4, <2>6
  <2>8. m_state # "unconnected" =>
          \/ \A i \in 1..Len(x) : x[i].msg = "data"
          \/ \E p \in 1..Len(x) :
               /\ p + 1 \in 1..Len(x) /\ x[p].msg = "disconnected" /\ x[p + 1].msg = "error"
               /\ \A i \in 1..p - 1 : x[i].msg = "data"
    BY <2>5, <2>6
  <2>9. Listening' => Listening
    BY <2>2 DEF Listening
  <2> QED
    BY <2>1, <2>2, <2>3, <2>5, <2>7, <2>8, <2>9, HeardPost
<1>18. CASE Connects
  <2>1. NotYet /\ ~connecting
    BY <1>18 DEF Connects, OwnerInv, NotYet
  <2>2. ~NotYet'
    BY <1>18, <2>1 DEF Connects, NotYet, owner, events
  <2>3. UNCHANGED <<running, main, heard>>
    BY <1>18 DEF Connects, owner, history
  <2>4. CASE Listening
    <3>1. window = <<>> /\ heard = <<>>
      BY <2>1, <2>4 DEF HeardInv, Listening
    <3>2. \E m \in {"connected", "error"} :
            /\ window' = window \o Posted(m, 0)
            /\ m_state' = IF m = "connected" THEN "connected" ELSE "unconnected"
      BY <1>18 DEF Connects
    <3> QED
      BY <2>2, <2>3, <3>1, <3>2, HeardFirst
  <2>5. CASE ~Listening
    BY <2>3, <2>5, HeardDeaf DEF Listening
  <2> QED
    BY <2>4, <2>5
<1>19. CASE DoWrite
  <2>1. ~NotYet
    BY <1>19 DEF DoWrite, OwnerInv, NotYet
  <2>2. UNCHANGED <<running, main, heard>> /\ ~NotYet'
    BY <1>19, <2>1 DEF DoWrite, owner, events, history, NotYet
  <2>3. Listening' => Listening
    BY <2>2 DEF Listening
  <2>4. CASE SetError
    BY <2>1, <2>2, <2>3, <2>4, HeardError
  <2>5. CASE UNCHANGED <<m_state, window>>
    BY <2>1, <2>2, <2>3, <2>5, HeardFrame
  <2> QED
    BY <1>19, <2>4, <2>5 DEF DoWrite
<1>20. CASE DoRead
  <2>1. ~NotYet
    BY <1>20 DEF DoRead, OwnerInv, NotYet
  <2>2. UNCHANGED <<running, main, heard>> /\ ~NotYet'
    BY <1>20, <2>1 DEF DoRead, owner, events, history, NotYet
  <2>3. Listening' => Listening
    BY <2>2 DEF Listening
  <2>4. CASE SetError
    BY <2>1, <2>2, <2>3, <2>4, HeardError
  <2>5. CASE UNCHANGED <<m_state, window>>
    BY <2>1, <2>2, <2>3, <2>5, HeardFrame
  <2> QED
    BY <1>20, <2>4, <2>5 DEF DoRead
<1>21. CASE KernelWrites
  <2>1. NotYet' <=> NotYet
    BY <1>21 DEF NotYet, KernelWrites, owner, events, worker, history
  <2> QED
    BY <1>21, <2>1, HeardFrame DEF Listening, KernelWrites, owner, events, worker, history
<1>22. CASE KernelReads
  <2>1. NotYet' <=> NotYet
    BY <1>22 DEF NotYet, KernelReads, owner, events, worker, history
  <2> QED
    BY <1>22, <2>1, HeardFrame DEF Listening, KernelReads, owner, events, worker, history
<1>23. CASE PeerWrites
  <2>1. NotYet' <=> NotYet
    BY <1>23 DEF NotYet, PeerWrites, owner, events, worker
  <2> QED
    BY <1>23, <2>1, HeardFrame DEF Listening, PeerWrites, owner, events, worker
<1>24. CASE PeerCloses
  <2>1. NotYet' <=> NotYet
    BY <1>24 DEF NotYet, PeerCloses, owner, events, worker, history
  <2> QED
    BY <1>24, <2>1, HeardFrame DEF Listening, PeerCloses, owner, events, worker, history
<1>25. CASE UNCHANGED vars
  <2>1. NotYet' <=> NotYet
    BY <1>25 DEF vars, owner, events, worker, NotYet
  <2> QED
    BY <1>25, <2>1, HeardFrame DEF vars, owner, history, Listening
<1> QED
  BY <1>1, <1>2, <1>3, <1>4, <1>5, <1>6, <1>7, <1>8, <1>9, <1>10, <1>11, <1>12, <1>13,
     <1>14, <1>15, <1>16, <1>17, <1>18, <1>19, <1>20, <1>21, <1>22, <1>23, <1>24, <1>25
     DEF Next, Owner, OwnerCloses, Worker, Kernel

(***************************************************************************)
(* The theorems.                                                           *)
(***************************************************************************)
LEMMA InitInv == Init => SocketInv
<1> SUFFICES ASSUME Init PROVE SocketInv
  OBVIOUS
<1>1. TypeOK
  BY TypeInit
<1>2. ~running /\ window = <<>> /\ ~NotYet /\ "connect" \notin todo
  BY DEF Init, NotYet
<1>3. OwnerInv /\ FreshInv
  BY <1>2 DEF Init, OwnerInv, FreshInv
<1>4. WriteInv
  <2>1. ~write.bWritting
    BY DEF Init
  <2>2. /\ Len(accepted) = 0 /\ Len(toPeer) = 0 /\ Len(queue) = 0
        /\ DOMAIN accepted = {} /\ DOMAIN toPeer = {} /\ DOMAIN queue = {} /\ writeIO = "none"
    BY DEF Init
  <2> QED
    BY <1>2, <2>1, <2>2 DEF WriteInv
<1>5. ReadInv
  BY <1>2 DEF ReadInv, Init
<1>6. HeardInv
  BY <1>2 DEF HeardInv, Init
<1> QED
  BY <1>1, <1>3, <1>4, <1>5, <1>6 DEF SocketInv

LEMMA SocketStep == SocketInv /\ [Next]_vars => SocketInv'
BY TypeNext, OwnerNext, FreshNext, WriteStep, ReadStep, HeardStep DEF SocketInv

\* In every state the two threads, the window, the kernel's operations and the
\* pipe agree on what was accepted, written, read, posted and heard.
THEOREM SocketInvariant == Spec => []SocketInv
<1>1. Init => SocketInv
  BY InitInv
<1>2. SocketInv /\ [Next]_vars => SocketInv'
  BY SocketStep
<1> QED
  BY <1>1, <1>2, PTL DEF Spec

\* Every variable of the Windows socket keeps its type.
THEOREM TypeCorrect == Spec => []TypeOK
<1>1. SocketInv => TypeOK
  BY DEF SocketInv
<1> QED
  BY <1>1, SocketInvariant, PTL

LEMMA PrefixOf ==
  ASSUME NEW S, NEW q \in Seq(S), NEW r \in Seq(S), Len(q) <= Len(r), \A i \in 1..Len(q) : q[i] = r[i]
  PROVE  IsPrefix(q, r)
<1>1. Len(q) \in Nat /\ Len(r) \in Nat
  OBVIOUS
<1>2. /\ SubSeq(q, 1, Len(q)) \in Seq(S) /\ SubSeq(r, 1, Len(q)) \in Seq(S)
      /\ Len(SubSeq(q, 1, Len(q))) = Len(q) /\ Len(SubSeq(r, 1, Len(q))) = Len(q)
      /\ \A i \in 1..Len(q) : SubSeq(q, 1, Len(q))[i] = q[i] /\ SubSeq(r, 1, Len(q))[i] = r[i]
  BY <1>1
<1>3. SubSeq(q, 1, Len(q)) = SubSeq(r, 1, Len(q))
  BY <1>2, SeqEqual
<1> QED
  BY <1>3 DEF IsPrefix

LEMMA WrittenInOrder == SocketInv => StreamInOrder
<1> SUFFICES ASSUME SocketInv PROVE StreamInOrder
  OBVIOUS
<1>1. TypeOK /\ WriteInv /\ OwnerInv
  BY DEF SocketInv
<1>2. accepted \in Seq(Numbers) /\ toPeer \in Seq(Numbers) /\ queue \in Seq(Numbers)
  BY <1>1 DEF TypeOK
<1>3. IsPrefix(toPeer, accepted)
  <2>1. Len(toPeer) <= Len(accepted) /\ \A i \in 1..Len(toPeer) : i \in 1..Len(accepted)
    BY <1>1, WriteLengths DEF WriteInv
  <2>2. \A i \in 1..Len(toPeer) : toPeer[i] = accepted[i]
    BY <1>1, <2>1, WriteLengths DEF WriteInv
  <2> QED
    BY <1>2, <2>1, <2>2, PrefixOf
<1>4. ASSUME m_state \in {"connecting", "connected"}, write.bSuccess
      PROVE  accepted = toPeer \o UnderWay \o queue
  <2> DEFINE w == toPeer \o UnderWay
             s == w \o queue
  <2>1. running
    BY <1>1, <1>4 DEF OwnerInv
  <2>2. Len(accepted) = Len(toPeer) + Writing + Len(queue)
    BY <1>1, <1>4, <2>1 DEF WriteInv
  <2>3. write.data \in Numbers /\ writeIO \in IOStates
    BY <1>1 DEF TypeOK
  <2>4. /\ UnderWay \in Seq(Numbers) /\ Len(UnderWay) = Writing /\ Writing \in {0, 1}
        /\ \A i \in 1..Len(UnderWay) : UnderWay[i] = Len(toPeer) + i
    <3>1. CASE writeIO \in {"pending", "failed"}
      <4>1. write.bWritting /\ write.data = Len(toPeer) + 1
        BY <1>1, <3>1 DEF WriteInv
      <4>2. UnderWay = <<write.data>> /\ Writing = 1
        BY <3>1, <4>1 DEF UnderWay, Writing
      <4>3. UnderWay \in Seq(Numbers) /\ Len(UnderWay) = 1 /\ UnderWay[1] = write.data
        BY <2>3, <4>2
      <4>4. \A i \in 1..1 : i = 1
        OBVIOUS
      <4> QED
        BY <4>1, <4>2, <4>3, <4>4
    <3>2. CASE writeIO \in {"none", "done"}
      <4>1. UnderWay = <<>> /\ Writing = 0
        BY <1>1, <1>4, <3>2 DEF UnderWay, Writing, WriteInv
      <4> QED
        BY <4>1
    <3> QED
      BY <2>3, <3>1, <3>2 DEF IOStates
  <2>5. UnderWay \in Seq(Numbers)
    BY <2>4
  <2>6. /\ w \in Seq(Numbers) /\ Len(w) = Len(toPeer) + Len(UnderWay)
        /\ \A i \in 1..Len(toPeer) : w[i] = toPeer[i]
        /\ \A i \in 1..Len(UnderWay) : w[Len(toPeer) + i] = UnderWay[i]
    BY ONLY <1>2, <2>5, ConcatSeq
  <2>7. w \in Seq(Numbers) /\ queue \in Seq(Numbers)
    BY <1>2, <2>6
  <2> HIDE DEF w
  <2>8. /\ s \in Seq(Numbers) /\ Len(s) = Len(w) + Len(queue)
        /\ \A i \in 1..Len(w) : s[i] = w[i]
        /\ \A i \in 1..Len(queue) : s[Len(w) + i] = queue[i]
    BY ONLY <2>7, ConcatSeq
  <2> HIDE DEF s
  <2>9. \A i \in 1..Len(w) : w[i] = i
    <3> SUFFICES ASSUME NEW i \in 1..Len(w) PROVE w[i] = i
      OBVIOUS
    <3>1. CASE i <= Len(toPeer)
      <4>1. i \in 1..Len(toPeer)
        BY <1>1, <2>4, <2>6, <3>1, WriteLengths
      <4> QED
        BY <1>1, <2>6, <4>1, WriteLengths DEF WriteInv
    <3>2. CASE i > Len(toPeer)
      <4>1. i - Len(toPeer) \in 1..Len(UnderWay) /\ i = Len(toPeer) + (i - Len(toPeer))
        BY <1>1, <2>4, <2>6, <3>2, WriteLengths
      <4> QED
        BY <2>4, <2>6, <4>1
    <3> QED
      BY <1>1, <3>1, <3>2, WriteLengths
  <2>10. Len(s) = Len(accepted) /\ Len(w) = Len(accepted) - Len(queue) /\ Len(w) \in Nat
    BY <1>1, <2>2, <2>4, <2>6, <2>8, WriteLengths
  <2>11. \A i \in 1..Len(accepted) : s[i] = i
    <3> SUFFICES ASSUME NEW i \in 1..Len(accepted) PROVE s[i] = i
      OBVIOUS
    <3>1. CASE i <= Len(w)
      <4>1. i \in 1..Len(w)
        BY <2>10, <3>1
      <4> QED
        BY <2>8, <2>9, <4>1
    <3>2. CASE i > Len(w)
      <4>1. i - Len(w) \in 1..Len(queue) /\ i = Len(w) + (i - Len(w))
        BY <1>1, <2>10, <3>2, WriteLengths
      <4>2. queue[i - Len(w)] = Len(accepted) - Len(queue) + (i - Len(w))
        BY <1>1, <4>1, WriteLengths DEF WriteInv
      <4> QED
        BY <1>1, <2>8, <2>10, <4>1, <4>2, WriteLengths
    <3> QED
      BY <2>10, <3>1, <3>2
  <2>12. \A i \in 1..Len(accepted) : accepted[i] = s[i]
    BY <1>1, <2>11, WriteLengths DEF WriteInv
  <2>13. accepted = s
    BY <1>2, <2>8, <2>10, <2>12, SeqEqual
  <2> QED
    BY <2>13 DEF s, w
<1> QED
  BY <1>3, <1>4 DEF StreamInOrder

\* The pipe carries what write() accepted in order and without a gap, and
\* while the connection lasts what it has not carried is under way or queued.
THEOREM WritesInOrder == Spec => []StreamInOrder
BY SocketInvariant, WrittenInOrder, PTL

(***************************************************************************)
(* The data messages still posted to the window.                           *)
(***************************************************************************)

\* A set whose members are numbered from 1 to m has m members.
LEMMA CountUpTo ==
  ASSUME NEW I, IsFiniteSet(I), NEW m \in Nat, NEW f \in [I -> 1..m],
         \A i, j \in I : f[i] = f[j] => i = j, \A k \in 1..m : \E i \in I : f[i] = k
  PROVE  Cardinality(I) = m
<1>1. f \in Bijection(I, 1..m)
  BY DEF Bijection, Injection, IsInjective, Surjection
<1>2. IsFiniteSet(1..m) /\ Cardinality(1..m) = m
  BY FS_Interval
<1> QED
  BY <1>1, <1>2, FS_Bijection DEF ExistsBijection

\* The number a posted message carries tells its rank among them.
LEMMA PlacesCounted ==
  ASSUME TypeOK, NEW last \in Nat, ReadUpTo(last)
  PROVE  /\ Cardinality(DataPlaces) = last - Len(got)
         /\ \A i \in DataPlaces : Cardinality({j \in DataPlaces : j <= i}) = window[i].data - Len(got)
<1> DEFINE f == [i \in DataPlaces |-> window[i].data - Len(got)]
<1>1. PICK g \in Nat : g = Len(got)
  BY ReadLengths
<1>2. PICK n \in Nat : n = Len(window) /\ DataPlaces \subseteq 1..n
  BY ReadLengths
<1>3. IsFiniteSet(DataPlaces)
  <2>1. IsFiniteSet(1..n)
    BY FS_Interval
  <2> QED
    BY <1>2, <2>1, FS_Subset
<1>4. g <= last /\ last - g \in Nat
  BY <1>1 DEF ReadUpTo
<1>5. \A i \in DataPlaces : window[i].data \in Nat /\ window[i].data \in g + 1..last
  BY <1>1, <1>2, ReadLengths DEF ReadUpTo
<1>6. \A i \in DataPlaces : f[i] = window[i].data - g /\ f[i] \in 1..last - g
  BY <1>1, <1>4, <1>5
<1>7. \A i, j \in DataPlaces : i < j => f[i] < f[j]
  <2> SUFFICES ASSUME NEW i \in DataPlaces, NEW j \in DataPlaces, i < j PROVE f[i] < f[j]
    OBVIOUS
  <2>1. window[i].data < window[j].data
    BY DEF ReadUpTo
  <2>2. window[i].data \in Nat /\ window[j].data \in Nat /\ f[i] = window[i].data - g /\ f[j] = window[j].data - g
    BY <1>5, <1>6
  <2> QED
    BY <2>1, <2>2
<1>8. \A k \in 1..last - g : \E i \in DataPlaces : f[i] = k
  <2> SUFFICES ASSUME NEW k \in 1..last - g PROVE \E i \in DataPlaces : f[i] = k
    OBVIOUS
  <2>1. g + k \in Len(got) + 1..last
    BY <1>1, <1>4
  <2>2. PICK i \in DataPlaces : window[i].data = g + k
    BY <2>1 DEF ReadUpTo
  <2> QED
    BY <1>6, <2>2
<1> HIDE DEF f
<1>9. \A i, j \in DataPlaces : f[i] = f[j] => i = j
  <2> SUFFICES ASSUME NEW i \in DataPlaces, NEW j \in DataPlaces, i # j PROVE f[i] # f[j]
    OBVIOUS
  <2>1. i < j \/ j < i
    BY <1>2
  <2>2. f[i] \in Nat /\ f[j] \in Nat
    BY <1>4, <1>6
  <2> QED
    BY <1>7, <2>1, <2>2
<1>10. Cardinality(DataPlaces) = last - g
  <2>1. f \in [DataPlaces -> 1..last - g]
    BY <1>6 DEF f
  <2> QED
    BY <1>3, <1>4, <1>8, <1>9, <2>1, CountUpTo
<1>11. ASSUME NEW i \in DataPlaces
       PROVE  Cardinality({j \in DataPlaces : j <= i}) = f[i]
  <2> DEFINE I == {j \in DataPlaces : j <= i}
             h == [j \in I |-> f[j]]
  <2>1. I \subseteq DataPlaces /\ IsFiniteSet(I)
    BY <1>3, FS_Subset
  <2>2. \A j \in DataPlaces : j \in I <=> f[j] <= f[i]
    <3> SUFFICES ASSUME NEW j \in DataPlaces PROVE j <= i <=> f[j] <= f[i]
      OBVIOUS
    <3>1. i \in Nat /\ j \in Nat /\ f[i] \in Nat /\ f[j] \in Nat
      BY <1>2, <1>4, <1>6
    <3>2. (j < i => f[j] < f[i]) /\ (i < j => f[i] < f[j]) /\ (j = i => f[j] = f[i])
      BY <1>7
    <3> QED
      BY <3>1, <3>2
  <2>3. f[i] \in Nat /\ f[i] \in 1..last - g
    BY <1>4, <1>6
  <2> HIDE DEF I
  <2>4. \A j \in I : h[j] = f[j] /\ f[j] \in 1..f[i]
    <3> SUFFICES ASSUME NEW j \in I PROVE f[j] \in 1..f[i]
      OBVIOUS
    <3>1. j \in DataPlaces /\ f[j] <= f[i] /\ f[j] \in 1..last - g
      BY <1>6, <2>1, <2>2
    <3> QED
      BY <1>4, <2>3, <3>1
  <2>5. \A k \in 1..f[i] : \E j \in I : h[j] = k
    <3> SUFFICES ASSUME NEW k \in 1..f[i] PROVE \E j \in I : f[j] = k
      BY <2>4
    <3>1. k \in 1..last - g /\ k <= f[i]
      BY <1>4, <2>3
    <3>2. PICK j \in DataPlaces : f[j] = k
      BY <1>8, <3>1
    <3> QED
      BY <2>2, <3>1, <3>2
  <2>6. \A j, k \in I : h[j] = h[k] => j = k
    BY <1>9, <2>1, <2>4
  <2>7. h \in [I -> 1..f[i]]
    BY <2>4
  <2> HIDE DEF h
  <2>8. Cardinality(I) = f[i]
    BY <2>1, <2>3, <2>5, <2>6, <2>7, CountUpTo
  <2> QED
    BY <2>8 DEF I
<1> QED
  BY <1>1, <1>6, <1>10, <1>11

\* The posted numbers are those between the last heard and the last posted.
LEMMA PostedInOrder ==
  ASSUME TypeOK, NEW last \in Nat, ReadUpTo(last)
  PROVE  /\ PostedData \in Seq(Nat) /\ Len(PostedData) = last - Len(got)
         /\ \A k \in 1..last - Len(got) : PostedData[k] = Len(got) + k
<1> DEFINE rank(i) == Cardinality({j \in DataPlaces : j <= i})
           place(k) == CHOOSE i \in DataPlaces : rank(i) = k
<1>1. PICK g \in Nat : g = Len(got) /\ g <= last
  BY ReadLengths DEF ReadUpTo
<1>2. Cardinality(DataPlaces) = last - g /\ \A i \in DataPlaces : rank(i) = window[i].data - g
  BY <1>1, PlacesCounted
<1> HIDE DEF rank
<1>3. \A i \in DataPlaces : window[i].data \in Nat
  BY ReadLengths
<1>4. ASSUME NEW k \in 1..last - g PROVE window[place(k)].data = g + k
  <2>1. g + k \in Len(got) + 1..last /\ (g + k) - g = k
    BY <1>1
  <2>2. PICK i \in DataPlaces : window[i].data = g + k
    BY <2>1 DEF ReadUpTo
  <2>3. rank(i) = k
    BY <1>2, <2>1, <2>2
  <2>4. place(k) \in DataPlaces /\ rank(place(k)) = k
    BY <2>2, <2>3
  <2> HIDE DEF place
  <2>5. window[place(k)].data - g = k /\ window[place(k)].data \in Nat
    BY <1>2, <1>3, <2>4
  <2> QED
    BY <1>1, <2>5
<1>5. PostedData = [k \in 1..last - g |-> window[place(k)].data]
  BY <1>2 DEF PostedData, rank
<1> HIDE DEF place
<1>6. last - g \in Nat /\ \A k \in 1..last - g : PostedData[k] = g + k /\ g + k \in Nat
  BY <1>1, <1>4, <1>5
<1>7. PostedData \in Seq(Nat) /\ Len(PostedData) = last - g
  <2>1. PostedData \in [1..last - g -> Nat]
    BY <1>4, <1>5, <1>6
  <2> QED
    BY <1>6, <2>1
<1> QED
  BY <1>1, <1>6, <1>7

LEMMA ReadsUpTo == SocketInv => ReadInOrder
<1> SUFFICES ASSUME SocketInv, running
             PROVE  /\ IsPrefix(Arrived, [i \in 1..sent |-> i])
                    /\ peerUp => Arrived \o fromPeer = [i \in 1..sent |-> i]
  BY DEF ReadInOrder
<1>1. TypeOK /\ ReadInv
  BY DEF SocketInv
<1>2. PICK last \in Nat : ReadUpTo(last)
  BY <1>1 DEF ReadInv
<1>3. PICK g \in Nat : g = Len(got) /\ g <= last
  BY <1>1, <1>2, ReadLengths DEF ReadUpTo
<1> DEFINE r == IF readIO = "done" THEN <<read.data>> ELSE <<>>
           w == got \o PostedData
           a == w \o r
           all == [i \in 1..sent |-> i]
<1>4. /\ got \in Seq(Nat) /\ fromPeer \in Seq(Nat) /\ sent \in Nat
      /\ \A i \in 1..g : got[i] = i
  <2>1. Numbers \subseteq Nat
    BY Bounds
  <2>2. got \in Seq(Nat) /\ fromPeer \in Seq(Nat)
    <3>1. got \in Seq(Numbers) /\ fromPeer \in Seq(Numbers)
      BY <1>1 DEF TypeOK
    <3>2. \A q \in Seq(Numbers) : q \in Seq(Nat)
      <4> SUFFICES ASSUME NEW q \in Seq(Numbers) PROVE q \in Seq(Nat)
        OBVIOUS
      <4>1. \A i \in 1..Len(q) : q[i] \in Nat
        BY <2>1, SeqFacts
      <4> QED
        BY <4>1, SeqFacts
    <3> QED
      BY <3>1, <3>2
  <2> QED
    BY <1>1, <1>2, <1>3, <2>2, ReadLengths DEF ReadUpTo
<1>5. PostedData \in Seq(Nat) /\ Len(PostedData) = last - g /\ \A k \in 1..last - g : PostedData[k] = g + k
  BY <1>1, <1>2, <1>3, PostedInOrder
<1>6. /\ r \in Seq(Nat) /\ Len(r) = Taken /\ Taken \in {0, 1} /\ \A k \in 1..Taken : r[k] = last + k
      /\ last + Taken <= sent
  <2>1. last + Taken <= sent
    BY <1>2 DEF ReadUpTo
  <2>2. CASE readIO = "done"
    <3>1. read.data = last + 1 /\ r = <<read.data>> /\ Taken = 1 /\ read.data \in Nat
      BY <1>2, <2>2 DEF ReadUpTo, Taken
    <3>2. r \in Seq(Nat) /\ Len(r) = 1 /\ r[1] = last + 1 /\ \A k \in 1..1 : k = 1
      BY <3>1
    <3> QED
      BY <2>1, <3>1, <3>2
  <2>3. CASE readIO # "done"
    <3>1. r = <<>> /\ Taken = 0
      BY <2>3 DEF Taken
    <3> QED
      BY <2>1, <3>1
  <2> QED
    BY <2>2, <2>3
<1>7. PICK t \in {0, 1} : t = Taken
  BY <1>6
<1> HIDE DEF r
<1>8. /\ w \in Seq(Nat) /\ Len(w) = Len(got) + Len(PostedData)
      /\ \A i \in 1..Len(got) : w[i] = got[i]
      /\ \A i \in 1..Len(PostedData) : w[Len(got) + i] = PostedData[i]
  <2>1. got \in Seq(Nat) /\ PostedData \in Seq(Nat)
    BY <1>4, <1>5
  <2> QED
    BY ONLY <2>1, ConcatSeq
<1> HIDE DEF w
<1>9. w \in Seq(Nat) /\ Len(w) = last /\ \A i \in 1..last : w[i] = i
  <2>1. Len(w) = last
    BY <1>3, <1>5, <1>8
  <2> SUFFICES ASSUME NEW i \in 1..last PROVE w[i] = i
    BY <1>8, <2>1
  <2>2. CASE i <= g
    BY <1>3, <1>4, <1>8, <2>2
  <2>3. CASE i > g
    <3>1. i - g \in 1..last - g /\ i = g + (i - g)
      BY <1>3, <2>3
    <3> QED
      BY <1>3, <1>5, <1>8, <3>1
  <2> QED
    BY <1>3, <2>2, <2>3
<1>10. /\ a \in Seq(Nat) /\ Len(a) = Len(w) + Len(r)
       /\ \A i \in 1..Len(w) : a[i] = w[i]
       /\ \A i \in 1..Len(r) : a[Len(w) + i] = r[i]
  <2>1. w \in Seq(Nat) /\ r \in Seq(Nat)
    BY <1>6, <1>9
  <2> QED
    BY ONLY <2>1, ConcatSeq
<1> HIDE DEF a
<1>11. a \in Seq(Nat) /\ Len(a) = last + t /\ \A i \in 1..last + t : a[i] = i
  <2>1. Len(a) = last + t
    BY <1>6, <1>7, <1>9, <1>10
  <2> SUFFICES ASSUME NEW i \in 1..last + t PROVE a[i] = i
    BY <1>10, <2>1
  <2>2. CASE i <= last
    BY <1>9, <1>10, <2>2
  <2>3. CASE i > last
    <3>1. i - last \in 1..t /\ i = last + (i - last)
      BY <1>7, <2>3
    <3> QED
      BY <1>6, <1>7, <1>9, <1>10, <3>1
  <2> QED
    BY <1>7, <2>2, <2>3
<1>12. Arrived = a
  <2>1. got \in Seq(Nat) /\ PostedData \in Seq(Nat) /\ r \in Seq(Nat)
    BY <1>4, <1>5, <1>6
  <2>2. (got \o PostedData) \o r = got \o (PostedData \o r)
    BY ONLY <2>1, ConcatThree, SMTT(30)
  <2> QED
    BY <2>2 DEF Arrived, a, w, r
<1>13. all \in Seq(Nat) /\ Len(all) = sent /\ \A i \in 1..sent : all[i] = i
  <2>1. all \in [1..sent -> Nat]
    OBVIOUS
  <2> QED
    BY <1>4, <2>1
<1> HIDE DEF all
<1>14. IsPrefix(Arrived, all)
  <2>1. last + t <= sent /\ last + t \in Nat
    BY <1>6, <1>7
  <2>2. Len(a) <= Len(all) /\ \A i \in 1..Len(a) : a[i] = all[i]
    BY <1>4, <1>11, <1>13, <2>1
  <2> QED
    BY <1>11, <1>12, <1>13, <2>2, PrefixOf
<1>15. ASSUME peerUp PROVE Arrived \o fromPeer = all
  <2> DEFINE s == a \o fromPeer
  <2>1. PICK p \in Nat : p = Len(fromPeer)
    BY <1>4
  <2>2. last + t + p = sent /\ \A i \in 1..p : fromPeer[i] = sent - p + i
    BY <1>1, <1>2, <1>7, <1>15, <2>1, ReadLengths DEF ReadUpTo
  <2>3. /\ s \in Seq(Nat) /\ Len(s) = Len(a) + Len(fromPeer)
        /\ \A i \in 1..Len(a) : s[i] = a[i]
        /\ \A i \in 1..Len(fromPeer) : s[Len(a) + i] = fromPeer[i]
    <3>1. a \in Seq(Nat) /\ fromPeer \in Seq(Nat)
      BY <1>4, <1>11
    <3> QED
      BY ONLY <3>1, ConcatSeq
  <2> HIDE DEF s
  <2>4. Len(s) = sent /\ Len(a) = sent - p
    BY <1>4, <1>7, <1>11, <2>1, <2>2, <2>3
  <2>5. \A i \in 1..sent : s[i] = i
    <3> SUFFICES ASSUME NEW i \in 1..sent PROVE s[i] = i
      OBVIOUS
    <3>1. CASE i <= last + t
      <4>1. i \in 1..last + t
        BY <1>7, <3>1
      <4> QED
        BY <1>11, <2>3, <4>1
    <3>2. CASE i > last + t
      <4>1. i - (sent - p) \in 1..p /\ i = (sent - p) + (i - (sent - p))
        BY <1>4, <1>7, <2>1, <2>2, <3>2
      <4>2. fromPeer[i - (sent - p)] = sent - p + (i - (sent - p))
        BY <2>2, <4>1
      <4> QED
        BY <1>4, <2>1, <2>3, <2>4, <4>1, <4>2
    <3> QED
      BY <1>7, <3>1, <3>2
  <2>6. s = all
    <3>1. Len(s) = Len(all) /\ \A i \in 1..Len(s) : s[i] = all[i]
      BY <1>13, <2>4, <2>5
    <3> QED
      BY <1>13, <2>3, <3>1, SeqEqual
  <2> QED
    BY <1>12, <2>6 DEF s
<1> QED
  BY <1>14, <1>15 DEF all

\* What the other end sent and the window, the read buffer and the channel have
\* of it is in order and without a gap, and while the other end is open nothing
\* of it is lost.
THEOREM ReadsInOrder == Spec => []ReadInOrder
BY SocketInvariant, ReadsUpTo, PTL

(***************************************************************************)
(* What the owner hears, step by step.                                     *)
(***************************************************************************)
Hears == /\ conn' = conn /\ got' # got => heard = <<"connected">>
         /\ IsPrefix(heard', <<"connected", "disconnected">>)

LEMMA OnlyDeliverHears == TypeOK /\ Next /\ conn' = conn /\ got' # got => Deliver
<1> SUFFICES ASSUME TypeOK, Next, conn' = conn, ~Deliver PROVE got' = got
  OBVIOUS
<1>1. ~Fresh
  <2>1. conn \in Nat
    BY Bounds DEF TypeOK
  <2> QED
    BY <2>1 DEF Fresh
<1>2. CASE Owner
  BY <1>1, <1>2 DEF Owner, Connect, ConnectAgain, ConnectReads, Accept, Write, Close, history
<1>3. CASE OwnerCloses
  BY <1>3 DEF OwnerCloses, NothingOpen, CloseHandle, Disconnected, TermQuits, TermJoins, history
<1>4. CASE Worker
  BY <1>4 DEF Worker, WakeQuit, WakeConnecting, WakeWritten, WakeRead, Completion,
     Connects, DoWrite, DoRead, history
<1>5. CASE Kernel \/ PeerWrites \/ PeerCloses
  BY <1>5 DEF Kernel, KernelWrites, KernelReads, PeerWrites, PeerCloses, history
<1> QED
  BY <1>2, <1>3, <1>4, <1>5 DEF Next

LEMMA HeardWhen == TypeOK /\ OwnerInv /\ HeardInv /\ Deliver /\ got' # got => heard = <<"connected">>
<1> SUFFICES ASSUME TypeOK, OwnerInv, HeardInv, Deliver, got' # got PROVE heard = <<"connected">>
  OBVIOUS
<1>1. window \in Seq(Entries) /\ window # <<>> /\ main = "idle"
  BY DEF Deliver, Idle, TypeOK, Entries
<1>2. running /\ Listening
  BY <1>1 DEF OwnerInv, Listening
<1>3. 1 \in DOMAIN window /\ Head(window) = window[1]
  BY <1>1, TailSeq, SeqFacts
<1>4. window[1].msg = "data"
  BY <1>3 DEF Deliver
<1>5. Is(1, "data") /\ InTime(1)
  BY <1>3, <1>4 DEF Is, InTime
<1>6. Began(1)
  BY <1>2, <1>3, <1>5 DEF HeardInv, Listening
<1> QED
  BY <1>6 DEF Began

LEMMA HeardPrefix ==
  ASSUME NEW h \in {<<>>, <<"connected">>, <<"connected", "disconnected">>}
  PROVE  IsPrefix(h, <<"connected", "disconnected">>)
<1> DEFINE S == {"connected", "disconnected"}
           both == <<"connected", "disconnected">>
<1>1. h \in Seq(S) /\ both \in Seq(S)
  <2>1. <<>> \in Seq(S) /\ <<"connected">> \in Seq(S) /\ both \in Seq(S)
    OBVIOUS
  <2> QED
    BY <2>1
<1>2. Len(h) <= Len(both) /\ \A i \in 1..Len(h) : h[i] = both[i]
  <2>1. CASE h = <<>>
    BY <2>1
  <2>2. CASE h = <<"connected">>
    <3>1. Len(h) = 1 /\ Len(both) = 2 /\ h[1] = "connected" /\ both[1] = "connected" /\ \A i \in 1..1 : i = 1
      BY <2>2
    <3> QED
      BY <3>1
  <2>3. CASE h = both
    BY <2>3
  <2> QED
    BY <2>1, <2>2, <2>3
<1> QED
  BY <1>1, <1>2, PrefixOf

LEMMA HearsStep == SocketInv /\ SocketInv' /\ [Next]_vars => [Hears]_vars
<1> SUFFICES ASSUME SocketInv, SocketInv', Next PROVE Hears
  OBVIOUS
<1>1. TypeOK /\ OwnerInv /\ HeardInv /\ HeardInv'
  BY DEF SocketInv
<1>2. conn' = conn /\ got' # got => heard = <<"connected">>
  BY <1>1, OnlyDeliverHears, HeardWhen
<1>3. IsPrefix(heard', <<"connected", "disconnected">>)
  BY <1>1, HeardPrefix DEF HeardInv
<1> QED
  BY <1>2, <1>3 DEF Hears

\* Data are heard only between "connected" and "disconnected", and each of the
\* two at most once in a connection.
THEOREM HearsInOrder == Spec => HeardInOrder
<1>1. Spec => [][Hears]_vars
  BY SocketInvariant, HearsStep, PTL DEF Spec
<1> QED
  BY <1>1 DEF HeardInOrder, Hears
=============================================================================
