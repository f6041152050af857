------------------------- MODULE RipcChannelProofs -------------------------
(***************************************************************************)
(* Proofs about RipcChannel for any number of calls, connections,          *)
(* broadcasts and nested event loops, and any sequence id to begin with.   *)
(***************************************************************************)
EXTENDS RipcChannel, FiniteSetTheorems, TLAPS

(***************************************************************************)
(* What is on its way.  u are the requests the server has not read, a the  *)
(* ones it works on, S the units it has sent and the channel has not       *)
(* committed, whether received or not.                                     *)
(***************************************************************************)
Stream == inbuf \o wire

InUp(m, u) == \E i \in DOMAIN u : u[i] = m
InUnits(m, S) == \E i \in DOMAIN S : S[i].msg = m
Flying(m, u, a, S) == InUp(m, u) \/ m \in a \/ InUnits(m, S)

IsRequest(m) == m.id \in Ids /\ m.call \in Calls
RequestsOnly(u, a, S) ==
  /\ \A i \in DOMAIN u : IsRequest(u[i])
  /\ \A m \in a : IsRequest(m)
  /\ \A i \in DOMAIN S : S[i].msg.id # IdZero => S[i].msg.call \in Calls

\* Each request and each unit of an answer is in one place once.
InOrderOnce(u, a, S) ==
  /\ \A i, k \in DOMAIN u : u[i] = u[k] => i = k
  /\ \A i, k \in DOMAIN S : S[i] = S[k] /\ S[i].msg.id # IdZero => i = k
  /\ \A i \in DOMAIN u : u[i] \notin a /\ ~InUnits(u[i], S)
  /\ \A m \in a : ~InUnits(m, S)

Traffic(u, a, S) == RequestsOnly(u, a, S) /\ InOrderOnce(u, a, S)
TrafficInv == Traffic(up, asked, Stream)
OnItsWay(i, c) == Flying([id |-> i, call |-> c], up, asked, Stream)

(***************************************************************************)
(* Ids and entries.  An id is used by an entry, by a message on its way or *)
(* by a callback that will erase the entry under it.  Ids are given in a   *)
(* circle, so the age of an id is less than the number of calls made, and  *)
(* the next id, the oldest, is free.                                       *)
(***************************************************************************)
Runs(st, i) == \E k \in DOMAIN st : st[k].at = "callback" /\ st[k].live /\ st[k].id = i
Age(s, i) == IF i <= s THEN s - i ELSE s + MaxId - i
InUse(i) == cobs[i] # NoCall \/ (\E c \in Calls : OnItsWay(i, c)) \/ Runs(stack, i)

CallsInv ==
  /\ \A i \in Ids : cobs[i] \in made \cup {NoCall}
  /\ \A i, k \in Ids : cobs[i] = cobs[k] /\ cobs[i] # NoCall => i = k
  /\ \A c \in Calls \ made : ran[c] = <<>>
IdInv == \A i \in Ids : InUse(i) => Age(seq, i) < Cardinality(made)
AnswerInv == \A i \in Ids, c \in Calls : OnItsWay(i, c) => cobs[i] \in {NoCall, c}
FrameIds(st) == \A k \in DOMAIN st : st[k].at = "callback" => st[k].id \in Ids
FrameInv ==
  /\ FrameIds(stack)
  /\ \A i \in Ids : Runs(stack, i) /\ cobs[i] # NoCall => ran[cobs[i]] # <<>>

(***************************************************************************)
(* While the stream is not spoilt it consists of whole messages, of which  *)
(* the first may be at the application.                                    *)
(***************************************************************************)
Whole(S) ==
  /\ S # <<>> => S[1].part = 1
  /\ \A i \in DOMAIN S :
       /\ S[i].part \in 1..Size(S[i].msg)
       /\ S[i].part < Size(S[i].msg) => i < Len(S) /\ S[i + 1] = [msg |-> S[i].msg, part |-> S[i].part + 1]
       /\ S[i].part = Size(S[i].msg) /\ i < Len(S) => S[i + 1].part = 1

AtNotify(st) == st # <<>> /\ st[Len(st)].at = "notify" /\ st[Len(st)].live
NoneBelow(st) == \A k \in DOMAIN st : k < Len(st) /\ st[k].at = "notify" => ~st[k].live
PosInv ==
  /\ NoneBelow(stack)
  /\ AtNotify(stack) => pos = NotifySize /\ Len(inbuf) >= NotifySize /\ inbuf[1].msg.id = IdZero
  /\ ~AtNotify(stack) => pos = 0

\* Messages and entries belong together: an entry waits for its message, or its
\* callback is running.
EntryInv ==
  /\ \A i \in Ids, c \in Calls : OnItsWay(i, c) => cobs[i] = c /\ ran[c] = <<>>
  /\ \A i \in Ids : cobs[i] # NoCall /\ ran[cobs[i]] = <<>> => OnItsWay(i, cobs[i])
  /\ \A i \in Ids : cobs[i] # NoCall /\ ran[cobs[i]] # <<>> => Runs(stack, i)
StreamInv == ~broken => Whole(Stream) /\ PosInv /\ EntryInv

BaseInv == TrafficInv /\ CallsInv /\ IdInv /\ AnswerInv /\ FrameInv
ChannelInv == TypeOK /\ BaseInv /\ StreamInv

-----------------------------------------------------------------------------
(***************************************************************************)
(* Sequences.                                                              *)
(***************************************************************************)
Drop(S, n) == SubSeq(S, n + 1, Len(S))

LEMMA DropSeq ==
  ASSUME NEW T, NEW S \in Seq(T), NEW n \in 0..Len(S)
  PROVE  /\ Drop(S, n) \in Seq(T) /\ Len(Drop(S, n)) = Len(S) - n
         /\ \A i \in 1..(Len(S) - n) : Drop(S, n)[i] = S[i + n]
  BY DEF Drop

\* A commit longer than the buffer empties it.
LEMMA DropAll ==
  ASSUME NEW T, NEW S \in Seq(T), NEW n \in Nat, n > Len(S)
  PROVE  Drop(S, n) = <<>>
  BY DEF Drop

LEMMA TakeSeq ==
  ASSUME NEW T, NEW S \in Seq(T), NEW n \in 0..Len(S)
  PROVE  /\ SubSeq(S, 1, n) \in Seq(T) /\ Len(SubSeq(S, 1, n)) = n
         /\ \A i \in 1..n : SubSeq(S, 1, n)[i] = S[i]
  OBVIOUS

LEMMA ConcatSeq ==
  ASSUME NEW T, NEW a \in Seq(T), NEW b \in Seq(T)
  PROVE  /\ a \o b \in Seq(T) /\ Len(a \o b) = Len(a) + Len(b)
         /\ \A k \in 1..Len(a) : (a \o b)[k] = a[k]
         /\ \A k \in 1..Len(b) : (a \o b)[Len(a) + k] = b[k]
  OBVIOUS

LEMMA SeqEqual ==
  ASSUME NEW T, NEW a \in Seq(T), NEW b \in Seq(T), Len(a) = Len(b),
         \A k \in 1..Len(a) : a[k] = b[k]
  PROVE  a = b
  OBVIOUS

\* Data that arrive only move on within the stream.
LEMMA DeliverStream ==
  ASSUME NEW T, NEW b \in Seq(T), NEW w \in Seq(T), NEW n \in 1..Len(w)
  PROVE  /\ b \o SubSeq(w, 1, n) \in Seq(T) /\ Drop(w, n) \in Seq(T)
         /\ Len(b \o SubSeq(w, 1, n)) = Len(b) + n
         /\ (b \o SubSeq(w, 1, n)) \o Drop(w, n) = b \o w
<1> DEFINE x == SubSeq(w, 1, n)
           y == Drop(w, n)
<1>1. x \in Seq(T) /\ Len(x) = n /\ \A i \in 1..n : x[i] = w[i]
  BY TakeSeq
<1>2. y \in Seq(T) /\ Len(y) = Len(w) - n /\ \A i \in 1..(Len(w) - n) : y[i] = w[i + n]
  BY DropSeq
<1> HIDE DEF x, y
<1>3. /\ b \o x \in Seq(T) /\ Len(b \o x) = Len(b) + n
      /\ \A k \in 1..Len(b) : (b \o x)[k] = b[k]
      /\ \A k \in 1..n : (b \o x)[Len(b) + k] = w[k]
  <2>1. /\ b \o x \in Seq(T) /\ Len(b \o x) = Len(b) + Len(x)
        /\ \A k \in 1..Len(b) : (b \o x)[k] = b[k]
        /\ \A k \in 1..Len(x) : (b \o x)[Len(b) + k] = x[k]
    <3>1. x \in Seq(T) /\ b \in Seq(T)
      BY <1>1
    <3> QED
      BY ONLY <3>1, ConcatSeq
  <2> QED
    BY <2>1, <1>1
<1>4. /\ (b \o x) \o y \in Seq(T) /\ Len((b \o x) \o y) = Len(b) + n + Len(y)
      /\ \A k \in 1..(Len(b) + n) : ((b \o x) \o y)[k] = (b \o x)[k]
      /\ \A k \in 1..Len(y) : ((b \o x) \o y)[Len(b) + n + k] = y[k]
  <2> DEFINE z == b \o x
  <2> HIDE DEF z
  <2>1. /\ z \o y \in Seq(T) /\ Len(z \o y) = Len(z) + Len(y)
        /\ \A k \in 1..Len(z) : (z \o y)[k] = z[k]
        /\ \A k \in 1..Len(y) : (z \o y)[Len(z) + k] = y[k]
    <3>1. z \in Seq(T) /\ y \in Seq(T)
      BY <1>2, <1>3 DEF z
    <3> QED
      BY ONLY <3>1, ConcatSeq
  <2> QED
    BY <2>1, <1>3 DEF z
<1>5. /\ b \o w \in Seq(T) /\ Len(b \o w) = Len(b) + Len(w)
      /\ \A k \in 1..Len(b) : (b \o w)[k] = b[k]
      /\ \A k \in 1..Len(w) : (b \o w)[Len(b) + k] = w[k]
  BY ConcatSeq
<1> DEFINE p == (b \o x) \o y
           q == b \o w
<1>6. ASSUME NEW k \in 1..Len(q) PROVE p[k] = q[k]
  <2>1. Len(q) = Len(b) + Len(w) /\ Len(y) = Len(w) - n /\ Len(b) \in Nat /\ Len(w) \in Nat
    BY <1>2, <1>5
  <2>2. CASE k <= Len(b)
    BY <2>1, <2>2, <1>3, <1>4, <1>5
  <2>3. CASE Len(b) < k /\ k <= Len(b) + n
    <3>1. k - Len(b) \in 1..n /\ k - Len(b) \in 1..Len(w) /\ Len(b) + (k - Len(b)) = k /\ k \in 1..(Len(b) + n)
      BY <2>1, <2>3
    <3> QED
      BY <3>1, <1>3, <1>4, <1>5
  <2>4. CASE Len(b) + n < k
    <3> DEFINE j == k - (Len(b) + n)
    <3>1. /\ j \in 1..Len(y) /\ j \in 1..(Len(w) - n) /\ Len(b) + n + j = k
          /\ j + n \in 1..Len(w) /\ Len(b) + (j + n) = k
      BY <2>1, <2>4
    <3> HIDE DEF j
    <3>2. p[k] = y[j] /\ y[j] = w[j + n] /\ q[k] = w[j + n]
      BY <3>1, <1>2, <1>4, <1>5
    <3> QED
      BY <3>2
  <2>5. k <= Len(b) \/ (Len(b) < k /\ k <= Len(b) + n) \/ Len(b) + n < k
    BY <2>1
  <2> QED
    BY <2>5, <2>2, <2>3, <2>4
<1>7. p = q
  <2>1. p \in Seq(T) /\ q \in Seq(T) /\ Len(p) = Len(q)
    BY <1>2, <1>4, <1>5
  <2> HIDE DEF p, q
  <2> QED
    BY <2>1, <1>6, SeqEqual
<1> QED
  BY <1>2, <1>3, <1>7 DEF x, y

\* A commit drops from the front of the stream.
LEMMA RestStream ==
  ASSUME NEW T, NEW b \in Seq(T), NEW w \in Seq(T), NEW n \in Nat
  PROVE  /\ Drop(b, n) \in Seq(T)
         /\ n <= Len(b) => n \in 0..Len(b \o w) /\ Drop(b, n) \o w = Drop(b \o w, n)
         /\ n > Len(b) => Len(b) \in 0..Len(b \o w) /\ Drop(b, n) \o w = Drop(b \o w, Len(b))
<1> DEFINE q == b \o w
<1>1. /\ q \in Seq(T) /\ Len(q) = Len(b) + Len(w)
      /\ \A k \in 1..Len(b) : q[k] = b[k]
      /\ \A k \in 1..Len(w) : q[Len(b) + k] = w[k]
      /\ Len(b) \in Nat /\ Len(w) \in Nat
  BY ConcatSeq
<1> HIDE DEF q
<1>2. ASSUME NEW m \in 0..Len(b)
      PROVE  m \in 0..Len(q) /\ Drop(b, m) \in Seq(T) /\ Drop(b, m) \o w = Drop(q, m)
  <2>1. m \in 0..Len(q) /\ m \in Nat
    BY <1>1
  <2>2. Drop(b, m) \in Seq(T) /\ Len(Drop(b, m)) = Len(b) - m /\ \A i \in 1..(Len(b) - m) : Drop(b, m)[i] = b[i + m]
    BY DropSeq
  <2>3. Drop(q, m) \in Seq(T) /\ Len(Drop(q, m)) = Len(q) - m /\ \A i \in 1..(Len(q) - m) : Drop(q, m)[i] = q[i + m]
    BY <1>1, <2>1, DropSeq
  <2> DEFINE x == Drop(b, m)
             y == Drop(q, m)
             z == x \o w
  <2> HIDE DEF x, y
  <2>4. /\ z \in Seq(T) /\ Len(z) = Len(x) + Len(w)
        /\ \A k \in 1..Len(x) : z[k] = x[k]
        /\ \A k \in 1..Len(w) : z[Len(x) + k] = w[k]
    <3>1. x \in Seq(T)
      BY <2>2 DEF x
    <3> QED
      BY ONLY <3>1, w \in Seq(T), ConcatSeq DEF z
  <2> HIDE DEF z
  <2>5. Len(z) = Len(y)
    BY <1>1, <2>1, <2>2, <2>3, <2>4 DEF x, y
  <2>6. ASSUME NEW k \in 1..Len(z) PROVE z[k] = y[k]
    <3>1. y[k] = q[k + m]
      BY <2>3, <2>5, <1>1 DEF y
    <3>2. CASE k <= Len(b) - m
      BY <3>1, <3>2, <1>1, <2>1, <2>2, <2>4 DEF x
    <3>3. CASE k > Len(b) - m
      <4> DEFINE j == k - (Len(b) - m)
      <4>1. j \in 1..Len(w) /\ Len(x) + j = k /\ Len(b) + j = k + m
        BY <1>1, <2>1, <2>2, <2>4, <3>3 DEF x
      <4> HIDE DEF j
      <4> QED
        BY <3>1, <4>1, <1>1, <2>4
    <3> QED
      BY <3>2, <3>3, <1>1, <2>1
  <2>7. z = y
    BY <2>3, <2>4, <2>5, <2>6, SeqEqual DEF y
  <2> QED
    BY <2>1, <2>2, <2>7 DEF x, y, z
<1>3. CASE n <= Len(b)
  BY <1>1, <1>2, <1>3 DEF q
<1>4. CASE n > Len(b)
  <2>1. Drop(b, n) = <<>> /\ Drop(b, Len(b)) = <<>>
    BY <1>4, <1>1, DropAll DEF Drop
  <2>2. Len(b) \in 0..Len(b)
    BY <1>1
  <2>3. Len(b) \in 0..Len(q) /\ Drop(b, Len(b)) \in Seq(T) /\ Drop(b, Len(b)) \o w = Drop(q, Len(b))
    BY <2>2, <1>2
  <2>4. Drop(b, n) = Drop(b, Len(b))
    BY <2>1
  <2> QED
    BY <2>3, <2>4, <1>4, <1>1 DEF q
<1> QED
  BY <1>1, <1>3, <1>4

LEMMA ConcatThree ==
  ASSUME NEW T, NEW a \in Seq(T), NEW b \in Seq(T), NEW c \in Seq(T)
  PROVE  a \o (b \o c) = (a \o b) \o c
<1>1. a \o b \in Seq(T) /\ b \o c \in Seq(T)
  OBVIOUS
<1> QED
  BY <1>1

-----------------------------------------------------------------------------
(***************************************************************************)
(* The traffic: each step of a message takes it from one place to the      *)
(* next.                                                                   *)
(***************************************************************************)
LEMMA TrafficAsk ==
  ASSUME NEW u \in Seq(Messages), NEW a \in SUBSET Messages, NEW S \in Seq(UnitType),
         Traffic(u, a, S), u # <<>>
  PROVE  /\ Traffic(Tail(u), a \cup {Head(u)}, S)
         /\ \A m : Flying(m, Tail(u), a \cup {Head(u)}, S) <=> Flying(m, u, a, S)
<1> DEFINE t == Tail(u)
           b == a \cup {Head(u)}
<1>1. /\ 1 \in DOMAIN u /\ Head(u) = u[1]
      /\ \A i \in DOMAIN t : i + 1 \in DOMAIN u /\ t[i] = u[i + 1] /\ i \in Nat /\ i >= 1
      /\ \A i \in DOMAIN u : i # 1 => i - 1 \in DOMAIN t /\ t[i - 1] = u[i]
  <2>1. Len(u) \in Nat \ {0} /\ DOMAIN u = 1..Len(u) /\ t \in Seq(Messages) /\ Len(t) = Len(u) - 1
        /\ Head(u) = u[1] /\ \A i \in 1..Len(t) : t[i] = u[i + 1]
    OBVIOUS
  <2>2. DOMAIN t = 1..Len(t)
    BY <2>1
  <2> HIDE DEF t
  <2>3. \A i \in DOMAIN t : i + 1 \in DOMAIN u /\ t[i] = u[i + 1] /\ i \in Nat /\ i >= 1
    BY <2>1, <2>2
  <2>4. ASSUME NEW i \in DOMAIN u, i # 1 PROVE i - 1 \in DOMAIN t /\ t[i - 1] = u[i]
    <3>1. i - 1 \in 1..Len(t) /\ (i - 1) + 1 = i
      BY <2>1, <2>4
    <3> QED
      BY <3>1, <2>1, <2>2
  <2> QED
    BY <2>1, <2>3, <2>4
<1>2. /\ \A i \in DOMAIN u : IsRequest(u[i])
      /\ \A m \in a : IsRequest(m)
      /\ \A i \in DOMAIN S : S[i].msg.id # IdZero => S[i].msg.call \in Calls
      /\ \A i, k \in DOMAIN u : u[i] = u[k] => i = k
      /\ \A i, k \in DOMAIN S : S[i] = S[k] /\ S[i].msg.id # IdZero => i = k
      /\ \A i \in DOMAIN u : u[i] \notin a /\ ~InUnits(u[i], S)
      /\ \A m \in a : ~InUnits(m, S)
  BY DEF Traffic, RequestsOnly, InOrderOnce
<1> HIDE DEF t
<1>3. \A m : InUp(m, u) <=> InUp(m, t) \/ m = Head(u)
  <2>1. ASSUME NEW m, InUp(m, u) PROVE InUp(m, t) \/ m = Head(u)
    BY <2>1, <1>1 DEF InUp
  <2>2. ASSUME NEW m, InUp(m, t) PROVE InUp(m, u)
    BY <2>2, <1>1 DEF InUp
  <2>3. InUp(Head(u), u)
    BY <1>1 DEF InUp
  <2> QED
    BY <2>1, <2>2, <2>3
<1>4. RequestsOnly(t, b, S)
  BY <1>1, <1>2 DEF RequestsOnly
<1>5. \A i, k \in DOMAIN t : t[i] = t[k] => i = k
  <2> SUFFICES ASSUME NEW i \in DOMAIN t, NEW k \in DOMAIN t, t[i] = t[k] PROVE i = k
    OBVIOUS
  <2>1. i + 1 = k + 1 /\ i \in Nat /\ k \in Nat
    BY <1>1, <1>2
  <2> QED
    BY <2>1
<1>6. \A i \in DOMAIN t : t[i] \notin b /\ ~InUnits(t[i], S)
  <2> SUFFICES ASSUME NEW i \in DOMAIN t PROVE t[i] \notin b /\ ~InUnits(t[i], S)
    OBVIOUS
  <2>1. i + 1 # 1
    BY <1>1
  <2>2. t[i] # Head(u)
    BY <2>1, <1>1, <1>2
  <2> QED
    BY <2>2, <1>1, <1>2
<1>7. \A m \in b : ~InUnits(m, S)
  BY <1>1, <1>2
<1>8. Traffic(t, b, S)
  BY <1>2, <1>4, <1>5, <1>6, <1>7 DEF Traffic, InOrderOnce
<1> QED
  BY <1>3, <1>8 DEF t, Flying

\* The units of a message, part by part.
LEMMA UnitsSeq ==
  ASSUME NEW m \in Messages
  PROVE  /\ Size(m) \in 2..3
         /\ Units(m) \in Seq(UnitType) /\ Len(Units(m)) = Size(m)
         /\ \A i \in 1..Size(m) : Units(m)[i] = [msg |-> m, part |-> i]
<1>1. Size(m) \in 2..3
  BY ChannelAssumption DEF Size
<1>2. \A i \in 1..Size(m) : [msg |-> m, part |-> i] \in UnitType
  BY <1>1 DEF UnitType
<1> DEFINE n == Size(m)
<1>3. n \in Nat /\ Units(m) = [i \in 1..n |-> [msg |-> m, part |-> i]]
  BY <1>1 DEF Units
<1> HIDE DEF n
<1>4. Units(m) \in Seq(UnitType) /\ Len(Units(m)) = n
  BY <1>2, <1>3 DEF n
<1> QED
  BY <1>1, <1>3, <1>4 DEF n

LEMMA UnitsAppended ==
  ASSUME NEW S \in Seq(UnitType), NEW m \in Messages
  PROVE  /\ S \o Units(m) \in Seq(UnitType) /\ Len(S \o Units(m)) = Len(S) + Size(m)
         /\ \A k \in 1..Len(S) : (S \o Units(m))[k] = S[k]
         /\ \A k \in 1..Size(m) : (S \o Units(m))[Len(S) + k] = [msg |-> m, part |-> k]
         /\ Len(S) \in Nat /\ Size(m) \in 2..3
         /\ \A i \in DOMAIN (S \o Units(m)) : i \in DOMAIN S \/ \E k \in 1..Size(m) : i = Len(S) + k
         /\ \A x : InUnits(x, S \o Units(m)) <=> InUnits(x, S) \/ x = m
<1> DEFINE U == Units(m)
           R == S \o U
           n == Size(m)
<1>1. n \in 2..3 /\ U \in Seq(UnitType) /\ Len(U) = n /\ \A i \in 1..n : U[i] = [msg |-> m, part |-> i]
  BY UnitsSeq
<1> HIDE DEF U, n
<1>2. /\ R \in Seq(UnitType) /\ Len(R) = Len(S) + n
      /\ \A k \in 1..Len(S) : R[k] = S[k]
      /\ \A k \in 1..n : R[Len(S) + k] = [msg |-> m, part |-> k]
  <2>1. /\ S \o U \in Seq(UnitType) /\ Len(S \o U) = Len(S) + Len(U)
        /\ \A k \in 1..Len(S) : (S \o U)[k] = S[k]
        /\ \A k \in 1..Len(U) : (S \o U)[Len(S) + k] = U[k]
    BY <1>1, ConcatSeq
  <2> QED
    BY <2>1, <1>1
<1> HIDE DEF R
<1>3. Len(S) \in Nat /\ DOMAIN S = 1..Len(S) /\ DOMAIN R = 1..Len(R)
  BY <1>2
<1>4. ASSUME NEW i \in DOMAIN R, i \notin DOMAIN S PROVE \E k \in 1..n : i = Len(S) + k
  <2>1. i - Len(S) \in 1..n /\ i = Len(S) + (i - Len(S))
    BY <1>1, <1>2, <1>3, <1>4
  <2> QED
    BY <2>1
<1>5. (\A i \in DOMAIN S : i \in DOMAIN R) /\ (\A k \in 1..n : Len(S) + k \in DOMAIN R)
  BY <1>1, <1>2, <1>3
<1>7. ASSUME NEW k \in 1..n PROVE R[Len(S) + k].msg = m
  <2>1. R[Len(S) + k] = [msg |-> m, part |-> k]
    BY <1>2
  <2> QED
    BY <2>1
<1>6. ASSUME NEW x PROVE InUnits(x, R) <=> InUnits(x, S) \/ x = m
  <2>1. InUnits(x, S) => InUnits(x, R)
    BY <1>2, <1>3, <1>5 DEF InUnits
  <2>2. InUnits(m, R)
    <3>1. 1 \in 1..n
      BY <1>1
    <3> QED
      BY <3>1, <1>7, <1>5 DEF InUnits
  <2>3. InUnits(x, R) => InUnits(x, S) \/ x = m
    BY <1>2, <1>3, <1>4, <1>7 DEF InUnits
  <2> QED
    BY <2>1, <2>2, <2>3
<1> QED
  BY <1>1, <1>2, <1>3, <1>4, <1>6 DEF U, R, n

\* A message that is not yet among the units, or a broadcast, is sent.
LEMMA TrafficSent ==
  ASSUME NEW u \in Seq(Messages), NEW a \in SUBSET Messages, NEW S \in Seq(UnitType),
         Traffic(u, a, S), NEW m \in Messages, m \in a \/ m.id = IdZero
  PROVE  /\ Traffic(u, a \ {m}, S \o Units(m))
         /\ \A x : x.id # IdZero => (Flying(x, u, a \ {m}, S \o Units(m)) <=> Flying(x, u, a, S))
<1> DEFINE R == S \o Units(m)
<1>1. /\ \A k \in 1..Len(S) : R[k] = S[k]
      /\ \A k \in 1..Size(m) : R[Len(S) + k] = [msg |-> m, part |-> k]
      /\ Len(S) \in Nat /\ Size(m) \in 2..3
      /\ \A i \in DOMAIN R : i \in DOMAIN S \/ \E k \in 1..Size(m) : i = Len(S) + k
      /\ \A x : InUnits(x, R) <=> InUnits(x, S) \/ x = m
      /\ DOMAIN S = 1..Len(S)
  BY UnitsAppended
<1>2. /\ \A i \in DOMAIN u : IsRequest(u[i])
      /\ \A x \in a : IsRequest(x)
      /\ \A i \in DOMAIN S : S[i].msg.id # IdZero => S[i].msg.call \in Calls
      /\ \A i, k \in DOMAIN u : u[i] = u[k] => i = k
      /\ \A i, k \in DOMAIN S : S[i] = S[k] /\ S[i].msg.id # IdZero => i = k
      /\ \A i \in DOMAIN u : u[i] \notin a /\ ~InUnits(u[i], S)
      /\ \A x \in a : ~InUnits(x, S)
  BY DEF Traffic, RequestsOnly, InOrderOnce
<1> HIDE DEF R
<1>3. IdZero \notin Ids
  BY DEF IdZero, Ids
<1>4. m.id # IdZero => m \in a /\ IsRequest(m) /\ ~InUnits(m, S)
  BY <1>2
<1>5. ASSUME NEW i \in DOMAIN R
      PROVE  \/ i \in DOMAIN S /\ R[i] = S[i]
             \/ \E k \in 1..Size(m) : i = Len(S) + k /\ R[i] = [msg |-> m, part |-> k]
  BY <1>1, ZenonT(40)
<1>6. RequestsOnly(u, a \ {m}, R)
  <2>1. ASSUME NEW i \in DOMAIN R, R[i].msg.id # IdZero PROVE R[i].msg.call \in Calls
    BY <2>1, <1>5, <1>2, <1>4 DEF IsRequest
  <2> QED
    BY <2>1, <1>2 DEF RequestsOnly
<1>7. ASSUME NEW i \in DOMAIN R, NEW k \in DOMAIN R, R[i] = R[k], R[i].msg.id # IdZero PROVE i = k
  <2>1. CASE R[i].msg = m
    <3>1. ~InUnits(m, S)
      BY <2>1, <1>7, <1>4
    <3>2. \E p \in 1..Size(m) : i = Len(S) + p /\ R[i] = [msg |-> m, part |-> p]
      BY <3>1, <2>1, <1>5 DEF InUnits
    <3>3. \E p \in 1..Size(m) : k = Len(S) + p /\ R[k] = [msg |-> m, part |-> p]
      BY <3>1, <2>1, <1>5, <1>7 DEF InUnits
    <3> QED
      BY <3>2, <3>3, <1>7
  <2>2. CASE R[i].msg # m
    BY <2>2, <1>5, <1>7, <1>2
  <2> QED
    BY <2>1, <2>2
<1>8. \A i \in DOMAIN u : u[i] \notin a \ {m} /\ ~InUnits(u[i], R)
  BY <1>1, <1>2, <1>3, <1>4 DEF IsRequest
<1>9. \A x \in a \ {m} : ~InUnits(x, R)
  BY <1>1, <1>2
<1>10. Traffic(u, a \ {m}, R)
  BY <1>2, <1>6, <1>7, <1>8, <1>9 DEF Traffic, InOrderOnce
<1>11. \A x : x.id # IdZero => (Flying(x, u, a \ {m}, R) <=> Flying(x, u, a, S))
  BY <1>1, <1>4 DEF Flying
<1> QED
  BY <1>10, <1>11 DEF R

\* Units are committed.
LEMMA TrafficDropped ==
  ASSUME NEW u \in Seq(Messages), NEW a \in SUBSET Messages, NEW S \in Seq(UnitType),
         Traffic(u, a, S), NEW n \in 0..Len(S)
  PROVE  /\ Traffic(u, a, Drop(S, n))
         /\ \A x : Flying(x, u, a, Drop(S, n)) => Flying(x, u, a, S)
<1> DEFINE R == Drop(S, n)
<1>1. \A i \in DOMAIN R : i + n \in DOMAIN S /\ R[i] = S[i + n] /\ i \in Nat /\ n \in Nat
  <2>1. /\ R \in Seq(UnitType) /\ Len(R) = Len(S) - n
        /\ \A i \in 1..(Len(S) - n) : R[i] = S[i + n]
    BY DropSeq
  <2> HIDE DEF R
  <2>2. DOMAIN R = 1..(Len(S) - n) /\ DOMAIN S = 1..Len(S) /\ Len(S) \in Nat
    BY <2>1
  <2> QED
    BY <2>1, <2>2
<1>2. /\ \A i \in DOMAIN u : IsRequest(u[i])
      /\ \A x \in a : IsRequest(x)
      /\ \A i \in DOMAIN S : S[i].msg.id # IdZero => S[i].msg.call \in Calls
      /\ \A i, k \in DOMAIN u : u[i] = u[k] => i = k
      /\ \A i, k \in DOMAIN S : S[i] = S[k] /\ S[i].msg.id # IdZero => i = k
      /\ \A i \in DOMAIN u : u[i] \notin a /\ ~InUnits(u[i], S)
      /\ \A x \in a : ~InUnits(x, S)
  BY DEF Traffic, RequestsOnly, InOrderOnce
<1> HIDE DEF R
<1>3. \A x : InUnits(x, R) => InUnits(x, S)
  BY <1>1 DEF InUnits
<1>4. RequestsOnly(u, a, R)
  BY <1>1, <1>2 DEF RequestsOnly
<1>5. ASSUME NEW i \in DOMAIN R, NEW k \in DOMAIN R, R[i] = R[k], R[i].msg.id # IdZero PROVE i = k
  <2>1. i + n = k + n
    BY <1>1, <1>2, <1>5
  <2> QED
    BY <2>1, <1>1
<1>6. Traffic(u, a, R)
  BY <1>2, <1>3, <1>4, <1>5 DEF Traffic, InOrderOnce
<1> QED
  BY <1>3, <1>6 DEF R, Flying

\* A request that is not on its way is sent.
LEMMA TrafficCalled ==
  ASSUME NEW u \in Seq(Messages), NEW a \in SUBSET Messages, NEW S \in Seq(UnitType),
         Traffic(u, a, S), NEW m \in Messages, IsRequest(m), ~Flying(m, u, a, S)
  PROVE  /\ Traffic(Append(u, m), a, S)
         /\ \A x : Flying(x, Append(u, m), a, S) <=> Flying(x, u, a, S) \/ x = m
<1> DEFINE t == Append(u, m)
           n == Len(u)
<1>1. /\ n \in Nat /\ DOMAIN u = 1..n /\ DOMAIN t = 1..n + 1
      /\ t[n + 1] = m /\ \A i \in DOMAIN u : t[i] = u[i]
  OBVIOUS
<1> HIDE DEF t, n
<1>2. \A i \in DOMAIN t : (i \in DOMAIN u /\ t[i] = u[i]) \/ (i = n + 1 /\ t[i] = m)
  BY <1>1
<1>3. /\ \A i \in DOMAIN u : IsRequest(u[i])
      /\ \A x \in a : IsRequest(x)
      /\ \A i \in DOMAIN S : S[i].msg.id # IdZero => S[i].msg.call \in Calls
      /\ \A i, k \in DOMAIN u : u[i] = u[k] => i = k
      /\ \A i, k \in DOMAIN S : S[i] = S[k] /\ S[i].msg.id # IdZero => i = k
      /\ \A i \in DOMAIN u : u[i] \notin a /\ ~InUnits(u[i], S)
      /\ \A x \in a : ~InUnits(x, S)
  BY DEF Traffic, RequestsOnly, InOrderOnce
<1>4. ~InUp(m, u) /\ m \notin a /\ ~InUnits(m, S)
  BY DEF Flying
<1>5. \A x : InUp(x, t) <=> InUp(x, u) \/ x = m
  <2>1. (\A i \in DOMAIN u : i \in DOMAIN t) /\ n + 1 \in DOMAIN t
    BY <1>1
  <2>2. ASSUME NEW x, InUp(x, t) PROVE InUp(x, u) \/ x = m
    BY <2>2, <1>2 DEF InUp
  <2>3. ASSUME NEW x, InUp(x, u) PROVE InUp(x, t)
    BY <2>3, <2>1, <1>1 DEF InUp
  <2>4. InUp(m, t)
    BY <2>1, <1>1 DEF InUp
  <2> QED
    BY <2>2, <2>3, <2>4
<1>6. \A i, k \in DOMAIN t : t[i] = t[k] => i = k
  <2> SUFFICES ASSUME NEW i \in DOMAIN t, NEW k \in DOMAIN t, t[i] = t[k] PROVE i = k
    OBVIOUS
  <2> QED
    BY <1>2, <1>3, <1>4 DEF InUp
<1>7. RequestsOnly(t, a, S)
  BY <1>2, <1>3 DEF RequestsOnly
<1>8. \A i \in DOMAIN t : t[i] \notin a /\ ~InUnits(t[i], S)
  BY <1>2, <1>3, <1>4
<1>9. Traffic(t, a, S)
  BY <1>3, <1>6, <1>7, <1>8 DEF Traffic, InOrderOnce
<1> QED
  BY <1>5, <1>9 DEF t, Flying

LEMMA TrafficEmpty ==
  Traffic(<<>>, {}, <<>>) /\ \A m : ~Flying(m, <<>>, {}, <<>>)
BY DEF Traffic, RequestsOnly, InOrderOnce, Flying, InUp, InUnits

-----------------------------------------------------------------------------
(***************************************************************************)
(* The calls of onRecvData under way.                                      *)
(***************************************************************************)
LoopFrame == [at |-> "loop", id |-> IdZero, live |-> TRUE]

LEMMA LoopFrameType ==
  LoopFrame \in FrameType /\ LoopFrame.at = "loop"
BY DEF LoopFrame, FrameType

LEMMA LastFrame ==
  ASSUME NEW st \in Seq(FrameType), st # <<>>
  PROVE  Len(st) \in Nat \ {0} /\ Len(st) \in DOMAIN st /\ DOMAIN st = 1..Len(st) /\ st[Len(st)] \in FrameType
  OBVIOUS

LEMMA StackLeave ==
  ASSUME NEW st \in Seq(FrameType), st # <<>>, st[Len(st)].at = "loop"
  PROVE  LET R == SubSeq(st, 1, Len(st) - 1) IN
         /\ R \in Seq(FrameType)
         /\ \A i : Runs(R, i) <=> Runs(st, i)
         /\ FrameIds(st) => FrameIds(R)
         /\ NoneBelow(st) => NoneBelow(R) /\ ~AtNotify(R)
<1> DEFINE R == SubSeq(st, 1, Len(st) - 1)
           n == Len(st)
<1>1. n \in Nat \ {0} /\ DOMAIN st = 1..n /\ n - 1 \in 0..Len(st)
  BY LastFrame
<1>2. R \in Seq(FrameType) /\ Len(R) = n - 1 /\ (\A k \in 1..(n - 1) : R[k] = st[k])
  BY <1>1, TakeSeq
<1>3. DOMAIN R = 1..(n - 1)
  BY <1>1, <1>2
<1> HIDE DEF R
<1>4. ASSUME NEW i PROVE Runs(R, i) <=> Runs(st, i)
  <2>1. ASSUME NEW k \in DOMAIN st, st[k].at = "callback" PROVE k \in DOMAIN R /\ R[k] = st[k]
    <3>1. k # n
      BY <2>1
    <3> QED
      BY <3>1, <1>1, <1>2, <1>3
  <2> QED
    BY <2>1, <1>1, <1>2, <1>3 DEF Runs
<1>5. FrameIds(st) => FrameIds(R)
  BY <1>1, <1>2, <1>3 DEF FrameIds
<1>6. ASSUME NoneBelow(st) PROVE NoneBelow(R) /\ ~AtNotify(R)
  <2>1. \A k \in DOMAIN R : R[k].at = "notify" => ~R[k].live
    BY <1>1, <1>2, <1>3, <1>6 DEF NoneBelow
  <2>2. R # <<>> => Len(R) \in DOMAIN R
    BY <1>2, LastFrame
  <2> QED
    BY <2>1, <2>2 DEF NoneBelow, AtNotify
<1> QED
  BY <1>2, <1>4, <1>5, <1>6 DEF R

LEMMA StackTop ==
  ASSUME NEW st \in Seq(FrameType), st # <<>>, NEW f \in FrameType
  PROVE  LET R == [st EXCEPT ![Len(st)] = f] IN
         /\ R \in Seq(FrameType) /\ Len(R) = Len(st) /\ R # <<>>
         /\ \A k \in DOMAIN st : R[k] = IF k = Len(st) THEN f ELSE st[k]
         /\ DOMAIN R = DOMAIN st
<1>1. Len(st) \in Nat \ {0} /\ Len(st) \in DOMAIN st /\ DOMAIN st = 1..Len(st)
  BY LastFrame
<1> DEFINE R == [st EXCEPT ![Len(st)] = f]
<1>2. R \in Seq(FrameType) /\ Len(R) = Len(st) /\ DOMAIN R = DOMAIN st
  BY <1>1
<1>3. \A k \in DOMAIN st : R[k] = IF k = Len(st) THEN f ELSE st[k]
  BY <1>1
<1>4. R # <<>>
  BY <1>1, <1>2
<1> QED
  BY <1>2, <1>3, <1>4

\* The top, which is no callback, becomes f.
LEMMA StackTopView ==
  ASSUME NEW st \in Seq(FrameType), st # <<>>, NEW f \in FrameType, st[Len(st)].at # "callback"
  PROVE  LET R == [st EXCEPT ![Len(st)] = f] IN
         /\ \A i : Runs(R, i) <=> Runs(st, i) \/ (f.at = "callback" /\ f.live /\ f.id = i)
         /\ FrameIds(st) /\ (f.at = "callback" => f.id \in Ids) => FrameIds(R)
         /\ NoneBelow(st) => NoneBelow(R)
         /\ AtNotify(R) <=> f.at = "notify" /\ f.live
<1> DEFINE R == [st EXCEPT ![Len(st)] = f]
           n == Len(st)
<1>1. /\ Len(R) = n /\ R # <<>> /\ n \in DOMAIN st /\ DOMAIN R = DOMAIN st
      /\ R[n] = f /\ \A k \in DOMAIN st : k # n => R[k] = st[k]
  BY StackTop, LastFrame
<1> HIDE DEF R, n
<1>2. st[n].at # "callback" /\ \A k \in DOMAIN st : k < n => k # n
  BY <1>1, LastFrame DEF n
<1>3. \A i : Runs(R, i) <=> Runs(st, i) \/ (f.at = "callback" /\ f.live /\ f.id = i)
  BY <1>1, <1>2 DEF Runs
<1>4. FrameIds(st) /\ (f.at = "callback" => f.id \in Ids) => FrameIds(R)
  BY <1>1 DEF FrameIds
<1>5. NoneBelow(st) => NoneBelow(R)
  BY <1>1, <1>2 DEF NoneBelow, n
<1>6. AtNotify(R) <=> f.at = "notify" /\ f.live
  BY <1>1 DEF AtNotify
<1> QED
  BY <1>3, <1>4, <1>5, <1>6 DEF R, n

LEMMA StackKill ==
  ASSUME NEW st \in Seq(FrameType), NEW kind
  PROVE  /\ Kill(st, kind) \in Seq(FrameType)
         /\ \A i : Runs(Kill(st, kind), i) <=> Runs(st, i) /\ kind # "callback"
         /\ FrameIds(st) => FrameIds(Kill(st, kind))
         /\ NoneBelow(st) \/ kind = "notify" => NoneBelow(Kill(st, kind))
         /\ AtNotify(Kill(st, kind)) <=> AtNotify(st) /\ kind # "notify"
         /\ Kill(st, kind) = <<>> <=> st = <<>>
<1> DEFINE R == Kill(st, kind)
           n == Len(st)
<1>1. n \in Nat /\ DOMAIN st = 1..n /\ \A k \in 1..n : st[k] \in FrameType
  OBVIOUS
<1> HIDE DEF n
<1>2. ASSUME NEW k \in 1..n
      PROVE  R[k] \in FrameType /\ R[k].at = st[k].at /\ R[k].id = st[k].id
             /\ (R[k].live <=> st[k].live /\ st[k].at # kind)
  <2>1. R[k] = IF st[k].at = kind THEN [st[k] EXCEPT !.live = FALSE] ELSE st[k]
    BY <1>1 DEF Kill
  <2>2. st[k] \in FrameType
    BY <1>1
  <2> QED
    BY <2>1, <2>2 DEF FrameType
<1>3. R = [k \in 1..n |-> R[k]]
  BY <1>1 DEF Kill
<1> HIDE DEF R
<1>4. R \in Seq(FrameType) /\ Len(R) = n /\ DOMAIN R = 1..n
  BY <1>1, <1>2, <1>3
<1>5. \A i : Runs(R, i) <=> Runs(st, i) /\ kind # "callback"
  BY <1>1, <1>2, <1>4 DEF Runs
<1>6. FrameIds(st) => FrameIds(R)
  BY <1>1, <1>2, <1>4 DEF FrameIds
<1>7. NoneBelow(st) \/ kind = "notify" => NoneBelow(R)
  BY <1>1, <1>2, <1>4 DEF NoneBelow, n
<1>8. R = <<>> <=> st = <<>>
  BY <1>1, <1>4 DEF n
<1>9. AtNotify(R) <=> AtNotify(st) /\ kind # "notify"
  <2>1. st # <<>> => n \in 1..n
    BY <1>1 DEF n
  <2> QED
    BY <2>1, <1>2, <1>4, <1>8 DEF AtNotify, n
<1> QED
  BY <1>4, <1>5, <1>6, <1>7, <1>8, <1>9 DEF R

LEMMA StackEnter ==
  ASSUME NEW st \in Seq(FrameType)
  PROVE  LET R == Append(st, LoopFrame) IN
         /\ R \in Seq(FrameType)
         /\ \A i : Runs(R, i) <=> Runs(st, i)
         /\ FrameIds(st) => FrameIds(R)
         /\ NoneBelow(st) /\ ~AtNotify(st) => NoneBelow(R)
         /\ ~AtNotify(R)
<1> DEFINE R == Append(st, LoopFrame)
           n == Len(st)
<1>1. /\ n \in Nat /\ DOMAIN st = 1..n /\ R \in Seq(FrameType) /\ Len(R) = n + 1 /\ DOMAIN R = 1..n + 1
      /\ R[n + 1] = LoopFrame /\ \A k \in 1..n : R[k] = st[k]
  BY LoopFrameType
<1>2. st # <<>> => n \in 1..n
  BY <1>1
<1>3. st = <<>> => n = 0
  OBVIOUS
<1> HIDE DEF R, n
<1>4. LoopFrame.at = "loop" /\ \A k \in DOMAIN R : (k \in DOMAIN st /\ R[k] = st[k]) \/ (k = n + 1 /\ R[k] = LoopFrame)
  BY <1>1, LoopFrameType
<1>5. \A k \in DOMAIN st : k \in DOMAIN R /\ R[k] = st[k]
  BY <1>1
<1>6. \A i : Runs(R, i) <=> Runs(st, i)
  BY <1>4, <1>5 DEF Runs
<1>7. FrameIds(st) => FrameIds(R)
  BY <1>4 DEF FrameIds
<1>8. ASSUME NoneBelow(st), ~AtNotify(st) PROVE NoneBelow(R)
  <2>1. \A k \in DOMAIN st : st[k].at = "notify" => ~st[k].live
    <3> SUFFICES ASSUME NEW k \in DOMAIN st, st[k].at = "notify" PROVE ~st[k].live
      OBVIOUS
    <3>1. CASE k = n
      BY <3>1, <1>8, <1>1, <1>3 DEF AtNotify, n
    <3>2. CASE k # n
      <4>1. k < n
        BY <3>2, <1>1
      <4> QED
        BY <4>1, <1>8 DEF NoneBelow, n
    <3> QED
      BY <3>1, <3>2
  <2> QED
    BY <2>1, <1>4 DEF NoneBelow
<1>9. ~AtNotify(R)
  BY <1>1, <1>4 DEF AtNotify
<1> QED
  BY <1>1, <1>6, <1>7, <1>8, <1>9 DEF R

LEMMA StackReturn ==
  ASSUME NEW st \in Seq(FrameType), st # <<>>, st[Len(st)].at = "callback"
  PROVE  LET id == st[Len(st)].id
             R == KillEntry([st EXCEPT ![Len(st)] = LoopFrame], id) IN
         /\ R \in Seq(FrameType)
         /\ \A i : Runs(R, i) <=> Runs(st, i) /\ i # id
         /\ FrameIds(st) => FrameIds(R)
         /\ NoneBelow(st) => NoneBelow(R)
         /\ ~AtNotify(R)
<1> DEFINE id == st[Len(st)].id
           T == [st EXCEPT ![Len(st)] = LoopFrame]
           R == KillEntry(T, id)
           n == Len(st)
<1>1. /\ n \in Nat \ {0} /\ DOMAIN st = 1..n /\ DOMAIN T = 1..n /\ T \in Seq(FrameType) /\ Len(T) = n
      /\ T[n] = LoopFrame /\ (\A k \in 1..n : k # n => T[k] = st[k]) /\ \A k \in 1..n : T[k] \in FrameType
  <2>1. /\ T \in Seq(FrameType) /\ Len(T) = Len(st) /\ DOMAIN T = DOMAIN st
        /\ \A k \in DOMAIN st : T[k] = IF k = Len(st) THEN LoopFrame ELSE st[k]
    BY StackTop, LoopFrameType
  <2>2. n \in Nat \ {0} /\ DOMAIN st = 1..n /\ n \in DOMAIN st
    BY LastFrame
  <2> HIDE DEF T
  <2>3. \A k \in 1..n : T[k] \in FrameType
    BY <2>1, <2>2
  <2> QED
    BY <2>1, <2>2, <2>3
<1>2. st[n].at = "callback" /\ st[n].id = id
  OBVIOUS
<1> HIDE DEF n, T, id
<1>3. ASSUME NEW k \in 1..n
      PROVE  R[k] \in FrameType /\ R[k].at = T[k].at /\ R[k].id = T[k].id
             /\ (R[k].live <=> T[k].live /\ ~(T[k].at = "callback" /\ T[k].id = id))
  <2>1. R[k] = IF T[k].at = "callback" /\ T[k].id = id THEN [T[k] EXCEPT !.live = FALSE] ELSE T[k]
    BY <1>1 DEF KillEntry
  <2>2. T[k] \in FrameType
    BY <1>1
  <2> QED
    BY <2>1, <2>2 DEF FrameType
<1>4. R = [k \in 1..n |-> R[k]]
  BY <1>1 DEF KillEntry
<1> HIDE DEF R
<1>5. R \in Seq(FrameType) /\ Len(R) = n /\ DOMAIN R = 1..n
  BY <1>1, <1>3, <1>4, SMTT(30)
<1>6. n \in 1..n /\ R[n].at = "loop"
  BY <1>1, <1>3, LoopFrameType
<1>7. ASSUME NEW k \in 1..n, k # n
      PROVE  R[k].at = st[k].at /\ R[k].id = st[k].id
             /\ (R[k].live <=> st[k].live /\ ~(st[k].at = "callback" /\ st[k].id = id))
  BY <1>1, <1>3, <1>7
<1>8. ASSUME NEW i PROVE Runs(R, i) <=> Runs(st, i) /\ i # id
  <2>1. ASSUME Runs(R, i) PROVE Runs(st, i) /\ i # id
    <3>1. PICK k \in 1..n : R[k].at = "callback" /\ R[k].live /\ R[k].id = i
      BY <2>1, <1>5 DEF Runs
    <3>2. k # n
      BY <3>1, <1>6
    <3> QED
      BY <3>1, <3>2, <1>7, <1>1 DEF Runs
  <2>2. ASSUME Runs(st, i), i # id PROVE Runs(R, i)
    <3>1. PICK k \in 1..n : st[k].at = "callback" /\ st[k].live /\ st[k].id = i
      BY <2>2, <1>1 DEF Runs
    <3>2. k # n
      BY <3>1, <2>2, <1>2
    <3> QED
      BY <3>1, <3>2, <2>2, <1>7, <1>5 DEF Runs
  <2> QED
    BY <2>1, <2>2
<1>9. FrameIds(st) => FrameIds(R)
  BY <1>1, <1>5, <1>6, <1>7 DEF FrameIds
<1>10. NoneBelow(st) => NoneBelow(R)
  <2>1. \A k \in 1..n : k < n => k # n
    BY <1>1
  <2> QED
    BY <2>1, <1>1, <1>5, <1>7 DEF NoneBelow, n
<1>11. ~AtNotify(R)
  BY <1>5, <1>6 DEF AtNotify
<1> QED
  BY <1>5, <1>8, <1>9, <1>10, <1>11 DEF R, T, id, n

-----------------------------------------------------------------------------
(***************************************************************************)
(* What the steps do to the stream and to the stack.                       *)
(***************************************************************************)
LEMMA StreamType ==
  ASSUME TypeOK
  PROVE  /\ Stream \in Seq(UnitType) /\ Len(Stream) = Len(inbuf) + Len(wire)
         /\ Len(inbuf) \in Nat /\ Len(wire) \in Nat
         /\ \A k \in 1..Len(inbuf) : Stream[k] = inbuf[k]
         /\ \A k \in 1..Len(wire) : Stream[Len(inbuf) + k] = wire[k]
  <1>1. inbuf \in Seq(UnitType) /\ wire \in Seq(UnitType)
    BY DEF TypeOK
  <1> QED
    BY <1>1, ConcatSeq DEF Stream

LEMMA DeliverFacts ==
  ASSUME TypeOK, NEW n \in 1..Len(wire), NEW moved \in BOOLEAN, Deliver(n, moved)
  PROVE  /\ inbuf' \in Seq(UnitType) /\ wire' \in Seq(UnitType) /\ Len(inbuf') >= Len(inbuf)
         /\ Stream' = Stream
         /\ stack' \in Seq(FrameType)
         /\ \A i : Runs(stack', i) <=> Runs(stack, i)
         /\ FrameIds(stack) => FrameIds(stack')
         /\ NoneBelow(stack) /\ ~AtNotify(stack) => NoneBelow(stack')
         /\ ~AtNotify(stack')
<1>1. inbuf \in Seq(UnitType) /\ wire \in Seq(UnitType) /\ stack \in Seq(FrameType)
  BY DEF TypeOK
<1>2. /\ inbuf' = inbuf \o SubSeq(wire, 1, n) /\ wire' = Drop(wire, n)
      /\ stack' = Append(IF moved THEN Kill(stack, "notify") ELSE stack, LoopFrame)
  BY DEF Deliver, Drop, LoopFrame
<1>3. /\ inbuf' \in Seq(UnitType) /\ wire' \in Seq(UnitType) /\ Len(inbuf') = Len(inbuf) + n
      /\ inbuf' \o wire' = inbuf \o wire
  <2>1. /\ inbuf \o SubSeq(wire, 1, n) \in Seq(UnitType) /\ Drop(wire, n) \in Seq(UnitType)
        /\ Len(inbuf \o SubSeq(wire, 1, n)) = Len(inbuf) + n
        /\ (inbuf \o SubSeq(wire, 1, n)) \o Drop(wire, n) = inbuf \o wire
    BY <1>1, DeliverStream, SMTT(30)
  <2> QED
    BY ONLY <2>1, <1>2
<1>4. Len(inbuf') >= Len(inbuf)
  <2>1. Len(inbuf) \in Nat /\ n \in Nat
    BY <1>1
  <2> QED
    BY <2>1, <1>3
<1>5. Stream' = Stream
  BY <1>3 DEF Stream
<1> DEFINE st == IF moved THEN Kill(stack, "notify") ELSE stack
<1>6. /\ st \in Seq(FrameType)
      /\ \A i : Runs(st, i) <=> Runs(stack, i)
      /\ FrameIds(stack) => FrameIds(st)
      /\ NoneBelow(stack) => NoneBelow(st)
      /\ AtNotify(st) => AtNotify(stack)
  BY <1>1, StackKill
<1>7. stack' = Append(st, LoopFrame)
  BY <1>2
<1> HIDE DEF st
<1>8. /\ stack' \in Seq(FrameType)
      /\ \A i : Runs(stack', i) <=> Runs(st, i)
      /\ FrameIds(st) => FrameIds(stack')
      /\ NoneBelow(st) /\ ~AtNotify(st) => NoneBelow(stack')
      /\ ~AtNotify(stack')
  BY <1>6, <1>7, StackEnter
<1> QED
  BY <1>3, <1>4, <1>5, <1>6, <1>8

LEMMA CommitFacts ==
  ASSUME TypeOK, NEW len \in Nat, Commit(len), wire' = wire
  PROVE  /\ inbuf' \in Seq(UnitType) /\ pos' = 0
         /\ \E k \in 0..Len(Stream) : Stream' = Drop(Stream, k) /\ (len <= Len(inbuf) => k = len)
<1>1. inbuf \in Seq(UnitType) /\ wire \in Seq(UnitType)
  BY DEF TypeOK
<1>2. inbuf' = Drop(inbuf, len) /\ pos' = 0
  BY DEF Commit, Rest, Drop
<1>3. /\ Drop(inbuf, len) \in Seq(UnitType)
      /\ len <= Len(inbuf) => len \in 0..Len(Stream) /\ Drop(inbuf, len) \o wire = Drop(Stream, len)
      /\ len > Len(inbuf) => Len(inbuf) \in 0..Len(Stream) /\ Drop(inbuf, len) \o wire = Drop(Stream, Len(inbuf))
  BY <1>1, RestStream DEF Stream
<1>4. Stream' = Drop(inbuf, len) \o wire
  BY <1>2 DEF Stream
<1>5. Len(inbuf) \in Nat
  BY <1>1
<1>6. CASE len <= Len(inbuf)
  BY <1>2, <1>3, <1>4, <1>6
<1>7. CASE len > Len(inbuf)
  <2>1. ~(len <= Len(inbuf))
    BY <1>5, <1>7
  <2> QED
    BY <1>2, <1>3, <1>4, <1>7, <2>1
<1> QED
  BY <1>5, <1>6, <1>7

LEMMA TopFacts ==
  ASSUME TypeOK, stack # <<>>
  PROVE  stack \in Seq(FrameType) /\ Top = stack[Len(stack)] /\ Top \in FrameType
BY LastFrame DEF TypeOK, Top

LEMMA LeaveFacts ==
  ASSUME TypeOK, Inside("loop")
  PROVE  /\ Leave \in Seq(FrameType)
         /\ \A i : Runs(Leave, i) <=> Runs(stack, i)
         /\ FrameIds(stack) => FrameIds(Leave)
         /\ NoneBelow(stack) => NoneBelow(Leave) /\ ~AtNotify(Leave)
         /\ ~AtNotify(stack)
<1>1. stack # <<>> /\ stack[Len(stack)].at = "loop" /\ stack \in Seq(FrameType)
  BY DEF Inside, Top, TypeOK
<1> QED
  BY <1>1, StackLeave DEF Leave, AtNotify

LEMMA TopNowFacts ==
  ASSUME TypeOK, stack # <<>>, Top.at # "callback", NEW f \in FrameType
  PROVE  /\ TopNow(f) \in Seq(FrameType)
         /\ \A i : Runs(TopNow(f), i) <=> Runs(stack, i) \/ (f.at = "callback" /\ f.live /\ f.id = i)
         /\ FrameIds(stack) /\ (f.at = "callback" => f.id \in Ids) => FrameIds(TopNow(f))
         /\ NoneBelow(stack) => NoneBelow(TopNow(f))
         /\ AtNotify(TopNow(f)) <=> f.at = "notify" /\ f.live
<1>1. stack[Len(stack)].at # "callback" /\ stack \in Seq(FrameType)
  BY DEF Top, TypeOK
<1> QED
  BY <1>1, StackTop, StackTopView DEF TopNow

LEMMA ReturnFacts ==
  ASSUME TypeOK, CallbackReturns
  PROVE  /\ Top.id \in {IdZero} \cup Ids
         /\ stack' \in Seq(FrameType)
         /\ \A i : Runs(stack', i) <=> Runs(stack, i) /\ i # Top.id
         /\ FrameIds(stack) => FrameIds(stack')
         /\ NoneBelow(stack) => NoneBelow(stack')
         /\ ~AtNotify(stack') /\ ~AtNotify(stack)
         /\ Runs(stack, Top.id)
<1>1. /\ stack # <<>> /\ stack[Len(stack)].at = "callback" /\ stack \in Seq(FrameType)
      /\ Top = stack[Len(stack)] /\ Top.live /\ Top.at = "callback"
      /\ stack' = KillEntry([stack EXCEPT ![Len(stack)] = LoopFrame], Top.id)
  BY DEF CallbackReturns, Inside, Top, TypeOK, TopNow, LoopFrame
<1>2. Top.id \in {IdZero} \cup Ids
  BY <1>1, TopFacts DEF FrameType
<1>3. Runs(stack, Top.id)
  <2>1. Len(stack) \in DOMAIN stack
    BY <1>1, LastFrame
  <2> QED
    BY <1>1, <2>1 DEF Runs
<1>4. ~AtNotify(stack)
  BY <1>1 DEF AtNotify
<1> QED
  BY <1>1, <1>2, <1>3, <1>4, StackReturn

\* The message at the read position.
LEMMA MessageFacts ==
  ASSUME TypeOK, HasMessage
  PROVE  /\ Message \in Messages /\ Size(Message) \in 2..3
         /\ pos + Size(Message) <= Len(inbuf) /\ pos + 1 \in 1..Len(inbuf)
         /\ inbuf[pos + 1].part = 1 /\ inbuf[pos + 1].msg = Message
         /\ InUnits(Message, Stream)
         /\ stack # <<>> /\ Top.at = "loop" /\ ~AtNotify(stack)
<1>1. /\ stack # <<>> /\ Top.at = "loop" /\ ~AtNotify(stack)
  BY DEF HasMessage, Inside, AtNotify, Top
<1>2. Header.part = 1 /\ Header = inbuf[pos + 1] /\ Message = Header.msg /\ Len(inbuf) - pos >= 1
  BY DEF HasMessage, BadHeader, Header, Message, HeaderSize
<1>3. inbuf \in Seq(UnitType) /\ pos \in 0..Len(inbuf) /\ Len(inbuf) \in Nat
  BY DEF TypeOK
<1>4. pos + 1 \in 1..Len(inbuf)
  BY <1>2, <1>3
<1>5. inbuf[pos + 1] \in UnitType
  BY <1>3, <1>4
<1>6. Message \in Messages
  BY <1>2, <1>5 DEF UnitType
<1>7. Size(Message) \in 2..3
  BY <1>6, UnitsSeq
<1>8. Len(inbuf) - pos >= Size(Message)
  BY DEF HasMessage, PayloadThere
<1>9. pos + Size(Message) <= Len(inbuf)
  BY <1>3, <1>7, <1>8
<1>10. InUnits(Message, Stream)
  <2>1. /\ Stream \in Seq(UnitType) /\ Len(Stream) = Len(inbuf) + Len(wire) /\ Len(wire) \in Nat
        /\ Stream[pos + 1] = inbuf[pos + 1]
    BY <1>4, StreamType
  <2>2. pos + 1 \in DOMAIN Stream
    BY <2>1, <1>3, <1>4
  <2> QED
    BY <2>1, <2>2, <1>2 DEF InUnits
<1> QED
  BY <1>1, <1>2, <1>4, <1>6, <1>7, <1>9, <1>10

-----------------------------------------------------------------------------
(***************************************************************************)
(* Sequence ids.                                                           *)
(***************************************************************************)
LEMMA CallsFinite ==
  /\ IsFiniteSet(Calls) /\ Cardinality(Calls) \in Nat /\ MaxId \in Nat \ {0}
  /\ MaxId > Cardinality(Calls) /\ NoCall \notin Calls
<1>1. IsFiniteSet(Calls) /\ MaxId \in Nat /\ MaxId > Cardinality(Calls) /\ NoCall \notin Calls
  BY ChannelAssumption
<1>2. Cardinality(Calls) \in Nat
  BY <1>1, FS_CardinalityType
<1> QED
  BY <1>1, <1>2

LEMMA NextId ==
  ASSUME TypeOK
  PROVE  NextSeq \in Ids /\ seq \in 0..MaxId /\ NextSeq = IF seq = MaxId THEN 1 ELSE seq + 1
<1>1. seq \in 0..MaxId /\ MaxId \in Nat \ {0}
  BY CallsFinite DEF TypeOK, IdZero, Ids
<1>2. CASE seq = MaxId
  <2>1. (seq + 1) % (MaxId + 1) = 0
    BY <1>1, <1>2
  <2> QED
    BY <2>1, <1>1, <1>2 DEF NextSeq, IdZero, Ids
<1>3. CASE seq # MaxId
  <2>1. seq + 1 \in 1..MaxId
    BY <1>1, <1>3
  <2>2. (seq + 1) % (MaxId + 1) = seq + 1
    BY <1>1, <2>1
  <2> DEFINE n == (seq + 1) % (MaxId + 1)
  <2>3. NextSeq = IF n = 0 THEN 1 ELSE n
    BY DEF NextSeq, IdZero
  <2>4. n = seq + 1
    BY <2>2
  <2> HIDE DEF n
  <2> QED
    BY <2>1, <2>3, <2>4, <1>1, <1>3 DEF Ids
<1> QED
  BY <1>1, <1>2, <1>3

\* The ids grow older together, and the next id is the oldest.
LEMMA Ages ==
  ASSUME TypeOK
  PROVE  /\ \A i \in Ids : i # NextSeq => Age(NextSeq, i) = Age(seq, i) + 1
         /\ Age(NextSeq, NextSeq) = 0
         /\ Age(seq, NextSeq) = MaxId - 1
         /\ \A i \in Ids : Age(seq, i) \in Int
<1>1. seq \in 0..MaxId /\ NextSeq = (IF seq = MaxId THEN 1 ELSE seq + 1) /\ MaxId \in Nat \ {0}
  BY NextId, CallsFinite
<1> DEFINE s == seq
           t == NextSeq
<1>2. s \in 0..MaxId /\ t = (IF s = MaxId THEN 1 ELSE s + 1)
  BY <1>1
<1> HIDE DEF s, t
<1>3. \A i \in 1..MaxId : i # t => Age(t, i) = Age(s, i) + 1
  BY <1>1, <1>2 DEF Age
<1>4. Age(t, t) = 0 /\ Age(s, t) = MaxId - 1 /\ \A i \in 1..MaxId : Age(s, i) \in Int
  BY <1>1, <1>2 DEF Age
<1> QED
  BY <1>3, <1>4 DEF s, t, Ids

LEMMA MadeCount ==
  ASSUME TypeOK
  PROVE  /\ IsFiniteSet(made) /\ Cardinality(made) \in Nat
         /\ \A c \in Calls \ made : /\ Cardinality(made \cup {c}) = Cardinality(made) + 1
                                    /\ Cardinality(made) < Cardinality(Calls)
<1>1. made \subseteq Calls
  BY DEF TypeOK
<1>2. IsFiniteSet(made) /\ Cardinality(made) \in Nat
  BY <1>1, CallsFinite, FS_Subset, FS_CardinalityType
<1>3. ASSUME NEW c \in Calls \ made
      PROVE  Cardinality(made \cup {c}) = Cardinality(made) + 1 /\ Cardinality(made) < Cardinality(Calls)
  <2>1. Cardinality(made \cup {c}) = Cardinality(made) + 1
    BY <1>2, FS_AddElement
  <2>2. made \cup {c} \subseteq Calls
    BY <1>1
  <2>3. Cardinality(made \cup {c}) <= Cardinality(Calls)
    BY <2>2, CallsFinite, FS_Subset
  <2> QED
    BY <2>1, <2>3, <1>2, CallsFinite
<1> QED
  BY <1>2, <1>3

\* So the next id is free.
LEMMA NextIdFree ==
  ASSUME TypeOK, IdInv, NEW c \in Calls \ made
  PROVE  /\ ~InUse(NextSeq)
         /\ \A i \in Ids : InUse(i) => i # NextSeq /\ Age(NextSeq, i) < Cardinality(made \cup {c})
         /\ Age(NextSeq, NextSeq) < Cardinality(made \cup {c})
<1>1. /\ Cardinality(made) \in Nat /\ Cardinality(made \cup {c}) = Cardinality(made) + 1
      /\ Cardinality(made) < Cardinality(Calls)
  BY MadeCount
<1>2. /\ \A i \in Ids : i # NextSeq => Age(NextSeq, i) = Age(seq, i) + 1
      /\ Age(NextSeq, NextSeq) = 0
      /\ Age(seq, NextSeq) = MaxId - 1
      /\ \A i \in Ids : Age(seq, i) \in Int
  BY Ages
<1>3. NextSeq \in Ids
  BY NextId
<1>4. ~InUse(NextSeq)
  <2> SUFFICES ASSUME InUse(NextSeq) PROVE FALSE
    OBVIOUS
  <2>1. MaxId - 1 < Cardinality(made)
    BY <1>2, <1>3 DEF IdInv
  <2> QED
    BY <2>1, <1>1, CallsFinite
<1>5. ASSUME NEW i \in Ids, InUse(i) PROVE i # NextSeq /\ Age(NextSeq, i) < Cardinality(made \cup {c})
  <2>1. i # NextSeq
    BY <1>4, <1>5
  <2>2. Age(seq, i) < Cardinality(made) /\ Age(NextSeq, i) = Age(seq, i) + 1 /\ Age(seq, i) \in Int
    BY <2>1, <1>2, <1>5 DEF IdInv
  <2> QED
    BY <2>1, <2>2, <1>1
<1>6. 0 < Cardinality(made \cup {c})
  BY <1>1
<1> QED
  BY <1>2, <1>4, <1>5, <1>6

-----------------------------------------------------------------------------
(***************************************************************************)
(* Types.                                                                  *)
(***************************************************************************)
LEMMA ClearedType ==
  ASSUME TypeOK, NEW st \in Seq(FrameType), Cleared(st)
  PROVE  TypeOK'
<1>1. stack' \in Seq(FrameType)
  <2>1. Kill(st, "callback") \in Seq(FrameType)
    BY StackKill
  <2>2. Kill(Kill(st, "callback"), "notify") \in Seq(FrameType)
    BY <2>1, StackKill
  <2> QED
    BY <2>2 DEF Cleared
<1>2. /\ state' = "unconnected" /\ cobs' \in [Ids -> Calls \cup {NoCall}]
      /\ inbuf' = <<>> /\ pos' = 0 /\ broken' = FALSE /\ up' = <<>> /\ asked' = {} /\ wire' = <<>>
      /\ UNCHANGED <<seq, undefined, made, ran, notifies, connects>>
  BY DEF Cleared
<1>3. inbuf' \in Seq(UnitType) /\ wire' \in Seq(UnitType) /\ up' \in Seq(Messages) /\ pos' \in 0..Len(inbuf')
  BY <1>2
<1> QED
  BY <1>1, <1>2, <1>3 DEF TypeOK

LEMMA MakeType ==
  ASSUME TypeOK, NEW c \in Calls, Refused(c) \/ Send(c) \/ SendFails(c)
  PROVE  TypeOK'
<1>1. NextSeq \in Ids
  BY NextId
<1>2. made \cup {c} \subseteq Calls
  BY DEF TypeOK
<1>3. [ran EXCEPT ![c] = Append(@, NoCall)] \in [Calls -> Seq(Calls \cup {NoCall})]
  <2>1. ran \in [Calls -> Seq(Calls \cup {NoCall})]
    BY DEF TypeOK
  <2>2. Append(ran[c], NoCall) \in Seq(Calls \cup {NoCall})
    BY <2>1
  <2> QED
    BY <2>1, <2>2
<1>4. CASE Refused(c)
  BY <1>2, <1>3, <1>4 DEF TypeOK, Refused, RunCallback, link
<1>5. CASE Send(c)
  <2>1. [id |-> NextSeq, call |-> c] \in Messages
    BY <1>1 DEF Messages
  <2>2. up' \in Seq(Messages)
    BY <2>1, <1>5 DEF Send, TypeOK
  <2>3. cobs' \in [Ids -> Calls \cup {NoCall}]
    BY <1>5 DEF Send, TypeOK
  <2> QED
    BY <2>2, <2>3, <1>1, <1>2, <1>5 DEF Send, TypeOK
<1>6. CASE SendFails(c)
  <2>1. cobs' \in [Ids -> Calls \cup {NoCall}]
    BY <1>6 DEF SendFails, EraseEntry, TypeOK
  <2> QED
    BY <2>1, <1>1, <1>2, <1>3, <1>6 DEF SendFails, RunCallback, TypeOK, link
<1> QED
  BY <1>4, <1>5, <1>6

LEMMA LinkType ==
  ASSUME TypeOK, Ask \/ (\E r \in asked : Reply(r)) \/ Broadcast
  PROVE  TypeOK'
<1>1. inbuf \in Seq(UnitType) /\ wire \in Seq(UnitType) /\ up \in Seq(Messages) /\ asked \subseteq Messages
  BY DEF TypeOK
<1>2. ASSUME NEW m \in Messages PROVE wire \o Units(m) \in Seq(UnitType)
  BY <1>1, UnitsAppended
<1>3. CASE Ask
  <2>1. Tail(up) \in Seq(Messages) /\ Head(up) \in Messages
    BY <1>1, <1>3 DEF Ask
  <2> QED
    BY <2>1, <1>3 DEF Ask, TypeOK
<1>4. ASSUME NEW r \in asked, Reply(r) PROVE TypeOK'
  <2>1. wire' \in Seq(UnitType)
    BY <1>1, <1>2, <1>4 DEF Reply
  <2> QED
    BY <2>1, <1>4 DEF Reply, TypeOK
<1>5. CASE Broadcast
  <2>1. [id |-> IdZero, call |-> NoCall] \in Messages
    BY DEF Messages
  <2>2. wire' \in Seq(UnitType)
    BY <1>2, <1>5, <2>1 DEF Broadcast
  <2> QED
    BY <2>2, <1>5 DEF Broadcast, TypeOK
<1> QED
  BY <1>3, <1>4, <1>5

LEMMA DeliverType ==
  ASSUME TypeOK, NEW n \in 1..Len(wire), NEW moved \in BOOLEAN, Deliver(n, moved)
  PROVE  TypeOK'
<1>1. inbuf' \in Seq(UnitType) /\ wire' \in Seq(UnitType) /\ Len(inbuf') >= Len(inbuf) /\ stack' \in Seq(FrameType)
  BY DeliverFacts
<1>2. pos' \in 0..Len(inbuf')
  <2>1. Len(inbuf) \in Nat /\ Len(inbuf') \in Nat /\ pos \in 0..Len(inbuf) /\ pos' = pos
    BY <1>1 DEF TypeOK, Deliver
  <2> QED
    BY <2>1, <1>1
<1>3. broken' \in BOOLEAN
  BY DEF Deliver, TypeOK
<1> QED
  BY <1>1, <1>2, <1>3 DEF Deliver, TypeOK

LEMMA FrameTypes ==
  /\ LoopFrame \in FrameType
  /\ [at |-> "notify", id |-> IdZero, live |-> TRUE] \in FrameType
  /\ \A i \in Ids : [at |-> "callback", id |-> i, live |-> TRUE] \in FrameType
BY DEF LoopFrame, FrameType

LEMMA LoopType ==
  ASSUME TypeOK, Loop
  PROVE  TypeOK'
<1>1. Inside("loop") => Leave \in Seq(FrameType)
  BY LeaveFacts
<1>2. CASE LoopEnds
  BY <1>1, <1>2 DEF LoopEnds, TypeOK, link
<1>3. CASE LoopCloses
  BY <1>1, <1>3, ClearedType DEF LoopCloses
<1>4. CASE LoopUnreads
  <2>1. 0 \in 0..Len(inbuf)
    BY DEF TypeOK
  <2> QED
    BY <2>1, <1>1, <1>4 DEF LoopUnreads, TypeOK, link
<1>5. CASE HandleNotify
  <2>1. /\ stack # <<>> /\ Top.at # "callback" /\ Size(Message) \in 2..3 /\ pos + Size(Message) <= Len(inbuf)
    BY <1>5, MessageFacts DEF HandleNotify
  <2>2. stack' \in Seq(FrameType)
    BY <1>5, <2>1, FrameTypes, TopNowFacts DEF HandleNotify
  <2>3. pos' \in 0..Len(inbuf)
    <3>1. pos \in 0..Len(inbuf) /\ Len(inbuf) \in Nat
      BY DEF TypeOK
    <3>2. pos' = pos + Size(Message)
      BY <1>5 DEF HandleNotify
    <3> DEFINE z == Size(Message)
    <3>3. z \in 2..3 /\ pos + z <= Len(inbuf) /\ pos' = pos + z
      BY <2>1, <3>2
    <3> HIDE DEF z
    <3> QED
      BY <3>1, <3>3
  <2> QED
    BY <2>2, <2>3, <1>5 DEF HandleNotify, TypeOK, link
<1>6. CASE HandleAnswer
  <2>1. /\ stack # <<>> /\ Top.at # "callback" /\ Message \in Messages /\ Size(Message) \in Nat
        /\ Message.id # IdZero /\ cobs[Message.id] # NoCall
    BY <1>6, MessageFacts DEF HandleAnswer, Cob
  <2>2. Message.id \in Ids /\ Message.call \in Calls \cup {NoCall} /\ cobs[Message.id] \in Calls
    BY <2>1 DEF Messages, TypeOK
  <2>3. stack' \in Seq(FrameType)
    <3> DEFINE f == [at |-> "callback", id |-> Message.id, live |-> TRUE]
    <3>1. f \in FrameType
      BY <2>2, FrameTypes
    <3>2. stack' = Kill(TopNow(f), "notify")
      BY <1>6 DEF HandleAnswer
    <3> HIDE DEF f
    <3>3. TopNow(f) \in Seq(FrameType)
      BY <2>1, <3>1, TopNowFacts
    <3> QED
      BY <3>2, <3>3, StackKill
  <2>4. inbuf' \in Seq(UnitType) /\ pos' = 0
    BY <1>6, <2>1, CommitFacts DEF HandleAnswer, link
  <2>5. pos' \in 0..Len(inbuf')
    BY <2>4
  <2>6. ran' \in [Calls -> Seq(Calls \cup {NoCall})]
    <3> DEFINE d == cobs[Message.id]
               x == Message.call
    <3>1. ran' = [ran EXCEPT ![d] = Append(@, x)]
      BY <1>6 DEF HandleAnswer, RunCallback, Cob
    <3>2. d \in Calls /\ x \in Calls \cup {NoCall} /\ ran \in [Calls -> Seq(Calls \cup {NoCall})]
      BY <2>2 DEF TypeOK
    <3> HIDE DEF d, x
    <3>3. Append(ran[d], x) \in Seq(Calls \cup {NoCall})
      BY <3>2
    <3> QED
      BY <3>1, <3>2, <3>3
  <2> QED
    BY <2>3, <2>4, <2>5, <2>6, <1>6 DEF HandleAnswer, TypeOK, link
<1>7. CASE HandleUnknown
  BY <1>1, <1>7, ClearedType DEF HandleUnknown, HasMessage
<1> QED
  BY <1>2, <1>3, <1>4, <1>5, <1>6, <1>7 DEF Loop

LEMMA ReturnsType ==
  ASSUME TypeOK, Returns
  PROVE  TypeOK'
<1>1. ASSUME Inside("notify") PROVE TopNow(LoopFrame) \in Seq(FrameType) /\ Kill(TopNow(LoopFrame), "notify") \in Seq(FrameType)
  <2>1. stack # <<>> /\ Top.at # "callback"
    BY <1>1 DEF Inside
  <2>2. TopNow(LoopFrame) \in Seq(FrameType)
    BY <2>1, FrameTypes, TopNowFacts
  <2> QED
    BY <2>2, StackKill
<1>2. CASE NotifyReturns
  <2>1. NotifySize \in Nat
    <3>1. NotifySize \in 2..3
      BY ChannelAssumption
    <3> QED
      BY <3>1
  <2>2. inbuf' \in Seq(UnitType) /\ pos' = 0
    BY <1>2, <2>1, CommitFacts DEF NotifyReturns, link
  <2>3. stack' \in Seq(FrameType)
    BY <1>1, <1>2 DEF NotifyReturns, LoopFrame
  <2>4. pos' \in 0..Len(inbuf')
    BY <2>2
  <2> QED
    BY <2>2, <2>3, <2>4, <1>2 DEF NotifyReturns, TypeOK, link
<1>3. CASE NotifyFails
  <2>1. stack' \in Seq(FrameType)
    BY <1>1, <1>3 DEF NotifyFails, LoopFrame
  <2> QED
    BY <2>1, <1>3 DEF NotifyFails, TypeOK, link
<1>4. CASE CallbackReturns
  <2>1. stack' \in Seq(FrameType)
    BY <1>4, ReturnFacts
  <2>2. cobs' \in [Ids -> Calls \cup {NoCall}]
    BY <1>4 DEF CallbackReturns, TypeOK
  <2> QED
    BY <2>1, <2>2, <1>4 DEF CallbackReturns, TypeOK, link
<1>5. CASE UseStale
  BY <1>5 DEF UseStale, TypeOK, link
<1> QED
  BY <1>2, <1>3, <1>4, <1>5 DEF Returns

LEMMA TypeStep ==
  ASSUME TypeOK, [Next]_vars
  PROVE  TypeOK'
<1>1. stack \in Seq(FrameType)
  BY DEF TypeOK
<1>2. CASE Connect \/ Connected
  BY <1>2 DEF Connect, Connected, TypeOK, link
<1>3. CASE ConnectFails \/ Lost
  BY <1>1, <1>3, ClearedType DEF ConnectFails, Lost
<1>4. CASE UNCHANGED vars
  BY <1>4 DEF vars, link, TypeOK
<1> QED
  BY <1>2, <1>3, <1>4, MakeType, DeliverType, LoopType, ReturnsType, LinkType DEF Next

LEMMA InitType ==
  ASSUME Init
  PROVE  TypeOK
<1>1. <<>> \in Seq(UnitType) /\ <<>> \in Seq(Messages) /\ <<>> \in Seq(FrameType) /\ Len(<<>>) = 0
      /\ <<>> \in Seq(Calls \cup {NoCall})
  OBVIOUS
<1>2. /\ state = "unconnected" /\ seq \in {IdZero} \cup Ids /\ cobs = [i \in Ids |-> NoCall]
      /\ inbuf = <<>> /\ pos = 0 /\ stack = <<>> /\ undefined = FALSE /\ broken = FALSE
      /\ up = <<>> /\ asked = {} /\ wire = <<>> /\ made = {} /\ ran = [c \in Calls |-> <<>>]
      /\ notifies = 0 /\ connects = 0
  BY DEF Init
<1>3. cobs \in [Ids -> Calls \cup {NoCall}] /\ ran \in [Calls -> Seq(Calls \cup {NoCall})]
  BY <1>1, <1>2
<1>4. inbuf \in Seq(UnitType) /\ wire \in Seq(UnitType) /\ up \in Seq(Messages) /\ stack \in Seq(FrameType)
      /\ pos \in 0..Len(inbuf)
  BY <1>1, <1>2
<1> QED
  BY <1>2, <1>3, <1>4 DEF TypeOK

-----------------------------------------------------------------------------
(***************************************************************************)
(* Whole messages.                                                         *)
(***************************************************************************)
LEMMA UnitParts ==
  ASSUME NEW S \in Seq(UnitType), NEW k \in DOMAIN S
  PROVE  /\ S[k].msg \in Messages /\ S[k] = [msg |-> S[k].msg, part |-> S[k].part]
         /\ Size(S[k].msg) \in 2..3 /\ k \in Nat \ {0} /\ k <= Len(S) /\ Len(S) \in Nat
<1>1. S[k] \in UnitType /\ DOMAIN S = 1..Len(S) /\ Len(S) \in Nat
  OBVIOUS
<1>2. S[k].msg \in Messages /\ S[k] = [msg |-> S[k].msg, part |-> S[k].part]
  BY <1>1 DEF UnitType
<1>3. Size(S[k].msg) \in 2..3
  BY <1>2, UnitsSeq
<1> QED
  BY <1>1, <1>2, <1>3

LEMMA WholeNext ==
  ASSUME NEW S \in Seq(UnitType), Whole(S), NEW k \in DOMAIN S, NEW m, S[k].msg = m, NEW p \in Nat,
         S[k].part = p, p < Size(m)
  PROVE  k + 1 \in DOMAIN S /\ S[k + 1].msg = m /\ S[k + 1].part = p + 1 /\ p \in 1..Size(m)
<1>1. k < Len(S) /\ S[k + 1] = [msg |-> m, part |-> p + 1] /\ p \in 1..Size(m)
  BY DEF Whole
<1>2. k \in Nat \ {0} /\ Len(S) \in Nat /\ DOMAIN S = 1..Len(S)
  BY UnitParts
<1> QED
  BY <1>1, <1>2

\* From any unit of a message on, the rest of the message follows.
LEMMA WholeFound ==
  ASSUME NEW S \in Seq(UnitType), Whole(S), NEW m, InUnits(m, S)
  PROVE  \E i \in DOMAIN S : S[i] = [msg |-> m, part |-> Size(m)]
<1>1. PICK k \in DOMAIN S : S[k].msg = m
  BY DEF InUnits
<1>2. S[k] = [msg |-> m, part |-> S[k].part] /\ Size(m) \in 2..3 /\ S[k].part \in 1..Size(m) /\ m \in Messages
  BY <1>1, UnitParts DEF Whole
<1>3. ASSUME NEW i \in DOMAIN S, S[i].msg = m, S[i].part = Size(m)
      PROVE  \E j \in DOMAIN S : S[j] = [msg |-> m, part |-> Size(m)]
  BY <1>3, UnitParts
<1>4. ASSUME NEW i \in DOMAIN S, S[i].msg = m, S[i].part = 2
      PROVE  \E j \in DOMAIN S : S[j] = [msg |-> m, part |-> Size(m)]
  <2>1. CASE Size(m) = 2
    BY <1>3, <1>4, <2>1
  <2>2. CASE Size(m) = 3
    <3>1. i + 1 \in DOMAIN S /\ S[i + 1].msg = m /\ S[i + 1].part = 2 + 1
      BY <1>4, <2>2, WholeNext
    <3> QED
      BY <3>1, <2>2, <1>3
  <2> QED
    BY <1>2, <2>1, <2>2
<1>5. CASE S[k].part = 1
  <2>1. k + 1 \in DOMAIN S /\ S[k + 1].msg = m /\ S[k + 1].part = 1 + 1
    BY <1>1, <1>2, <1>5, WholeNext
  <2> QED
    BY <2>1, <1>4
<1>6. CASE S[k].part = 2
  BY <1>1, <1>4, <1>6
<1>7. CASE S[k].part = 3
  BY <1>1, <1>2, <1>3, <1>7
<1> QED
  BY <1>2, <1>5, <1>6, <1>7

LEMMA WholeFront ==
  ASSUME NEW S \in Seq(UnitType), Whole(S), NEW m, S # <<>>, S[1].msg = m
  PROVE  /\ m \in Messages /\ Size(m) \in 2..3 /\ Size(m) <= Len(S) /\ Len(S) \in Nat
         /\ \A k \in 1..Size(m) : k \in DOMAIN S /\ S[k] = [msg |-> m, part |-> k]
<1>1. 1 \in DOMAIN S /\ Len(S) \in Nat /\ DOMAIN S = 1..Len(S)
  OBVIOUS
<1>2. S[1].part = 1 /\ m \in Messages /\ Size(m) \in 2..3
  BY <1>1, UnitParts DEF Whole
<1>3. 2 \in DOMAIN S /\ S[2].msg = m /\ S[2].part = 2
  <2>1. 1 \in DOMAIN S /\ S[1].msg = m /\ S[1].part = 1 /\ 1 < Size(m) /\ 1 \in Nat
    BY <1>1, <1>2
  <2>2. 1 < Len(S) /\ S[1 + 1] = [msg |-> m, part |-> 1 + 1]
    BY <2>1 DEF Whole
  <2> QED
    BY <2>2, <1>1
<1>4. Size(m) = 3 => 3 \in DOMAIN S /\ S[3].msg = m /\ S[3].part = 3
  <2> SUFFICES ASSUME Size(m) = 3 PROVE 3 \in DOMAIN S /\ S[3].msg = m /\ S[3].part = 3
    OBVIOUS
  <2>1. 2 \in DOMAIN S /\ S[2].msg = m /\ S[2].part = 2 /\ 2 < Size(m) /\ 2 \in Nat
    BY <1>2, <1>3
  <2>2. 2 < Len(S) /\ S[2 + 1] = [msg |-> m, part |-> 2 + 1]
    BY <2>1 DEF Whole
  <2> QED
    BY <2>2, <1>1
<1>5. ASSUME NEW k \in 1..Size(m) PROVE k \in DOMAIN S /\ S[k].msg = m /\ S[k].part = k
  <2>1. k = 1 \/ k = 2 \/ (k = 3 /\ Size(m) = 3)
    BY <1>2
  <2> QED
    BY <2>1, <1>1, <1>2, <1>3, <1>4
<1>6. ASSUME NEW k \in 1..Size(m) PROVE k \in DOMAIN S /\ S[k] = [msg |-> m, part |-> k]
  BY <1>5, UnitParts
<1>7. Size(m) <= Len(S)
  <2>1. Size(m) \in 1..Size(m)
    BY <1>2
  <2>2. Size(m) \in DOMAIN S
    BY <2>1, <1>6
  <2> QED
    BY <2>2, <1>1
<1> QED
  BY <1>1, <1>2, <1>6, <1>7

\* Dropping the first message leaves whole messages, and every other message.
LEMMA WholeDrop ==
  ASSUME NEW S \in Seq(UnitType), Whole(S), NEW m, S # <<>>, S[1].msg = m
  PROVE  /\ Whole(Drop(S, Size(m)))
         /\ \A x : x # m /\ InUnits(x, S) => InUnits(x, Drop(S, Size(m)))
<1> DEFINE n == Size(m)
           R == Drop(S, n)
<1>1. /\ n \in 2..3 /\ n <= Len(S) /\ Len(S) \in Nat
      /\ \A k \in 1..n : k \in DOMAIN S /\ S[k] = [msg |-> m, part |-> k]
  BY WholeFront
<1>2. S[n].msg = m /\ S[n].part = n
  <2>1. n \in 1..n
    BY <1>1
  <2>2. S[n] = [msg |-> m, part |-> n]
    BY <2>1, <1>1
  <2> QED
    BY <2>2
<1>3. Size(m) = n
  OBVIOUS
<1> HIDE DEF n
<1>4. /\ R \in Seq(UnitType) /\ Len(R) = Len(S) - n
      /\ \A i \in 1..(Len(S) - n) : R[i] = S[i + n]
  <2>1. n \in 0..Len(S)
    BY <1>1
  <2> QED
    BY <2>1, DropSeq
<1> HIDE DEF R
<1>5. DOMAIN R = 1..(Len(S) - n) /\ DOMAIN S = 1..Len(S)
  BY <1>1, <1>4
<1>6. ASSUME R # <<>> PROVE R[1].part = 1
  <2>1. 1 \in 1..(Len(S) - n)
    BY <1>6, <1>4, <1>1
  <2>2. R[1] = S[1 + n]
    BY <2>1, <1>4
  <2>3. n < Len(S) /\ n \in DOMAIN S /\ 1 + n = n + 1
    BY <2>1, <1>1, <1>5
  <2>4. S[n + 1].part = 1
    BY <2>3, <1>2, <1>3 DEF Whole
  <2> QED
    BY <2>2, <2>3, <2>4
<1>7. ASSUME NEW i \in DOMAIN R
      PROVE  /\ R[i].part \in 1..Size(R[i].msg)
             /\ R[i].part < Size(R[i].msg) => i < Len(R) /\ R[i + 1] = [msg |-> R[i].msg, part |-> R[i].part + 1]
             /\ R[i].part = Size(R[i].msg) /\ i < Len(R) => R[i + 1].part = 1
  <2>1. i + n \in DOMAIN S /\ R[i] = S[i + n] /\ (i + n) + 1 = (i + 1) + n
    BY <1>1, <1>4, <1>5
  <2>2. i + n < Len(S) <=> i < Len(R)
    BY <1>1, <1>4, <1>5
  <2>3. i < Len(R) => R[i + 1] = S[(i + n) + 1]
    <3> SUFFICES ASSUME i < Len(R) PROVE R[i + 1] = S[(i + n) + 1]
      OBVIOUS
    <3>1. i + 1 \in 1..(Len(S) - n)
      BY <1>1, <1>4, <1>5
    <3> QED
      BY <3>1, <2>1, <1>4
  <2>4. /\ S[i + n].part \in 1..Size(S[i + n].msg)
        /\ S[i + n].part < Size(S[i + n].msg)
             => i + n < Len(S) /\ S[(i + n) + 1] = [msg |-> S[i + n].msg, part |-> S[i + n].part + 1]
        /\ S[i + n].part = Size(S[i + n].msg) /\ i + n < Len(S) => S[(i + n) + 1].part = 1
    BY <2>1 DEF Whole
  <2> QED
    BY <2>1, <2>2, <2>3, <2>4
<1>8. ASSUME NEW x, x # m, InUnits(x, S) PROVE InUnits(x, R)
  <2>1. PICK k \in DOMAIN S : S[k].msg = x
    BY <1>8 DEF InUnits
  <2>2. ASSUME NEW j \in 1..n PROVE S[j].msg = m
    <3>1. S[j] = [msg |-> m, part |-> j]
      BY <1>1
    <3> QED
      BY <3>1
  <2>3. ~(k \in 1..n)
    BY <2>1, <2>2, <1>8
  <2>4. k - n \in 1..(Len(S) - n) /\ (k - n) + n = k
    BY <2>1, <2>3, <1>1, <1>5
  <2>5. R[k - n] = S[k]
    BY <2>4, <1>4
  <2> QED
    BY <2>1, <2>4, <2>5, <1>5 DEF InUnits
<1> QED
  BY <1>6, <1>7, <1>8 DEF Whole, R, n

\* An answer is at the front once, so that a commit takes it away.
LEMMA WholeDropOnce ==
  ASSUME NEW S \in Seq(UnitType), Whole(S), NEW m, S # <<>>, S[1].msg = m, m.id # IdZero,
         NEW u, NEW a, InOrderOnce(u, a, S)
  PROVE  ~InUnits(m, Drop(S, Size(m)))
<1> DEFINE n == Size(m)
<1>1. /\ n \in 2..3 /\ n <= Len(S) /\ Len(S) \in Nat
      /\ \A k \in 1..n : k \in DOMAIN S /\ S[k] = [msg |-> m, part |-> k]
  BY WholeFront
<1>2. n = Size(m)
  OBVIOUS
<1> HIDE DEF n
<1> SUFFICES ASSUME InUnits(m, Drop(S, n)) PROVE FALSE
  BY <1>2
<1>3. n \in 0..Len(S)
  BY <1>1
<1>4. /\ Drop(S, n) \in Seq(UnitType) /\ Len(Drop(S, n)) = Len(S) - n
      /\ \A i \in 1..(Len(S) - n) : Drop(S, n)[i] = S[i + n]
  BY <1>3, DropSeq
<1>5. PICK i \in DOMAIN Drop(S, n) : Drop(S, n)[i].msg = m
  BY DEF InUnits
<1>6. i \in 1..(Len(S) - n)
  BY <1>4, <1>5
<1>7. S[i + n].msg = m /\ i + n \in DOMAIN S
  BY <1>1, <1>4, <1>5, <1>6, SMTT(30)
<1>8. S[i + n].part \in 1..n
  BY <1>2, <1>7 DEF Whole
<1>9. S[i + n] = S[S[i + n].part] /\ S[i + n].part \in DOMAIN S
  BY <1>1, <1>7, <1>8, UnitParts
<1>10. i + n = S[i + n].part
  BY <1>7, <1>9 DEF InOrderOnce
<1> QED
  BY <1>1, <1>6, <1>8, <1>10

LEMMA WholeAppend ==
  ASSUME NEW S \in Seq(UnitType), Whole(S), NEW m \in Messages
  PROVE  Whole(S \o Units(m))
<1> DEFINE R == S \o Units(m)
           n == Len(S)
           z == Size(m)
<1>1. /\ R \in Seq(UnitType) /\ Len(R) = n + z
      /\ \A k \in 1..n : R[k] = S[k]
      /\ \A k \in 1..z : R[n + k] = [msg |-> m, part |-> k]
      /\ n \in Nat /\ z \in 2..3
  BY UnitsAppended
<1>2. z = Size(m) /\ DOMAIN S = 1..n
  OBVIOUS
<1> HIDE DEF R, z
<1>3. \A k \in 1..z : R[n + k].msg = m /\ R[n + k].part = k
  <2> SUFFICES ASSUME NEW k \in 1..z PROVE R[n + k].msg = m /\ R[n + k].part = k
    OBVIOUS
  <2>1. R[n + k] = [msg |-> m, part |-> k]
    BY <1>1
  <2> QED
    BY <2>1
<1>4. R[1].part = 1
  <2>1. CASE n = 0
    <3>1. 1 \in 1..z /\ n + 1 = 1
      BY <1>1, <2>1
    <3> QED
      BY <3>1, <1>3
  <2>2. CASE n # 0
    <3>1. 1 \in 1..n /\ S # <<>>
      BY <1>1, <2>2
    <3> QED
      BY <3>1, <1>1 DEF Whole
  <2> QED
    BY <2>1, <2>2
<1>5. ASSUME NEW i \in 1..n
      PROVE  /\ R[i].part \in 1..Size(R[i].msg)
             /\ R[i].part < Size(R[i].msg) => i < Len(R) /\ R[i + 1] = [msg |-> R[i].msg, part |-> R[i].part + 1]
             /\ R[i].part = Size(R[i].msg) /\ i < Len(R) => R[i + 1].part = 1
  <2>1. R[i] = S[i] /\ i < Len(R)
    BY <1>1
  <2>2. /\ S[i].part \in 1..Size(S[i].msg)
        /\ S[i].part < Size(S[i].msg) => i < n /\ S[i + 1] = [msg |-> S[i].msg, part |-> S[i].part + 1]
        /\ S[i].part = Size(S[i].msg) /\ i < n => S[i + 1].part = 1
    BY <1>2 DEF Whole
  <2>3. i < n => R[i + 1] = S[i + 1]
    BY <1>1
  <2>4. i = n => R[i + 1].part = 1
    <3>1. 1 \in 1..z
      BY <1>1
    <3> QED
      BY <3>1, <1>3
  <2>5. i < n \/ i = n
    BY <1>1
  <2> QED
    BY <2>1, <2>2, <2>3, <2>4, <2>5
<1>6. ASSUME NEW i \in (n + 1)..(n + z)
      PROVE  /\ R[i].part \in 1..Size(R[i].msg)
             /\ R[i].part < Size(R[i].msg) => i < Len(R) /\ R[i + 1] = [msg |-> R[i].msg, part |-> R[i].part + 1]
             /\ R[i].part = Size(R[i].msg) /\ i < Len(R) => R[i + 1].part = 1
  <2> DEFINE k == i - n
  <2>1. k \in 1..z /\ i = n + k /\ (k < z => k + 1 \in 1..z /\ n + (k + 1) = i + 1)
    BY <1>1
  <2> HIDE DEF k
  <2>2. R[i].msg = m /\ R[i].part = k
    BY <2>1, <1>3
  <2>3. k < z => i < Len(R) /\ R[i + 1] = [msg |-> m, part |-> k + 1]
    <3>1. k < z => i < n + z
      BY <2>1, <1>1
    <3> QED
      BY <3>1, <2>1, <1>1
  <2>4. k = z => ~(i < Len(R))
    BY <2>1, <1>1
  <2> QED
    BY <2>1, <2>2, <2>3, <2>4, <1>2
<1>7. \A i \in DOMAIN R : i \in 1..n \/ i \in (n + 1)..(n + z)
  <2>1. DOMAIN R = 1..(n + z)
    BY <1>1
  <2> QED
    BY <2>1, <1>1
<1>8. Whole(R)
  BY <1>4, <1>5, <1>6, <1>7 DEF Whole
<1> QED
  BY <1>8 DEF R

-----------------------------------------------------------------------------
(***************************************************************************)
(* Requests, ids and entries: BaseInv.                                     *)
(***************************************************************************)

\* Steps that make no call and leave the entries alone.
LEMMA BaseQuiet ==
  ASSUME BaseInv, Traffic(up', asked', Stream'),
         \A x : x.id # IdZero /\ Flying(x, up', asked', Stream') => Flying(x, up, asked, Stream),
         cobs' = cobs, made' = made, seq' = seq, ran' = ran,
         FrameIds(stack'), \A i \in Ids : Runs(stack', i) => Runs(stack, i)
  PROVE  BaseInv'
<1>1. TrafficInv'
  BY DEF TrafficInv
<1>2. ASSUME NEW i \in Ids, NEW c \in Calls, OnItsWay(i, c)' PROVE OnItsWay(i, c)
  <2> DEFINE x == [id |-> i, call |-> c]
  <2>1. x.id # IdZero
    BY DEF IdZero, Ids
  <2>2. Flying(x, up', asked', Stream')
    BY <1>2 DEF OnItsWay
  <2> HIDE DEF x
  <2>3. Flying(x, up, asked, Stream)
    BY <2>1, <2>2
  <2> QED
    BY <2>3 DEF x, OnItsWay
<1>3. CallsInv'
  BY DEF BaseInv, CallsInv
<1>4. ASSUME NEW i \in Ids, InUse(i)' PROVE InUse(i)
  BY <1>2, <1>4 DEF InUse
<1>5. IdInv'
  BY <1>4 DEF BaseInv, IdInv, Age
<1>6. AnswerInv'
  BY <1>2 DEF BaseInv, AnswerInv
<1>7. FrameInv'
  BY DEF BaseInv, FrameInv
<1> QED
  BY <1>1, <1>3, <1>5, <1>6, <1>7 DEF BaseInv

LEMMA EntryQuiet ==
  ASSUME EntryInv, cobs' = cobs, ran' = ran,
         \A x : x.id # IdZero => (Flying(x, up', asked', Stream') <=> Flying(x, up, asked, Stream)),
         \A i \in Ids : Runs(stack, i) => Runs(stack', i)
  PROVE  EntryInv'
<1>1. ASSUME NEW i \in Ids, NEW c PROVE OnItsWay(i, c)' <=> OnItsWay(i, c)
  <2> DEFINE x == [id |-> i, call |-> c]
  <2>1. x.id # IdZero
    BY DEF IdZero, Ids
  <2> HIDE DEF x
  <2>2. Flying(x, up', asked', Stream') <=> Flying(x, up, asked, Stream)
    BY <2>1
  <2> QED
    BY <2>2 DEF x, OnItsWay
<1> QED
  BY <1>1 DEF EntryInv

LEMMA ClearedInv ==
  ASSUME TypeOK, BaseInv, NEW st \in Seq(FrameType), FrameIds(st), Cleared(st)
  PROVE  BaseInv' /\ StreamInv'
<1> DEFINE k == Kill(st, "callback")
<1>1. k \in Seq(FrameType) /\ (\A i : ~Runs(k, i)) /\ FrameIds(k)
  BY StackKill
<1>2. stack' = Kill(k, "notify")
  BY DEF Cleared
<1> HIDE DEF k
<1>3. (\A i : ~Runs(stack', i)) /\ FrameIds(stack') /\ NoneBelow(stack') /\ ~AtNotify(stack')
  BY <1>1, <1>2, StackKill
<1>4. /\ cobs' = [i \in Ids |-> NoCall] /\ inbuf' = <<>> /\ pos' = 0
      /\ up' = <<>> /\ asked' = {} /\ wire' = <<>> /\ made' = made /\ ran' = ran /\ seq' = seq
  BY DEF Cleared
<1>5. Stream' = <<>>
  BY <1>4 DEF Stream
<1>6. \A i \in Ids : cobs'[i] = NoCall
  BY <1>4
<1>7. /\ Traffic(up', asked', Stream') /\ \A m : ~Flying(m, up', asked', Stream')
  BY <1>4, <1>5, TrafficEmpty
<1>8. \A i, c : ~OnItsWay(i, c)'
  BY <1>7 DEF OnItsWay
<1>9. BaseInv'
  <2>1. TrafficInv'
    BY <1>7 DEF TrafficInv
  <2>2. CallsInv'
    BY <1>4, <1>6 DEF BaseInv, CallsInv
  <2>3. IdInv'
    BY <1>3, <1>6, <1>8 DEF IdInv, InUse
  <2>4. AnswerInv'
    BY <1>8 DEF AnswerInv
  <2>5. FrameInv'
    BY <1>3 DEF FrameInv
  <2> QED
    BY <2>1, <2>2, <2>3, <2>4, <2>5 DEF BaseInv
<1>10. StreamInv'
  <2>1. Whole(Stream')
    BY <1>5 DEF Whole
  <2>2. PosInv'
    BY <1>3, <1>4 DEF PosInv
  <2>3. EntryInv'
    BY <1>6, <1>8 DEF EntryInv
  <2> QED
    BY <2>1, <2>2, <2>3 DEF StreamInv
<1> QED
  BY <1>9, <1>10

\* A call that gets its callback at once.
LEMMA AtOnceInv ==
  ASSUME ChannelInv, NEW c \in Calls, Refused(c) \/ SendFails(c)
  PROVE  /\ BaseInv' /\ StreamInv'
         /\ c \notin made /\ made' = made \cup {c} /\ cobs' = cobs
         /\ ran[c] = <<>> /\ ran' = [ran EXCEPT ![c] = <<NoCall>>]
<1>1. /\ c \notin made /\ made' = made \cup {c} /\ ran' = [ran EXCEPT ![c] = Append(@, NoCall)]
      /\ UNCHANGED <<inbuf, pos, stack, broken, up, asked, wire>>
      /\ \/ seq' = NextSeq /\ cobs' = [cobs EXCEPT ![NextSeq] = NoCall]
         \/ seq' = seq /\ cobs' = cobs
  BY DEF Refused, SendFails, RunCallback, EraseEntry, link
<1>2. TypeOK /\ BaseInv /\ StreamInv /\ TrafficInv /\ CallsInv /\ IdInv /\ AnswerInv /\ FrameInv
  BY DEF ChannelInv, BaseInv
<1>3. /\ ~InUse(NextSeq)
      /\ \A i \in Ids : InUse(i) => Age(NextSeq, i) < Cardinality(made \cup {c})
  BY <1>1, <1>2, NextIdFree
<1>4. cobs' = cobs
  <2>1. cobs[NextSeq] = NoCall /\ cobs \in [Ids -> Calls \cup {NoCall}]
    BY <1>2, <1>3 DEF InUse, TypeOK
  <2> QED
    BY <2>1, <1>1
<1>5. ran[c] = <<>> /\ ran \in [Calls -> Seq(Calls \cup {NoCall})]
  BY <1>1, <1>2 DEF CallsInv, TypeOK
<1>6. ran' = [ran EXCEPT ![c] = <<NoCall>>]
  <2>1. Append(ran[c], NoCall) = <<NoCall>>
    BY <1>5
  <2> QED
    BY <2>1, <1>1, <1>5
<1>7. \A d \in Calls : d # c => ran'[d] = ran[d]
  BY <1>5, <1>6
<1>8. ASSUME NEW i \in Ids PROVE cobs[i] # NoCall => cobs[i] \in Calls /\ cobs[i] # c
  BY <1>1, <1>2 DEF CallsInv, TypeOK
<1>9. \A i, d : OnItsWay(i, d)' <=> OnItsWay(i, d)
  BY <1>1 DEF OnItsWay, Stream
<1>10. Stream' = Stream
  BY <1>1 DEF Stream
<1>11. BaseInv'
  <2>1. TrafficInv'
    BY <1>1, <1>2, <1>10 DEF TrafficInv
  <2>2. CallsInv'
    BY <1>1, <1>2, <1>4, <1>7 DEF CallsInv
  <2>3. \A i \in Ids : InUse(i)' => InUse(i)
    BY <1>1, <1>4, <1>9 DEF InUse
  <2>4. IdInv'
    <3> SUFFICES ASSUME NEW i \in Ids, InUse(i)' PROVE Age(seq', i) < Cardinality(made')
      BY DEF IdInv, Age
    <3>1. InUse(i)
      BY <2>3
    <3>2. CASE seq' = NextSeq
      BY <3>1, <3>2, <1>1, <1>3
    <3>3. CASE seq' = seq
      <4>1. Age(seq, i) < Cardinality(made) /\ Age(seq, i) \in Int
        BY <3>1, <1>2, Ages DEF IdInv
      <4>2. Cardinality(made) \in Nat /\ Cardinality(made') = Cardinality(made) + 1
        BY <1>1, <1>2, MadeCount
      <4>3. Age(seq, i) < Cardinality(made')
        BY <4>1, <4>2
      <4> QED
        BY <4>3, <3>3
    <3> QED
      BY <1>1, <3>2, <3>3
  <2>5. AnswerInv'
    BY <1>2, <1>4, <1>9 DEF AnswerInv
  <2>6. FrameInv'
    BY <1>1, <1>2, <1>4, <1>7, <1>8 DEF FrameInv
  <2> QED
    BY <2>1, <2>2, <2>4, <2>5, <2>6 DEF BaseInv
<1>12. StreamInv'
  <2> SUFFICES ASSUME ~broken PROVE Whole(Stream') /\ PosInv' /\ EntryInv'
    BY <1>1 DEF StreamInv
  <2>1. Whole(Stream) /\ PosInv /\ EntryInv
    BY <1>2 DEF StreamInv
  <2>2. PosInv'
    BY <1>1, <2>1 DEF PosInv
  <2>3. EntryInv'
    <3>1. ASSUME NEW i \in Ids, NEW d \in Calls, OnItsWay(i, d)' PROVE cobs'[i] = d /\ ran'[d] = <<>>
      <4>1. cobs[i] = d /\ ran[d] = <<>>
        BY <3>1, <1>9, <2>1 DEF EntryInv
      <4>2. d # c
        BY <4>1, <1>2, <1>8, CallsFinite
      <4> QED
        BY <4>1, <4>2, <1>4, <1>7
    <3>2. ASSUME NEW i \in Ids, cobs'[i] # NoCall PROVE ran'[cobs'[i]] = ran[cobs[i]] /\ cobs[i] # NoCall
      BY <3>2, <1>4, <1>7, <1>8
    <3>3. ASSUME NEW i \in Ids, cobs'[i] # NoCall, ran'[cobs'[i]] = <<>> PROVE OnItsWay(i, cobs[i])'
      <4>1. OnItsWay(i, cobs[i])
        BY <3>2, <3>3, <2>1 DEF EntryInv
      <4>2. Flying([id |-> i, call |-> cobs[i]], up, asked, Stream)
        BY <4>1 DEF OnItsWay
      <4> QED
        BY <4>2, <1>1, <1>4, <1>10 DEF OnItsWay
    <3>4. ASSUME NEW i \in Ids, cobs'[i] # NoCall, ran'[cobs'[i]] # <<>> PROVE Runs(stack', i)
      BY <3>2, <3>4, <2>1, <1>1 DEF EntryInv
    <3> QED
      BY <3>1, <3>3, <3>4, <1>4 DEF EntryInv
  <2> QED
    BY <2>1, <2>2, <2>3, <1>10
<1> QED
  BY <1>1, <1>4, <1>5, <1>6, <1>11, <1>12

\* A call that is sent.
LEMMA SendInv ==
  ASSUME ChannelInv, NEW c \in Calls, Send(c)
  PROVE  /\ BaseInv' /\ StreamInv'
         /\ c \notin made /\ made' = made \cup {c} /\ ran' = ran /\ ran[c] = <<>>
         /\ NextSeq \in Ids /\ cobs[NextSeq] = NoCall /\ cobs' = [cobs EXCEPT ![NextSeq] = c]
<1>1. /\ c \notin made /\ made' = made \cup {c} /\ seq' = NextSeq /\ cobs' = [cobs EXCEPT ![NextSeq] = c]
      /\ up' = Append(up, [id |-> NextSeq, call |-> c])
      /\ UNCHANGED <<inbuf, pos, stack, broken, ran, asked, wire>>
  BY DEF Send
<1>2. TypeOK /\ BaseInv /\ StreamInv /\ TrafficInv /\ CallsInv /\ IdInv /\ AnswerInv /\ FrameInv
  BY DEF ChannelInv, BaseInv
<1> DEFINE n == NextSeq
           m == [id |-> n, call |-> c]
<1>3. n \in Ids /\ n = NextSeq
  BY <1>2, NextId
<1>4. /\ ~InUse(n)
      /\ \A i \in Ids : InUse(i) => i # n /\ Age(n, i) < Cardinality(made')
      /\ Age(n, n) < Cardinality(made')
  BY <1>1, <1>2, NextIdFree
<1> HIDE DEF n
<1>5. cobs[n] = NoCall /\ ~Runs(stack, n) /\ \A d \in Calls : ~OnItsWay(n, d)
  BY <1>4 DEF InUse
<1>6. cobs \in [Ids -> Calls \cup {NoCall}] /\ cobs'[n] = c /\ \A i \in Ids : i # n => cobs'[i] = cobs[i]
  BY <1>1, <1>2, <1>3 DEF TypeOK
<1>7. ran[c] = <<>>
  BY <1>1, <1>2 DEF CallsInv
<1>8. /\ up \in Seq(Messages) /\ asked \in SUBSET Messages /\ Stream \in Seq(UnitType)
      /\ Traffic(up, asked, Stream) /\ m \in Messages /\ IsRequest(m)
  BY <1>2, <1>3, StreamType DEF TypeOK, TrafficInv, Messages, IsRequest
<1>9. ~Flying(m, up, asked, Stream)
  BY <1>5 DEF OnItsWay
<1>10. Stream' = Stream /\ asked' = asked /\ up' = Append(up, m)
  BY <1>1, <1>3 DEF Stream
<1> HIDE DEF m
<1>11. /\ Traffic(up', asked', Stream')
       /\ \A x : Flying(x, up', asked', Stream') <=> Flying(x, up, asked, Stream) \/ x = m
  BY <1>8, <1>9, <1>10, TrafficCalled
<1>12. ASSUME NEW i \in Ids, NEW d PROVE OnItsWay(i, d)' <=> OnItsWay(i, d) \/ (i = n /\ d = c)
  <2>1. OnItsWay(i, d)' <=> Flying([id |-> i, call |-> d], up', asked', Stream')
    BY DEF OnItsWay
  <2>2. OnItsWay(i, d) <=> Flying([id |-> i, call |-> d], up, asked, Stream)
    BY DEF OnItsWay
  <2>3. [id |-> i, call |-> d] = m <=> i = n /\ d = c
    BY DEF m
  <2> QED
    BY <2>1, <2>2, <2>3, <1>11
<1>13. ASSUME NEW i \in Ids PROVE cobs[i] # NoCall => cobs[i] \in Calls /\ cobs[i] \in made /\ cobs[i] # c
  BY <1>1, <1>2 DEF CallsInv, TypeOK
<1>14. CallsInv'
  <2>1. \A i \in Ids : cobs'[i] \in made' \cup {NoCall}
    BY <1>1, <1>6, <1>13
  <2>2. \A i, k \in Ids : cobs'[i] = cobs'[k] /\ cobs'[i] # NoCall => i = k
    BY <1>2, <1>6, <1>13 DEF CallsInv
  <2>3. \A d \in Calls \ made' : ran'[d] = <<>>
    BY <1>1, <1>2 DEF CallsInv
  <2> QED
    BY <2>1, <2>2, <2>3 DEF CallsInv
<1>15. ASSUME NEW i \in Ids, InUse(i)' PROVE InUse(i) \/ i = n
  BY <1>1, <1>6, <1>12, <1>15 DEF InUse
<1>16. IdInv'
  BY <1>1, <1>3, <1>4, <1>15 DEF IdInv, Age
<1>17. AnswerInv'
  <2> SUFFICES ASSUME NEW i \in Ids, NEW d \in Calls, OnItsWay(i, d)' PROVE cobs'[i] \in {NoCall, d}
    BY DEF AnswerInv
  <2>1. CASE i = n
    BY <2>1, <1>5, <1>6, <1>12
  <2>2. CASE i # n
    BY <2>2, <1>2, <1>6, <1>12 DEF AnswerInv
  <2> QED
    BY <2>1, <2>2
<1>18. FrameInv'
  BY <1>1, <1>2, <1>5, <1>6 DEF FrameInv
<1>19. BaseInv'
  BY <1>11, <1>14, <1>16, <1>17, <1>18 DEF BaseInv, TrafficInv
<1>20. StreamInv'
  <2> SUFFICES ASSUME ~broken PROVE Whole(Stream') /\ PosInv' /\ EntryInv'
    BY <1>1 DEF StreamInv
  <2>1. Whole(Stream) /\ PosInv /\ EntryInv
    BY <1>2 DEF StreamInv
  <2>2. PosInv'
    BY <1>1, <2>1 DEF PosInv
  <2>3. ASSUME NEW i \in Ids, NEW d \in Calls, OnItsWay(i, d)' PROVE cobs'[i] = d /\ ran'[d] = <<>>
    <3>1. CASE i = n
      BY <3>1, <2>3, <1>1, <1>5, <1>6, <1>7, <1>12
    <3>2. CASE i # n
      BY <3>2, <2>1, <2>3, <1>1, <1>6, <1>12 DEF EntryInv
    <3> QED
      BY <3>1, <3>2
  <2>4. ASSUME NEW i \in Ids, cobs'[i] # NoCall, ran'[cobs'[i]] = <<>> PROVE OnItsWay(i, cobs[i])'
    <3> DEFINE d == cobs'[i]
    <3>1. CASE i = n
      BY <3>1, <1>6, <1>12
    <3>2. CASE i # n
      <4>1. cobs'[i] = cobs[i] /\ OnItsWay(i, cobs[i])
        BY <3>2, <2>1, <2>4, <1>1, <1>6 DEF EntryInv
      <4>2. OnItsWay(i, d)
        BY <4>1
      <4> HIDE DEF d
      <4>3. Flying([id |-> i, call |-> d], up', asked', Stream')
        BY <4>2, <1>11 DEF OnItsWay
      <4> QED
        BY <4>3 DEF d, OnItsWay
    <3> QED
      BY <3>1, <3>2
  <2>5. ASSUME NEW i \in Ids, cobs'[i] # NoCall, ran'[cobs'[i]] # <<>> PROVE Runs(stack', i)
    <3>1. i # n
      BY <2>5, <1>1, <1>6, <1>7
    <3> QED
      BY <3>1, <2>1, <2>5, <1>1, <1>6 DEF EntryInv
  <2>6. EntryInv'
    BY <2>3, <2>4, <2>5 DEF EntryInv
  <2> QED
    BY <2>1, <2>2, <2>6, <1>10
<1> QED
  BY <1>1, <1>3, <1>5, <1>7, <1>19, <1>20

\* The server's steps.
LEMMA LinkInv ==
  ASSUME ChannelInv, Ask \/ (\E r \in asked : Reply(r)) \/ Broadcast
  PROVE  BaseInv' /\ StreamInv'
<1>1. TypeOK /\ BaseInv /\ StreamInv /\ TrafficInv
  BY DEF ChannelInv, BaseInv
<1>2. /\ up \in Seq(Messages) /\ asked \in SUBSET Messages /\ Stream \in Seq(UnitType)
      /\ Traffic(up, asked, Stream) /\ inbuf \in Seq(UnitType) /\ wire \in Seq(UnitType)
  BY <1>1, StreamType DEF TypeOK, TrafficInv
<1>3. UNCHANGED <<seq, cobs, made, ran, stack, inbuf, pos, broken>>
  BY DEF Ask, Reply, Broadcast
<1>4. ASSUME NEW m \in Messages, wire' = wire \o Units(m) PROVE Stream' = Stream \o Units(m)
  <2>1. Units(m) \in Seq(UnitType)
    BY UnitsSeq
  <2>2. inbuf \o (wire \o Units(m)) = (inbuf \o wire) \o Units(m)
    BY <1>2, <2>1, ConcatThree
  <2> QED
    BY <2>2, <1>3, <1>4 DEF Stream
<1>5. /\ Traffic(up', asked', Stream')
      /\ \A x : x.id # IdZero => (Flying(x, up', asked', Stream') <=> Flying(x, up, asked, Stream))
      /\ Whole(Stream) => Whole(Stream')
  <2>1. CASE Ask
    <3>1. up # <<>> /\ up' = Tail(up) /\ asked' = asked \cup {Head(up)} /\ wire' = wire
      BY <2>1 DEF Ask
    <3>2. Stream' = Stream
      BY <3>1, <1>3 DEF Stream
    <3> QED
      BY <3>1, <3>2, <1>2, TrafficAsk
  <2>2. ASSUME NEW r \in asked, Reply(r)
        PROVE  /\ Traffic(up', asked', Stream')
               /\ \A x : x.id # IdZero => (Flying(x, up', asked', Stream') <=> Flying(x, up, asked, Stream))
               /\ Whole(Stream) => Whole(Stream')
    <3>1. r \in Messages /\ asked' = asked \ {r} /\ wire' = wire \o Units(r) /\ up' = up
      BY <2>2, <1>2 DEF Reply
    <3>2. Stream' = Stream \o Units(r)
      BY <3>1, <1>4
    <3> QED
      BY <3>1, <3>2, <1>2, TrafficSent, WholeAppend
  <2>3. CASE Broadcast
    <3> DEFINE m == [id |-> IdZero, call |-> NoCall]
    <3>1. m \in Messages /\ m.id = IdZero /\ wire' = wire \o Units(m) /\ up' = up /\ asked' = asked
      BY <2>3 DEF Broadcast, Messages
    <3> HIDE DEF m
    <3>2. Stream' = Stream \o Units(m)
      BY <3>1, <1>4
    <3>3. asked' = asked \ {m}
      <4>1. m \notin asked
        BY <3>1, <1>2 DEF Traffic, RequestsOnly, IsRequest, Ids, IdZero
      <4> QED
        BY <3>1, <4>1
    <3>4. /\ Traffic(up, asked \ {m}, Stream \o Units(m))
          /\ \A x : x.id # IdZero =>
               (Flying(x, up, asked \ {m}, Stream \o Units(m)) <=> Flying(x, up, asked, Stream))
      BY <3>1, <1>2, TrafficSent
    <3>5. Whole(Stream) => Whole(Stream')
      BY <3>1, <3>2, <1>2, WholeAppend
    <3> QED
      BY <3>1, <3>2, <3>3, <3>4, <3>5
  <2> QED
    BY <2>1, <2>2, <2>3
<1>6. BaseInv'
  <2>1. FrameIds(stack')
    BY <1>1, <1>3 DEF BaseInv, FrameInv
  <2>2. \A i \in Ids : Runs(stack', i) => Runs(stack, i)
    BY <1>3
  <2> QED
    BY <2>1, <2>2, <1>1, <1>3, <1>5, BaseQuiet
<1>7. StreamInv'
  <2> SUFFICES ASSUME ~broken PROVE Whole(Stream') /\ PosInv' /\ EntryInv'
    BY <1>3 DEF StreamInv
  <2>1. Whole(Stream) /\ PosInv /\ EntryInv
    BY <1>1 DEF StreamInv
  <2>2. PosInv'
    BY <1>3, <2>1 DEF PosInv
  <2>3. EntryInv'
    <3>1. \A i \in Ids : Runs(stack, i) => Runs(stack', i)
      BY <1>3
    <3> QED
      BY <3>1, <2>1, <1>3, <1>5, EntryQuiet
  <2> QED
    BY <2>1, <2>2, <2>3, <1>5
<1> QED
  BY <1>6, <1>7

\* Steps that move neither message nor entry, and leave the place where the next
\* header is looked for.
LEMMA QuietInv ==
  ASSUME ChannelInv, UNCHANGED <<up, asked, made, ran, seq, cobs>>, Stream' = Stream,
         \A i : Runs(stack', i) <=> Runs(stack, i), FrameIds(stack) => FrameIds(stack'),
         ~broken' => ~broken /\ PosInv'
  PROVE  BaseInv' /\ StreamInv'
<1>1. TypeOK /\ BaseInv /\ StreamInv /\ TrafficInv /\ FrameIds(stack)
  BY DEF ChannelInv, BaseInv, FrameInv
<1>2. /\ Traffic(up', asked', Stream')
      /\ \A x : Flying(x, up', asked', Stream') <=> Flying(x, up, asked, Stream)
  BY <1>1 DEF TrafficInv
<1>3. BaseInv'
  BY <1>1, <1>2, BaseQuiet
<1>4. StreamInv'
  <2> SUFFICES ASSUME ~broken' PROVE Whole(Stream') /\ PosInv' /\ EntryInv'
    BY DEF StreamInv
  <2>1. Whole(Stream) /\ EntryInv
    BY <1>1 DEF StreamInv
  <2>2. EntryInv'
    BY <2>1, <1>2, EntryQuiet
  <2> QED
    BY <2>1, <2>2
<1> QED
  BY <1>3, <1>4

LEMMA DeliverInv ==
  ASSUME ChannelInv, NEW n \in 1..Len(wire), NEW moved \in BOOLEAN, Deliver(n, moved)
  PROVE  BaseInv' /\ StreamInv'
<1>1. TypeOK /\ StreamInv
  BY DEF ChannelInv
<1>2. /\ Stream' = Stream
      /\ \A i : Runs(stack', i) <=> Runs(stack, i)
      /\ FrameIds(stack) => FrameIds(stack')
      /\ NoneBelow(stack) /\ ~AtNotify(stack) => NoneBelow(stack')
      /\ ~AtNotify(stack')
  BY <1>1, DeliverFacts
<1>3. UNCHANGED <<up, asked, made, ran, seq, cobs, pos>> /\ broken' = (broken \/ Inside("notify"))
  BY DEF Deliver
<1>4. ~Inside("notify") => ~AtNotify(stack)
  BY DEF Deliver, CanReenter, Idle, Inside, AtNotify, Top
<1>5. ~broken' => ~broken /\ PosInv'
  <2> SUFFICES ASSUME ~broken' PROVE ~broken /\ PosInv'
    OBVIOUS
  <2>1. ~broken /\ ~AtNotify(stack)
    BY <1>3, <1>4
  <2>2. pos = 0 /\ NoneBelow(stack)
    BY <2>1, <1>1 DEF StreamInv, PosInv
  <2> QED
    BY <2>1, <2>2, <1>2, <1>3 DEF PosInv
<1> QED
  BY <1>2, <1>3, <1>5, QuietInv

\* The answer at the front belongs to the call whose entry is found, and that call
\* has not had its callback unless the stream is spoilt.
LEMMA AnswerInvStep ==
  ASSUME ChannelInv, HandleAnswer
  PROVE  /\ BaseInv' /\ StreamInv'
         /\ Message.id \in Ids /\ Message.call \in Calls /\ cobs[Message.id] = Message.call
         /\ ran' = [ran EXCEPT ![Message.call] = Append(@, Message.call)]
         /\ cobs' = cobs /\ made' = made
         /\ ~broken => ran[Message.call] = <<>>
<1>1. TypeOK /\ BaseInv /\ StreamInv /\ TrafficInv /\ CallsInv /\ IdInv /\ AnswerInv /\ FrameInv
  BY DEF ChannelInv, BaseInv
<1> DEFINE m == Message
           n == Message.id
           c == Message.call
           z == Size(Message)
           f == [at |-> "callback", id |-> n, live |-> TRUE]
<1>2. /\ m \in Messages /\ z \in 2..3 /\ pos + z <= Len(inbuf) /\ pos + 1 \in 1..Len(inbuf)
      /\ inbuf[pos + 1].part = 1 /\ inbuf[pos + 1].msg = m /\ InUnits(m, Stream)
      /\ stack # <<>> /\ Top.at = "loop" /\ ~AtNotify(stack)
  BY <1>1, MessageFacts DEF HandleAnswer
<1>3. /\ n # IdZero /\ cobs[n] # NoCall /\ Commit(z) /\ ran' = [ran EXCEPT ![cobs[n]] = Append(@, c)]
      /\ stack' = Kill(TopNow(f), "notify")
      /\ UNCHANGED <<seq, cobs, broken, made, up, asked, wire>>
  BY DEF HandleAnswer, Cob, RunCallback, link
<1>4. n \in Ids /\ m = [id |-> n, call |-> c] /\ c \in Calls
  <2>1. PICK k \in DOMAIN Stream : Stream[k].msg = m
    BY <1>2 DEF InUnits
  <2>2. c \in Calls
    BY <2>1, <1>1, <1>3 DEF TrafficInv, Traffic, RequestsOnly
  <2>3. n \in Ids /\ m = [id |-> n, call |-> c]
    BY <1>2, <1>3 DEF Messages
  <2> QED
    BY <2>2, <2>3
<1>5. OnItsWay(n, c)
  BY <1>2, <1>4 DEF OnItsWay, Flying
<1>6. cobs[n] = c
  BY <1>1, <1>3, <1>4, <1>5 DEF AnswerInv
<1>7. ran' = [ran EXCEPT ![c] = Append(@, c)]
  BY <1>3, <1>6
<1>8. /\ f \in FrameType /\ f.at = "callback" /\ f.live /\ f.id = n
  BY <1>4, FrameTypes
<1> DEFINE st == TopNow(f)
<1>9. /\ st \in Seq(FrameType)
      /\ \A i : Runs(st, i) <=> Runs(stack, i) \/ i = n
      /\ FrameIds(stack) => FrameIds(st)
  <2>1. Top.at # "callback"
    BY <1>2
  <2>2. /\ st \in Seq(FrameType)
        /\ \A i : Runs(st, i) <=> Runs(stack, i) \/ (f.at = "callback" /\ f.live /\ f.id = i)
        /\ FrameIds(stack) /\ (f.at = "callback" => f.id \in Ids) => FrameIds(st)
    BY <2>1, <1>1, <1>2, <1>8, TopNowFacts
  <2> HIDE DEF st, f
  <2> QED
    BY <2>2, <1>4, <1>8
<1> HIDE DEF st, f
<1>10. /\ \A i : Runs(stack', i) <=> Runs(stack, i) \/ i = n
       /\ FrameIds(stack') /\ NoneBelow(stack') /\ ~AtNotify(stack')
  <2>1. FrameIds(st)
    BY <1>1, <1>9 DEF FrameInv
  <2>2. stack' = Kill(st, "notify")
    BY <1>3 DEF st
  <2>3. /\ \A i : Runs(stack', i) <=> Runs(st, i)
        /\ FrameIds(stack') /\ NoneBelow(stack') /\ ~AtNotify(stack')
    BY <2>1, <2>2, <1>9, StackKill
  <2> QED
    BY <2>3, <1>9
<1>11. PICK k \in 0..Len(Stream) : Stream' = Drop(Stream, k) /\ (z <= Len(inbuf) => k = z)
  <2>1. z \in Nat /\ Commit(z) /\ wire' = wire
    BY <1>2, <1>3
  <2> HIDE DEF z
  <2> QED
    BY <2>1, <1>1, CommitFacts
<1>12. pos' = 0
  BY <1>3 DEF Commit
<1>13. /\ up \in Seq(Messages) /\ asked \in SUBSET Messages /\ Stream \in Seq(UnitType)
       /\ Traffic(up, asked, Stream)
  BY <1>1, StreamType DEF TypeOK, TrafficInv
<1>14. /\ Traffic(up', asked', Stream')
       /\ \A x : Flying(x, up', asked', Stream') => Flying(x, up, asked, Stream)
  BY <1>3, <1>11, <1>13, TrafficDropped
<1>15. \A i, d : OnItsWay(i, d)' => OnItsWay(i, d)
  BY <1>14 DEF OnItsWay
<1>16. /\ ran \in [Calls -> Seq(Calls \cup {NoCall})]
       /\ ran'[c] # <<>> /\ \A d \in Calls : d # c => ran'[d] = ran[d]
  <2>1. ran \in [Calls -> Seq(Calls \cup {NoCall})]
    BY <1>1 DEF TypeOK
  <2>2. Append(ran[c], c) # <<>>
    <3> DEFINE q == ran[c]
    <3>1. q \in Seq(Calls \cup {NoCall})
      BY <2>1, <1>4
    <3> HIDE DEF q
    <3>2. Append(q, c) # <<>>
      BY <3>1
    <3> QED
      BY <3>2 DEF q
  <2>3. ran'[c] = Append(ran[c], c)
    BY <2>1, <1>4, <1>7
  <2> QED
    BY <2>1, <2>2, <2>3, <1>7
<1>17. ASSUME NEW i \in Ids PROVE cobs[i] # NoCall => cobs[i] \in Calls /\ cobs[i] \in made
  BY <1>1 DEF CallsInv, TypeOK
<1>18. c \in made
  BY <1>3, <1>4, <1>6, <1>17
<1>19. BaseInv'
  <2>1. CallsInv'
    BY <1>1, <1>3, <1>16, <1>18 DEF CallsInv
  <2>2. ASSUME NEW i \in Ids, InUse(i)' PROVE InUse(i)
    BY <2>2, <1>3, <1>10, <1>15 DEF InUse
  <2>3. IdInv'
    BY <2>2, <1>1, <1>3 DEF IdInv, Age
  <2>4. AnswerInv'
    BY <1>1, <1>3, <1>15 DEF AnswerInv
  <2>5. FrameInv'
    <3> SUFFICES ASSUME NEW i \in Ids, Runs(stack', i), cobs'[i] # NoCall PROVE ran'[cobs'[i]] # <<>>
      BY <1>10 DEF FrameInv
    <3>1. CASE cobs[i] = c
      BY <3>1, <1>3, <1>16
    <3>2. CASE cobs[i] # c
      <4>1. i # n
        BY <3>2, <1>6
      <4>2. ran[cobs[i]] # <<>>
        BY <4>1, <1>1, <1>3, <1>10 DEF FrameInv
      <4> QED
        BY <4>2, <3>2, <1>3, <1>16, <1>17
    <3> QED
      BY <3>1, <3>2
  <2> QED
    BY <2>1, <2>3, <2>4, <2>5, <1>14 DEF BaseInv, TrafficInv
<1>20. ASSUME ~broken
       PROVE  ran[c] = <<>> /\ Whole(Stream') /\ PosInv' /\ EntryInv'
  <2>1. Whole(Stream) /\ PosInv /\ EntryInv
    BY <1>1, <1>20 DEF StreamInv
  <2>2. pos = 0
    BY <2>1, <1>2 DEF PosInv
  <2>3. z <= Len(inbuf) /\ Stream # <<>> /\ Stream[1].msg = m
    <3>1. z <= Len(inbuf) /\ 1 \in 1..Len(inbuf) /\ inbuf[1].msg = m
      <4> HIDE DEF z
      <4>1. z \in Nat /\ Len(inbuf) \in Nat /\ 0 + 1 = 1 /\ 0 + z = z
        BY <1>1, <1>2, StreamType
      <4> QED
        BY <4>1, <2>2, <1>2
    <3>2. Stream[1] = inbuf[1] /\ Len(Stream) = Len(inbuf) + Len(wire) /\ Len(inbuf) \in Nat /\ Len(wire) \in Nat
      BY <3>1, <1>1, StreamType
    <3>3. Stream # <<>>
      BY <3>1, <3>2
    <3> QED
      BY <3>1, <3>2, <3>3
  <2>4. Stream' = Drop(Stream, Size(m))
    BY <2>3, <1>11
  <2>5. /\ Whole(Drop(Stream, Size(m)))
        /\ \A x : x # m /\ InUnits(x, Stream) => InUnits(x, Drop(Stream, Size(m)))
    BY <2>1, <2>3, <1>13, WholeDrop
  <2>6. ~InUnits(m, Drop(Stream, Size(m)))
    <3>1. InOrderOnce(up, asked, Stream)
      BY <1>13 DEF Traffic
    <3> QED
      BY <3>1, <2>1, <2>3, <1>3, <1>13, WholeDropOnce
  <2>7. ~Flying(m, up', asked', Stream')
    <3>1. ~InUp(m, up) /\ m \notin asked
      BY <1>2, <1>13 DEF Traffic, InOrderOnce, InUp
    <3> QED
      BY <3>1, <2>4, <2>6, <1>3 DEF Flying
  <2>8. ASSUME NEW x, x # m PROVE Flying(x, up, asked, Stream) => Flying(x, up', asked', Stream')
    BY <2>4, <2>5, <2>8, <1>3 DEF Flying
  <2>9. ran[c] = <<>>
    BY <2>1, <1>4, <1>5 DEF EntryInv
  <2>10. PosInv'
    BY <1>10, <1>12 DEF PosInv
  <2>11. ASSUME NEW i \in Ids, NEW d \in Calls, OnItsWay(i, d)' PROVE cobs'[i] = d /\ ran'[d] = <<>>
    <3>1. cobs[i] = d /\ ran[d] = <<>>
      BY <2>1, <2>11, <1>15 DEF EntryInv
    <3>2. d # c
      <4> SUFFICES ASSUME d = c PROVE FALSE
        OBVIOUS
      <4>1. i = n
        BY <3>1, <1>1, <1>4, <1>6, CallsFinite DEF CallsInv
      <4> QED
        BY <4>1, <2>7, <2>11, <1>4 DEF OnItsWay
    <3> QED
      BY <3>1, <3>2, <1>3, <1>16
  <2>12. ASSUME NEW i \in Ids, cobs'[i] # NoCall, ran'[cobs'[i]] = <<>> PROVE OnItsWay(i, cobs[i])'
    <3>1. cobs[i] # c
      BY <2>12, <1>3, <1>16
    <3>2. ran[cobs[i]] = <<>>
      BY <3>1, <2>12, <1>3, <1>16, <1>17
    <3> DEFINE d == cobs[i]
               x == [id |-> i, call |-> d]
    <3>3. Flying(x, up, asked, Stream)
      BY <3>2, <2>1, <2>12, <1>3 DEF EntryInv, OnItsWay
    <3>4. x # m
      BY <3>1, <1>4
    <3>5. Flying(x, up', asked', Stream')
      BY <3>3, <3>4, <2>8
    <3> QED
      BY <3>5, <1>3 DEF OnItsWay
  <2>13. ASSUME NEW i \in Ids, cobs'[i] # NoCall, ran'[cobs'[i]] # <<>> PROVE Runs(stack', i)
    <3>1. CASE cobs[i] = c
      <4>1. i = n
        BY <3>1, <1>1, <1>4, <1>6, CallsFinite DEF CallsInv
      <4> QED
        BY <4>1, <1>10
    <3>2. CASE cobs[i] # c
      BY <3>2, <2>1, <2>13, <1>3, <1>10, <1>16, <1>17 DEF EntryInv
    <3> QED
      BY <3>1, <3>2
  <2>14. EntryInv'
    BY <2>11, <2>12, <2>13, <1>3 DEF EntryInv
  <2> QED
    BY <2>4, <2>5, <2>9, <2>10, <2>14
<1>21. StreamInv'
  BY <1>3, <1>20 DEF StreamInv
<1> QED
  BY <1>3, <1>4, <1>6, <1>7, <1>19, <1>20, <1>21

\* An entry is erased after its callback.
LEMMA ReturnInvStep ==
  ASSUME ChannelInv, CallbackReturns
  PROVE  /\ BaseInv' /\ StreamInv'
         /\ Top.id \in Ids /\ cobs' = [cobs EXCEPT ![Top.id] = NoCall] /\ ran' = ran /\ made' = made
         /\ cobs[Top.id] # NoCall => ran[cobs[Top.id]] # <<>>
<1>1. TypeOK /\ BaseInv /\ StreamInv /\ TrafficInv /\ CallsInv /\ IdInv /\ AnswerInv /\ FrameInv
  BY DEF ChannelInv, BaseInv
<1>2. /\ stack # <<>> /\ Top.at = "callback" /\ cobs' = [cobs EXCEPT ![Top.id] = NoCall]
      /\ UNCHANGED <<seq, inbuf, pos, broken, made, ran, up, asked, wire>>
  BY DEF CallbackReturns, Inside, link
<1> DEFINE n == Top.id
<1>3. /\ stack' \in Seq(FrameType)
      /\ \A i : Runs(stack', i) <=> Runs(stack, i) /\ i # n
      /\ FrameIds(stack) => FrameIds(stack')
      /\ NoneBelow(stack) => NoneBelow(stack')
      /\ ~AtNotify(stack') /\ ~AtNotify(stack)
      /\ Runs(stack, n)
  BY <1>1, ReturnFacts
<1>4. n \in Ids
  <2>1. Len(stack) \in DOMAIN stack /\ Top = stack[Len(stack)]
    BY <1>1, <1>2, LastFrame DEF TypeOK, Top
  <2> QED
    BY <2>1, <1>1, <1>2 DEF FrameInv, FrameIds
<1>5. cobs \in [Ids -> Calls \cup {NoCall}]
  BY <1>1 DEF TypeOK
<1>6. n = Top.id
  OBVIOUS
<1> HIDE DEF n
<1>7. cobs' \in [Ids -> Calls \cup {NoCall}] /\ cobs'[n] = NoCall /\ \A i \in Ids : i # n => cobs'[i] = cobs[i]
  BY <1>2, <1>4, <1>5, <1>6
<1>8. cobs[n] # NoCall => ran[cobs[n]] # <<>>
  BY <1>1, <1>3, <1>4 DEF FrameInv
<1>9. Stream' = Stream /\ \A i, d : OnItsWay(i, d)' <=> OnItsWay(i, d)
  BY <1>2 DEF Stream, OnItsWay
<1>10. BaseInv'
  <2>1. TrafficInv'
    BY <1>1, <1>2, <1>9 DEF TrafficInv
  <2>2. CallsInv'
    <3>1. \A i \in Ids : cobs'[i] \in made' \cup {NoCall}
      BY <1>1, <1>2, <1>7 DEF CallsInv
    <3>2. \A i, k \in Ids : cobs'[i] = cobs'[k] /\ cobs'[i] # NoCall => i = k
      BY <1>1, <1>7 DEF CallsInv
    <3> QED
      BY <3>1, <3>2, <1>1, <1>2 DEF CallsInv
  <2>3. ASSUME NEW i \in Ids, InUse(i)' PROVE InUse(i)
    <3>1. cobs'[i] # NoCall => cobs[i] # NoCall
      BY <1>7
    <3> QED
      BY <3>1, <2>3, <1>3, <1>9 DEF InUse
  <2>4. IdInv'
    BY <2>3, <1>1, <1>2 DEF IdInv, Age
  <2>5. AnswerInv'
    BY <1>1, <1>7, <1>9 DEF AnswerInv
  <2>6. FrameInv'
    <3>1. FrameIds(stack')
      BY <1>1, <1>3 DEF FrameInv
    <3>2. ASSUME NEW i \in Ids, Runs(stack', i), cobs'[i] # NoCall PROVE ran'[cobs'[i]] # <<>>
      BY <3>2, <1>1, <1>2, <1>3, <1>7 DEF FrameInv
    <3> QED
      BY <3>1, <3>2 DEF FrameInv
  <2> QED
    BY <2>1, <2>2, <2>4, <2>5, <2>6 DEF BaseInv
<1>11. StreamInv'
  <2> SUFFICES ASSUME ~broken PROVE Whole(Stream') /\ PosInv' /\ EntryInv'
    BY <1>2 DEF StreamInv
  <2>1. Whole(Stream) /\ PosInv /\ EntryInv
    BY <1>1 DEF StreamInv
  <2>2. PosInv'
    BY <2>1, <1>2, <1>3 DEF PosInv
  <2>3. ASSUME NEW i \in Ids, NEW d \in Calls, OnItsWay(i, d)' PROVE cobs'[i] = d /\ ran'[d] = <<>>
    <3>1. cobs[i] = d /\ ran[d] = <<>>
      BY <2>1, <2>3, <1>9 DEF EntryInv
    <3>2. i # n
      BY <3>1, <1>8, CallsFinite
    <3> QED
      BY <3>1, <3>2, <1>2, <1>7
  <2>4. ASSUME NEW i \in Ids, cobs'[i] # NoCall
        PROVE  i # n /\ cobs'[i] = cobs[i] /\ ran' = ran
    BY <2>4, <1>2, <1>7
  <2>5. ASSUME NEW i \in Ids, cobs'[i] # NoCall, ran'[cobs'[i]] = <<>> PROVE OnItsWay(i, cobs[i])'
    <3>1. OnItsWay(i, cobs[i])
      BY <2>1, <2>4, <2>5 DEF EntryInv
    <3>2. Flying([id |-> i, call |-> cobs[i]], up', asked', Stream')
      BY <3>1, <1>2, <1>9 DEF OnItsWay
    <3> QED
      BY <3>2, <2>4, <2>5 DEF OnItsWay
  <2>6. ASSUME NEW i \in Ids, cobs'[i] # NoCall, ran'[cobs'[i]] # <<>> PROVE Runs(stack', i)
    BY <2>1, <2>4, <2>6, <1>3 DEF EntryInv
  <2>7. EntryInv'
    BY <2>3, <2>5, <2>6 DEF EntryInv
  <2> QED
    BY <2>1, <2>2, <2>7, <1>9
<1> QED
  BY <1>2, <1>4, <1>6, <1>8, <1>10, <1>11

\* The broadcast at the front is committed as a whole.
LEMMA NotifiedInv ==
  ASSUME ChannelInv, NotifyReturns
  PROVE  BaseInv' /\ StreamInv'
<1>1. TypeOK /\ BaseInv /\ StreamInv /\ TrafficInv /\ FrameIds(stack)
  BY DEF ChannelInv, BaseInv, FrameInv
<1>2. /\ stack # <<>> /\ Top.at = "notify" /\ Top.live /\ Commit(NotifySize) /\ AtNotify(stack)
      /\ stack' = Kill(TopNow(LoopFrame), "notify")
      /\ UNCHANGED <<seq, cobs, broken, made, ran, up, asked, wire>>
  BY DEF NotifyReturns, Inside, AtNotify, Top, LoopFrame, link
<1>3. /\ \A i : Runs(stack', i) <=> Runs(stack, i)
      /\ FrameIds(stack') /\ NoneBelow(stack') /\ ~AtNotify(stack')
  <2> DEFINE st == TopNow(LoopFrame)
  <2>1. /\ st \in Seq(FrameType)
        /\ \A i : Runs(st, i) <=> Runs(stack, i)
        /\ FrameIds(stack) => FrameIds(st)
    BY <1>1, <1>2, LoopFrameType, TopNowFacts
  <2>2. stack' = Kill(st, "notify")
    BY <1>2
  <2> HIDE DEF st
  <2>3. /\ \A i : Runs(stack', i) <=> Runs(st, i)
        /\ FrameIds(st) => FrameIds(stack')
        /\ NoneBelow(stack') /\ ~AtNotify(stack')
    BY <2>1, <2>2, StackKill
  <2> QED
    BY <2>1, <2>3, <1>1
<1>4. NotifySize \in 2..3 /\ NotifySize \in Nat
  <2>1. NotifySize \in 2..3
    BY ChannelAssumption
  <2> QED
    BY <2>1
<1>5. PICK k \in 0..Len(Stream) : Stream' = Drop(Stream, k) /\ (NotifySize <= Len(inbuf) => k = NotifySize)
  BY <1>1, <1>2, <1>4, CommitFacts
<1>6. pos' = 0
  BY <1>2 DEF Commit
<1>7. /\ up \in Seq(Messages) /\ asked \in SUBSET Messages /\ Stream \in Seq(UnitType)
      /\ Traffic(up, asked, Stream)
  BY <1>1, StreamType DEF TypeOK, TrafficInv
<1>8. /\ Traffic(up', asked', Stream')
      /\ \A x : Flying(x, up', asked', Stream') => Flying(x, up, asked, Stream)
  BY <1>2, <1>5, <1>7, TrafficDropped
<1>9. BaseInv'
  BY <1>1, <1>2, <1>3, <1>8, BaseQuiet
<1>10. StreamInv'
  <2> SUFFICES ASSUME ~broken PROVE Whole(Stream') /\ PosInv' /\ EntryInv'
    BY <1>2 DEF StreamInv
  <2>1. Whole(Stream) /\ PosInv /\ EntryInv
    BY <1>1 DEF StreamInv
  <2>2. Len(inbuf) >= NotifySize /\ inbuf[1].msg.id = IdZero
    BY <2>1, <1>2 DEF PosInv
  <2>3. /\ Len(Stream) = Len(inbuf) + Len(wire) /\ Len(inbuf) \in Nat /\ Len(wire) \in Nat
        /\ \A k2 \in 1..Len(inbuf) : Stream[k2] = inbuf[k2]
    BY <1>1, StreamType
  <2>4. 1 \in 1..Len(inbuf) /\ NotifySize <= Len(inbuf)
    BY <2>2, <2>3, <1>4
  <2>5. Stream # <<>> /\ Stream[1].msg.id = IdZero
    BY <2>2, <2>3, <2>4
  <2> DEFINE m == Stream[1].msg
  <2>6. Size(m) = NotifySize
    BY <2>5 DEF Size
  <2>7. Stream' = Drop(Stream, Size(m))
    BY <2>4, <2>6, <1>5
  <2>8. /\ Whole(Drop(Stream, Size(m)))
        /\ \A x : x # m /\ InUnits(x, Stream) => InUnits(x, Drop(Stream, Size(m)))
    BY <2>1, <2>5, <1>7, WholeDrop
  <2>9. m.id = IdZero
    BY <2>5
  <2> HIDE DEF m
  <2>10. \A x : x.id # IdZero => (Flying(x, up', asked', Stream') <=> Flying(x, up, asked, Stream))
    BY <2>7, <2>8, <2>9, <1>2, <1>8 DEF Flying
  <2>11. EntryInv'
    BY <2>1, <2>10, <1>2, <1>3, EntryQuiet
  <2>12. PosInv'
    BY <1>3, <1>6 DEF PosInv
  <2> QED
    BY <2>7, <2>8, <2>11, <2>12
<1> QED
  BY <1>9, <1>10

LEMMA LoopInv ==
  ASSUME ChannelInv, Loop
  PROVE  BaseInv' /\ StreamInv'
<1>1. TypeOK /\ BaseInv /\ StreamInv /\ FrameIds(stack)
  BY DEF ChannelInv, BaseInv, FrameInv
<1>2. Inside("loop") =>
        /\ Leave \in Seq(FrameType)
        /\ \A i : Runs(Leave, i) <=> Runs(stack, i)
        /\ FrameIds(Leave)
        /\ NoneBelow(stack) => NoneBelow(Leave) /\ ~AtNotify(Leave)
        /\ ~AtNotify(stack)
  BY <1>1, LeaveFacts
<1>3. CASE LoopEnds
  <2>1. stack' = Leave /\ Inside("loop") /\ UNCHANGED <<up, asked, made, ran, seq, cobs, inbuf, wire, pos, broken>>
    BY <1>3 DEF LoopEnds, link
  <2>2. ~broken' => ~broken /\ PosInv'
    <3> SUFFICES ASSUME ~broken PROVE PosInv'
      BY <2>1
    <3>1. pos = 0 /\ NoneBelow(stack)
      BY <2>1, <1>1, <1>2 DEF StreamInv, PosInv
    <3> QED
      BY <3>1, <2>1, <1>2 DEF PosInv
  <2>3. Stream' = Stream
    BY <2>1 DEF Stream
  <2> QED
    BY <2>1, <2>2, <2>3, <1>2, QuietInv
<1>4. CASE LoopCloses
  BY <1>1, <1>2, <1>4, ClearedInv DEF LoopCloses
<1>5. CASE LoopUnreads
  <2>1. stack' = Leave /\ Inside("loop") /\ pos' = 0 /\ UNCHANGED <<up, asked, made, ran, seq, cobs, inbuf, wire, broken>>
    BY <1>5 DEF LoopUnreads, link
  <2>2. ~broken' => ~broken /\ PosInv'
    <3> SUFFICES ASSUME ~broken PROVE PosInv'
      BY <2>1
    <3>1. NoneBelow(stack)
      BY <1>1 DEF StreamInv, PosInv
    <3> QED
      BY <3>1, <2>1, <1>2 DEF PosInv
  <2>3. Stream' = Stream
    BY <2>1 DEF Stream
  <2> QED
    BY <2>1, <2>2, <2>3, <1>2, QuietInv
<1>6. CASE HandleNotify
  <2> DEFINE f == [at |-> "notify", id |-> IdZero, live |-> TRUE]
             z == Size(Message)
  <2>1. /\ stack' = TopNow(f) /\ pos' = pos + z /\ Message.id = IdZero
        /\ UNCHANGED <<up, asked, made, ran, seq, cobs, inbuf, wire, broken>>
    BY <1>6 DEF HandleNotify, link
  <2>2. /\ stack # <<>> /\ Top.at = "loop" /\ z \in 2..3 /\ pos + z <= Len(inbuf) /\ pos + 1 \in 1..Len(inbuf)
        /\ inbuf[pos + 1].msg = Message /\ ~AtNotify(stack)
    BY <1>1, <1>6, MessageFacts DEF HandleNotify
  <2>3. f \in FrameType /\ f.at = "notify" /\ f.live
    BY FrameTypes
  <2>4. z = NotifySize
    BY <2>1 DEF Size
  <2> HIDE DEF f, z
  <2>5. /\ \A i : Runs(stack', i) <=> Runs(stack, i)
        /\ FrameIds(stack')
        /\ NoneBelow(stack) => NoneBelow(stack')
        /\ AtNotify(stack')
    BY <2>1, <2>2, <2>3, <1>1, TopNowFacts
  <2>6. ~broken' => ~broken /\ PosInv'
    <3> SUFFICES ASSUME ~broken PROVE PosInv'
      BY <2>1
    <3>1. pos = 0 /\ NoneBelow(stack)
      BY <2>2, <1>1 DEF StreamInv, PosInv
    <3>2. pos' = NotifySize /\ Len(inbuf') >= NotifySize /\ inbuf'[1].msg.id = IdZero
      <4>1. Len(inbuf) \in Nat /\ inbuf' = inbuf
        BY <2>1, <1>1, StreamType
      <4>2. pos' = z /\ z <= Len(inbuf) /\ inbuf[1].msg = Message
        BY <3>1, <2>1, <2>2, <4>1
      <4> QED
        BY <4>1, <4>2, <2>1, <2>4
    <3> QED
      BY <3>1, <3>2, <2>5 DEF PosInv
  <2>7. Stream' = Stream
    BY <2>1 DEF Stream
  <2> QED
    BY <2>1, <2>5, <2>6, <2>7, QuietInv
<1>7. CASE HandleAnswer
  BY <1>7, AnswerInvStep
<1>8. CASE HandleUnknown
  BY <1>1, <1>2, <1>8, ClearedInv DEF HandleUnknown, HasMessage
<1> QED
  BY <1>3, <1>4, <1>5, <1>6, <1>7, <1>8 DEF Loop

LEMMA ReturnsInv ==
  ASSUME ChannelInv, Returns
  PROVE  BaseInv' /\ StreamInv'
<1>1. TypeOK /\ BaseInv /\ StreamInv /\ FrameIds(stack)
  BY DEF ChannelInv, BaseInv, FrameInv
<1>2. CASE NotifyFails
  <2>1. /\ stack # <<>> /\ Top.at # "callback" /\ stack' = TopNow(LoopFrame) /\ broken' = TRUE
        /\ UNCHANGED <<up, asked, made, ran, seq, cobs, inbuf, wire>>
    BY <1>2 DEF NotifyFails, Inside, LoopFrame, link
  <2>2. /\ \A i : Runs(stack', i) <=> Runs(stack, i)
        /\ FrameIds(stack')
    BY <2>1, <1>1, LoopFrameType, TopNowFacts
  <2>3. Stream' = Stream
    BY <2>1 DEF Stream
  <2> QED
    BY <2>1, <2>2, <2>3, QuietInv
<1>3. CASE UseStale
  <2>1. UNCHANGED <<up, asked, made, ran, seq, cobs, inbuf, wire, stack, pos, broken>>
    BY <1>3 DEF UseStale, link
  <2>2. Stream' = Stream
    BY <2>1 DEF Stream
  <2>3. ~broken' => ~broken /\ PosInv'
    BY <2>1, <1>1 DEF StreamInv, PosInv
  <2> QED
    BY <2>1, <2>2, <2>3, QuietInv
<1> QED
  BY <1>2, <1>3, NotifiedInv, ReturnInvStep DEF Returns

LEMMA ChannelStep ==
  ASSUME ChannelInv, [Next]_vars
  PROVE  ChannelInv'
<1>1. TypeOK /\ BaseInv /\ StreamInv /\ FrameIds(stack)
  BY DEF ChannelInv, BaseInv, FrameInv
<1>2. TypeOK'
  BY <1>1, TypeStep
<1> SUFFICES BaseInv' /\ StreamInv'
  BY <1>2 DEF ChannelInv
<1>3. ASSUME UNCHANGED <<up, asked, made, ran, seq, cobs, inbuf, wire, stack, pos, broken>>
      PROVE  BaseInv' /\ StreamInv'
  <2>1. Stream' = Stream
    BY <1>3 DEF Stream
  <2>2. ~broken' => ~broken /\ PosInv'
    BY <1>1, <1>3 DEF StreamInv, PosInv
  <2> QED
    BY <2>1, <2>2, <1>3, QuietInv
<1>4. CASE Connect \/ Connected \/ UNCHANGED vars
  <2>1. UNCHANGED <<up, asked, made, ran, seq, cobs, inbuf, wire, stack, pos, broken>>
    BY <1>4 DEF Connect, Connected, vars, link
  <2> QED
    BY <2>1, <1>3
<1>5. CASE ConnectFails \/ Lost
  <2>1. stack \in Seq(FrameType)
    BY <1>1 DEF TypeOK
  <2>2. Cleared(stack)
    BY <1>5 DEF ConnectFails, Lost
  <2> QED
    BY <2>1, <2>2, <1>1, ClearedInv
<1>6. ASSUME NEW c \in Calls, Refused(c) \/ Send(c) \/ SendFails(c) PROVE BaseInv' /\ StreamInv'
  BY <1>6, AtOnceInv, SendInv
<1>7. ASSUME NEW n \in 1..Len(wire), NEW moved \in BOOLEAN, Deliver(n, moved) PROVE BaseInv' /\ StreamInv'
  BY <1>7, DeliverInv
<1>8. CASE Loop \/ Returns
  BY <1>8, LoopInv, ReturnsInv
<1>9. CASE Ask \/ (\E r \in asked : Reply(r)) \/ Broadcast
  BY <1>9, LinkInv
<1> QED
  BY <1>4, <1>5, <1>6, <1>7, <1>8, <1>9 DEF Next

LEMMA InitInv ==
  ASSUME Init
  PROVE  ChannelInv
<1>1. TypeOK
  BY InitType
<1>2. /\ up = <<>> /\ asked = {} /\ inbuf = <<>> /\ wire = <<>> /\ stack = <<>> /\ pos = 0
      /\ (\A i \in Ids : cobs[i] = NoCall) /\ (\A c \in Calls : ran[c] = <<>>)
  BY DEF Init
<1>3. Stream = <<>>
  BY <1>2 DEF Stream
<1>4. Traffic(up, asked, Stream) /\ \A m : ~Flying(m, up, asked, Stream)
  BY <1>2, <1>3, TrafficEmpty
<1>5. \A i, c : ~OnItsWay(i, c)
  BY <1>4 DEF OnItsWay
<1>6. (\A i : ~Runs(stack, i)) /\ FrameIds(stack) /\ NoneBelow(stack) /\ ~AtNotify(stack)
  BY <1>2 DEF Runs, FrameIds, NoneBelow, AtNotify
<1>7. BaseInv
  BY <1>2, <1>4, <1>5, <1>6 DEF BaseInv, TrafficInv, CallsInv, IdInv, InUse, AnswerInv, FrameInv
<1>8. StreamInv
  BY <1>2, <1>3, <1>5, <1>6 DEF StreamInv, Whole, PosInv, EntryInv
<1> QED
  BY <1>1, <1>7, <1>8 DEF ChannelInv

-----------------------------------------------------------------------------
(***************************************************************************)
(* The theorems.                                                           *)
(***************************************************************************)

\* The channel's variables are consistent at every moment: what is on its way, the
\* entries, the ids in use, the frames under way and, while it is not spoilt, the
\* stream (ripcclientchannel.cpp:267-336, 415-635).
THEOREM ChannelInvariant == Spec => []ChannelInv
<1>1. Init => ChannelInv
  BY InitInv
<1>2. ChannelInv /\ [Next]_vars => ChannelInv'
  BY ChannelStep
<1> QED
  BY <1>1, <1>2, PTL DEF Spec

\* Every variable keeps its type, whatever is delivered, called, answered or lost
\* in whatever order (ripcclientchannel.cpp:63-135, 267-336, 415-635).
THEOREM TypeCorrect == Spec => []TypeOK
<1>1. ChannelInv => TypeOK
  BY DEF ChannelInv
<1> QED
  BY <1>1, ChannelInvariant, PTL

\* onRecvData looks for a header only where a message begins, however the stream is
\* cut, unless a broadcast has been left uncommitted (ripcclientchannel.cpp:112-129,
\* 415-457, 490-503, 564).
THEOREM HeaderWhereMessageBegins == Spec => []StreamInSync
<1>1. ASSUME ChannelInv PROVE StreamInSync
  <2> SUFFICES ASSUME Inside("loop"), ~broken PROVE pos = 0 /\ (inbuf # <<>> => inbuf[1].part = 1)
    BY DEF StreamInSync
  <2>1. TypeOK /\ Whole(Stream) /\ PosInv
    BY <1>1 DEF ChannelInv, StreamInv
  <2>2. ~AtNotify(stack)
    BY DEF Inside, AtNotify, Top
  <2>3. pos = 0
    BY <2>1, <2>2 DEF PosInv
  <2>4. ASSUME inbuf # <<>> PROVE inbuf[1].part = 1
    <3>1. /\ Stream \in Seq(UnitType) /\ Len(Stream) = Len(inbuf) + Len(wire)
          /\ Len(inbuf) \in Nat /\ Len(wire) \in Nat /\ \A k \in 1..Len(inbuf) : Stream[k] = inbuf[k]
      BY <2>1, StreamType
    <3>2. Len(inbuf) # 0
      BY <2>1, <2>4 DEF TypeOK
    <3>3. Stream[1] = inbuf[1] /\ Stream # <<>>
      BY <3>1, <3>2
    <3> QED
      BY <3>3, <2>1 DEF Whole
  <2> QED
    BY <2>3, <2>4
<1> QED
  BY <1>1, ChannelInvariant, PTL

\* While the stream is whole, the last unit of a message on its way is in the
\* buffer or on the wire, and not in both.
LEMMA EndUnit ==
  ASSUME TypeOK, TrafficInv, Whole(Stream), NEW m \in Messages, m.id # IdZero
  PROVE  /\ InUnits(m, Stream) <=> InStream(m, inbuf) \/ InStream(m, wire)
         /\ ~(InStream(m, inbuf) /\ InStream(m, wire))
<1>1. /\ Stream \in Seq(UnitType) /\ Len(Stream) = Len(inbuf) + Len(wire)
      /\ Len(inbuf) \in Nat /\ Len(wire) \in Nat
      /\ \A k \in 1..Len(inbuf) : Stream[k] = inbuf[k]
      /\ \A k \in 1..Len(wire) : Stream[Len(inbuf) + k] = wire[k]
  BY StreamType
<1>2. DOMAIN Stream = 1..Len(Stream) /\ DOMAIN inbuf = 1..Len(inbuf) /\ DOMAIN wire = 1..Len(wire)
  BY <1>1 DEF TypeOK
<1> DEFINE e == [msg |-> m, part |-> Size(m)]
<1>3. e.msg = m
  OBVIOUS
<1>4. (InStream(m, inbuf) <=> \E i \in DOMAIN inbuf : inbuf[i] = e) /\ (InStream(m, wire) <=> \E i \in DOMAIN wire : wire[i] = e)
  BY DEF InStream
<1>5. InUnits(m, Stream) => \E i \in DOMAIN Stream : Stream[i] = e
  BY <1>1, WholeFound
<1> HIDE DEF e
<1>6. ASSUME NEW i \in DOMAIN Stream, Stream[i] = e PROVE InStream(m, inbuf) \/ InStream(m, wire)
  <2>1. CASE i <= Len(inbuf)
    BY <2>1, <1>1, <1>2, <1>4, <1>6
  <2>2. CASE i > Len(inbuf)
    <3> DEFINE k == i - Len(inbuf)
    <3>1. k \in DOMAIN wire /\ Len(inbuf) + k = i
      BY <2>2, <1>1, <1>2
    <3> HIDE DEF k
    <3> QED
      BY <3>1, <1>1, <1>2, <1>4, <1>6
  <2> QED
    BY <2>1, <2>2, <1>1, <1>2
<1>7. ASSUME InStream(m, inbuf) PROVE \E i \in DOMAIN Stream : i <= Len(inbuf) /\ Stream[i] = e
  <2>1. PICK i \in DOMAIN inbuf : inbuf[i] = e
    BY <1>4, <1>7
  <2>2. i \in DOMAIN Stream /\ i <= Len(inbuf)
    BY <1>1, <1>2
  <2> QED
    BY <2>1, <2>2, <1>1, <1>2
<1>8. ASSUME InStream(m, wire) PROVE \E i \in DOMAIN Stream : i > Len(inbuf) /\ Stream[i] = e
  <2>1. PICK k \in DOMAIN wire : wire[k] = e
    BY <1>4, <1>8
  <2>2. Len(inbuf) + k \in DOMAIN Stream /\ Len(inbuf) + k > Len(inbuf)
    BY <1>1, <1>2
  <2> QED
    BY <2>1, <2>2, <1>1, <1>2
<1>9. InStream(m, inbuf) \/ InStream(m, wire) => InUnits(m, Stream)
  BY <1>3, <1>7, <1>8 DEF InUnits
<1>10. ~(InStream(m, inbuf) /\ InStream(m, wire))
  <2> SUFFICES ASSUME InStream(m, inbuf), InStream(m, wire) PROVE FALSE
    OBVIOUS
  <2>1. PICK i \in DOMAIN Stream : i <= Len(inbuf) /\ Stream[i] = e
    BY <1>7
  <2>2. PICK k \in DOMAIN Stream : k > Len(inbuf) /\ Stream[k] = e
    BY <1>8
  <2>3. i = k
    BY <2>1, <2>2, <1>3 DEF TrafficInv, Traffic, InOrderOnce
  <2> QED
    BY <2>1, <2>2, <2>3, <1>1, <1>2
<1> QED
  BY <1>5, <1>6, <1>9, <1>10

LEMMA Places ==
  ASSUME NEW m
  PROVE  /\ Whereabouts(m) \subseteq {"up", "server", "wire", "buffer"}
         /\ "up" \in Whereabouts(m) <=> InUp(m, up)
         /\ "server" \in Whereabouts(m) <=> m \in asked
         /\ "wire" \in Whereabouts(m) <=> InStream(m, wire)
         /\ "buffer" \in Whereabouts(m) <=> InStream(m, inbuf)
BY DEF Whereabouts, InUp

\* Each entry waits for exactly one message, which carries its id and is in one
\* place, or its callback runs; no message is without its entry
\* (ripcclientchannel.cpp:267-336, 545-576).
THEOREM EntryFindsAnswer == Spec => []PendingSomewhere
<1>1. ASSUME ChannelInv PROVE PendingSomewhere
  <2> SUFFICES ASSUME ~broken, NEW i \in Ids
               PROVE  /\ cobs[i] # NoCall /\ ran[cobs[i]] = <<>> =>
                           Cardinality(Whereabouts([id |-> i, call |-> cobs[i]])) = 1
                      /\ cobs[i] # NoCall /\ ran[cobs[i]] # <<>> => Running(cobs[i])
                      /\ cobs[i] = NoCall => \A d \in Calls : Whereabouts([id |-> i, call |-> d]) = {}
    BY DEF PendingSomewhere
  <2>1. TypeOK /\ TrafficInv /\ CallsInv /\ Whole(Stream) /\ EntryInv
    BY <1>1 DEF ChannelInv, BaseInv, StreamInv
  <2>2. cobs[i] # NoCall => cobs[i] \in Calls
    BY <2>1 DEF TypeOK
  <2>3. ASSUME NEW c \in Calls, NEW m, m = [id |-> i, call |-> c]
        PROVE  /\ OnItsWay(i, c) => Cardinality(Whereabouts(m)) = 1
               /\ ~OnItsWay(i, c) => Whereabouts(m) = {}
    <3>1. m \in Messages /\ m.id # IdZero
      BY <2>3 DEF Messages, Ids, IdZero
    <3>2. /\ Whereabouts(m) \subseteq {"up", "server", "wire", "buffer"}
          /\ "up" \in Whereabouts(m) <=> InUp(m, up)
          /\ "server" \in Whereabouts(m) <=> m \in asked
          /\ "wire" \in Whereabouts(m) <=> InStream(m, wire)
          /\ "buffer" \in Whereabouts(m) <=> InStream(m, inbuf)
      BY Places
    <3>3. /\ InUnits(m, Stream) <=> InStream(m, inbuf) \/ InStream(m, wire)
          /\ ~(InStream(m, inbuf) /\ InStream(m, wire))
      BY <2>1, <3>1, EndUnit
    <3>4. /\ InUp(m, up) => m \notin asked /\ ~InUnits(m, Stream)
          /\ m \in asked => ~InUnits(m, Stream)
      BY <2>1 DEF TrafficInv, Traffic, InOrderOnce, InUp
    <3>5. OnItsWay(i, c) <=> InUp(m, up) \/ m \in asked \/ InUnits(m, Stream)
      BY <2>3 DEF OnItsWay, Flying
    <3>6. ASSUME OnItsWay(i, c) PROVE \E x : Whereabouts(m) = {x}
      <4>1. CASE InUp(m, up)
        <5>1. Whereabouts(m) = {"up"}
          BY <4>1, <3>2, <3>3, <3>4
        <5> QED
          BY <5>1
      <4>2. CASE m \in asked
        <5>1. Whereabouts(m) = {"server"}
          BY <4>2, <3>2, <3>3, <3>4
        <5> QED
          BY <5>1
      <4>3. CASE InStream(m, inbuf)
        <5>1. Whereabouts(m) = {"buffer"}
          BY <4>3, <3>2, <3>3, <3>4
        <5> QED
          BY <5>1
      <4>4. CASE InStream(m, wire)
        <5>1. Whereabouts(m) = {"wire"}
          BY <4>4, <3>2, <3>3, <3>4
        <5> QED
          BY <5>1
      <4> QED
        BY <4>1, <4>2, <4>3, <4>4, <3>3, <3>5, <3>6
    <3>7. OnItsWay(i, c) => Cardinality(Whereabouts(m)) = 1
      BY <3>6, FS_Singleton
    <3>8. ~OnItsWay(i, c) => Whereabouts(m) = {}
      BY <3>2, <3>3, <3>5
    <3> QED
      BY <3>7, <3>8
  <2>4. ASSUME cobs[i] # NoCall, ran[cobs[i]] = <<>>
        PROVE  Cardinality(Whereabouts([id |-> i, call |-> cobs[i]])) = 1
    BY <2>1, <2>2, <2>3, <2>4 DEF EntryInv
  <2>5. ASSUME cobs[i] # NoCall, ran[cobs[i]] # <<>> PROVE Running(cobs[i])
    <3>1. Runs(stack, i)
      BY <2>1, <2>5 DEF EntryInv
    <3> QED
      BY <3>1 DEF Runs, Running
  <2>6. ASSUME cobs[i] = NoCall, NEW d \in Calls PROVE Whereabouts([id |-> i, call |-> d]) = {}
    <3>1. ~OnItsWay(i, d)
      BY <2>1, <2>6, CallsFinite DEF EntryInv
    <3> QED
      BY <3>1, <2>3
  <2> QED
    BY <2>4, <2>5, <2>6
<1> QED
  BY <1>1, ChannelInvariant, PTL

(***************************************************************************)
(* The channel implements CallContract.                                    *)
(***************************************************************************)
LEMMA ContractStart ==
  ASSUME Init
  PROVE  Contract!ContractInit
<1>1. made = {} /\ ran = [c \in Calls |-> <<>>] /\ \A i \in Ids : cobs[i] = NoCall
  BY DEF Init
<1>2. \A c \in Calls : ~Pending(c)
  BY <1>1, CallsFinite DEF Pending
<1> QED
  BY <1>1, <1>2 DEF Contract!ContractInit

\* Nothing that a caller can see.
LEMMA ContractStutter ==
  ASSUME made' = made, ran' = ran, \A c \in Calls : Pending(c)' <=> Pending(c)
  PROVE  UNCHANGED Contract!contractVars
<1>1. {c \in Calls : Pending(c)}' = {c \in Calls : Pending(c)}
  OBVIOUS
<1> QED
  BY <1>1 DEF Contract!contractVars

LEMMA ContractForget ==
  ASSUME NEW st, Cleared(st)
  PROVE  Contract!Forget
<1>1. made' = made /\ ran' = ran /\ \A i \in Ids : cobs'[i] = NoCall
  BY DEF Cleared
<1>2. \A c \in Calls : ~Pending(c)'
  BY <1>1, CallsFinite DEF Pending
<1> QED
  BY <1>1, <1>2 DEF Contract!Forget

LEMMA ContractRefuse ==
  ASSUME ChannelInv, NEW c \in Calls, Refused(c) \/ SendFails(c)
  PROVE  Contract!Refuse(c)
<1>1. /\ c \notin made /\ made' = made \cup {c} /\ cobs' = cobs
      /\ ran[c] = <<>> /\ ran' = [ran EXCEPT ![c] = <<NoCall>>]
  BY AtOnceInv
<1>2. TypeOK /\ CallsInv
  BY DEF ChannelInv, BaseInv
<1>3. ran'[c] # <<>> /\ \A d \in Calls : d # c => ran'[d] = ran[d]
  BY <1>1, <1>2 DEF TypeOK
<1>4. \A i \in Ids : cobs[i] # c
  BY <1>1, <1>2, CallsFinite DEF CallsInv
<1>5. ASSUME NEW d \in Calls PROVE Pending(d)' <=> Pending(d)
  <2>1. CASE d = c
    BY <2>1, <1>3, <1>4 DEF Pending
  <2>2. CASE d # c
    BY <2>2, <1>1, <1>3 DEF Pending
  <2> QED
    BY <2>1, <2>2
<1>6. {d \in Calls : Pending(d)}' = {d \in Calls : Pending(d)}
  BY <1>5
<1> QED
  BY <1>1, <1>6 DEF Contract!Refuse

LEMMA ContractIssue ==
  ASSUME ChannelInv, NEW c \in Calls, Send(c)
  PROVE  Contract!Issue(c)
<1>1. /\ c \notin made /\ made' = made \cup {c} /\ ran' = ran /\ ran[c] = <<>>
      /\ NextSeq \in Ids /\ cobs[NextSeq] = NoCall /\ cobs' = [cobs EXCEPT ![NextSeq] = c]
  BY SendInv
<1>2. cobs \in [Ids -> Calls \cup {NoCall}]
  BY DEF ChannelInv, TypeOK
<1> DEFINE n == NextSeq
<1>3. n \in Ids /\ cobs[n] = NoCall /\ cobs'[n] = c /\ \A i \in Ids : i # n => cobs'[i] = cobs[i]
  BY <1>1, <1>2
<1> HIDE DEF n
<1>4. Pending(c)'
  BY <1>1, <1>3 DEF Pending
<1>5. ASSUME NEW d \in Calls, d # c PROVE Pending(d)' <=> Pending(d)
  <2>1. (\E i \in Ids : cobs'[i] = d) <=> \E i \in Ids : cobs[i] = d
    BY <1>3, <1>5, CallsFinite
  <2> QED
    BY <2>1, <1>1 DEF Pending
<1>6. {d \in Calls : Pending(d)}' = {d \in Calls : Pending(d)} \cup {c}
  BY <1>4, <1>5
<1> QED
  BY <1>1, <1>6 DEF Contract!Issue

LEMMA ContractAnswer ==
  ASSUME ChannelInv, HandleAnswer
  PROVE  \E c \in Calls : Contract!Answer(c) \/ Contract!Repeat(c)
<1>1. PICK c \in Calls, n \in Ids :
        /\ cobs[n] = c
        /\ ran' = [ran EXCEPT ![c] = Append(@, c)] /\ cobs' = cobs /\ made' = made
        /\ ~broken => ran[c] = <<>>
  BY AnswerInvStep
<1>2. ran \in [Calls -> Seq(Calls \cup {NoCall})]
  BY DEF ChannelInv, TypeOK
<1>3. ran'[c] # <<>> /\ \A d \in Calls : d # c => ran'[d] = ran[d]
  <2> DEFINE q == ran[c]
  <2>1. q \in Seq(Calls \cup {NoCall}) /\ ran'[c] = Append(q, c)
    BY <1>1, <1>2
  <2> HIDE DEF q
  <2>2. Append(q, c) # <<>>
    BY <2>1
  <2> QED
    BY <2>1, <2>2, <1>1, <1>2
<1>4. ~Pending(c)' /\ \A d \in Calls : d # c => (Pending(d)' <=> Pending(d))
  BY <1>1, <1>3 DEF Pending
<1>5. CASE ran[c] = <<>>
  <2>1. Pending(c)
    BY <1>1, <1>5 DEF Pending
  <2>2. {d \in Calls : Pending(d)}' = {d \in Calls : Pending(d)} \ {c}
    BY <1>4
  <2>3. c \in {d \in Calls : Pending(d)}
    BY <2>1, <1>1
  <2>4. Contract!Answer(c)
    BY <2>2, <2>3, <1>1 DEF Contract!Answer
  <2> QED
    BY <2>4, <1>1
<1>6. CASE ran[c] # <<>>
  <2>1. ~Pending(c)
    BY <1>6 DEF Pending
  <2>2. {d \in Calls : Pending(d)}' = {d \in Calls : Pending(d)}
    BY <2>1, <1>4
  <2>3. Contract!Repeat(c)
    BY <2>2, <1>1, <1>6 DEF Contract!Repeat
  <2> QED
    BY <2>3, <1>1
<1> QED
  BY <1>5, <1>6

LEMMA ContractReturn ==
  ASSUME ChannelInv, CallbackReturns
  PROVE  UNCHANGED Contract!contractVars
<1> DEFINE n == Top.id
<1>1. /\ n \in Ids /\ cobs' = [cobs EXCEPT ![n] = NoCall] /\ ran' = ran /\ made' = made
      /\ cobs[n] # NoCall => ran[cobs[n]] # <<>>
  BY ReturnInvStep
<1> HIDE DEF n
<1>2. cobs \in [Ids -> Calls \cup {NoCall}]
  BY DEF ChannelInv, TypeOK
<1>3. cobs'[n] = NoCall /\ \A i \in Ids : i # n => cobs'[i] = cobs[i]
  BY <1>1, <1>2
<1>4. ASSUME NEW c \in Calls PROVE Pending(c)' <=> Pending(c)
  <2>1. ran[c] = <<>> => ((\E i \in Ids : cobs'[i] = c) <=> \E i \in Ids : cobs[i] = c)
    BY <1>1, <1>3, CallsFinite
  <2> QED
    BY <2>1, <1>1 DEF Pending
<1> QED
  BY <1>1, <1>4, ContractStutter

\* A callback is run with the answer to its own call, at most once unless the
\* stream is spoilt, at once and without an answer when the call cannot be sent;
\* when the connection goes, the calls that wait are forgotten together: each step
\* of the channel is a step of CallContract or changes nothing there
\* (ripcclientchannel.cpp:267-336, 367-379, 546-576, 621-635).
THEOREM ImplementsContract == Spec => KeepsContract
<1>1. Init => Contract!ContractInit
  BY ContractStart
<1>2. ChannelInv /\ [Next]_vars => [Contract!ContractNext]_(Contract!contractVars)
  <2> SUFFICES ASSUME ChannelInv, [Next]_vars
               PROVE  Contract!ContractNext \/ UNCHANGED Contract!contractVars
    OBVIOUS
  <2>1. ASSUME NEW c \in Calls, Refused(c) \/ Send(c) \/ SendFails(c) PROVE Contract!ContractNext
    BY <2>1, ContractRefuse, ContractIssue DEF Contract!ContractNext
  <2>2. CASE ConnectFails \/ Lost \/ LoopCloses \/ HandleUnknown
    <3>1. \E st : Cleared(st)
      BY <2>2 DEF ConnectFails, Lost, LoopCloses, HandleUnknown
    <3> QED
      BY <3>1, ContractForget DEF Contract!ContractNext
  <2>3. CASE HandleAnswer
    BY <2>3, ContractAnswer DEF Contract!ContractNext
  <2>4. CASE CallbackReturns
    BY <2>4, ContractReturn
  <2>5. ASSUME UNCHANGED <<made, ran, cobs>> PROVE UNCHANGED Contract!contractVars
    BY <2>5, ContractStutter DEF Pending
  <2>6. CASE Connect \/ Connected \/ UNCHANGED vars
    <3>1. UNCHANGED <<made, ran, cobs>>
      BY <2>6 DEF Connect, Connected, vars
    <3> QED
      BY <3>1, <2>5
  <2>7. ASSUME NEW n \in 1..Len(wire), NEW moved \in BOOLEAN, Deliver(n, moved) PROVE UNCHANGED Contract!contractVars
    <3>1. UNCHANGED <<made, ran, cobs>>
      BY <2>7 DEF Deliver
    <3> QED
      BY <3>1, <2>5
  <2>8. CASE LoopEnds \/ LoopUnreads \/ HandleNotify
    <3>1. UNCHANGED <<made, ran, cobs>>
      BY <2>8 DEF LoopEnds, LoopUnreads, HandleNotify
    <3> QED
      BY <3>1, <2>5
  <2>9. CASE NotifyReturns \/ NotifyFails \/ UseStale
    <3>1. UNCHANGED <<made, ran, cobs>>
      BY <2>9 DEF NotifyReturns, NotifyFails, UseStale
    <3> QED
      BY <3>1, <2>5
  <2>10. CASE Ask \/ (\E r \in asked : Reply(r)) \/ Broadcast
    <3>1. UNCHANGED <<made, ran, cobs>>
      BY <2>10 DEF Ask, Reply, Broadcast
    <3> QED
      BY <3>1, <2>5
  <2> QED
    BY <2>1, <2>2, <2>3, <2>4, <2>6, <2>7, <2>8, <2>9, <2>10 DEF Next, Loop, Returns
<1> QED
  BY <1>1, <1>2, ChannelInvariant, PTL DEF Spec, KeepsContract, Contract!ContractSpec
=============================================================================
