--------------------------- MODULE WrkPaceProofs ---------------------------
(***************************************************************************)
(* Proofs that the requests and the responses of every connection stay in  *)
(* step, and that no connection waits for nothing, for any descriptors,    *)
(* connections and depth of pipelining.                                    *)
(***************************************************************************)
EXTENDS WrkLoopProofs

(* The units of a kind in what is to be read: how their number changes     *)
(* when one is added behind or taken away in front.                        *)
Tally(q, S) == Cardinality({i \in DOMAIN q : q[i] \in S})

LEMMA PlacesFinite ==
  ASSUME NEW T, NEW q \in Seq(T), NEW S
  PROVE  IsFiniteSet({i \in DOMAIN q : q[i] \in S})
<1>1. DOMAIN q = 1 .. Len(q) /\ Len(q) \in Nat
  OBVIOUS
<1>2. IsFiniteSet(1 .. Len(q))
  BY <1>1, FS_Interval
<1> QED BY <1>1, <1>2, FS_Subset

LEMMA TallyType ==
  ASSUME NEW T, NEW q \in Seq(T), NEW S
  PROVE  /\ Tally(q, S) \in Nat
         /\ \A i \in DOMAIN q : q[i] \in S => Tally(q, S) > 0
         /\ \A X : X \subseteq S => Tally(q, X) <= Tally(q, S)
<1> DEFINE P(X) == {i \in DOMAIN q : q[i] \in X}
<1>1. \A X : IsFiniteSet(P(X)) /\ Cardinality(P(X)) = Tally(q, X)
  BY PlacesFinite DEF Tally
<1> HIDE DEF P
<1>2. \A X : Tally(q, X) \in Nat
  BY <1>1, FS_CardinalityType
<1>3. ASSUME NEW i \in DOMAIN q, q[i] \in S
      PROVE  Tally(q, S) > 0
  <2>1. i \in P(S)
    BY <1>3 DEF P
  <2>2. Tally(q, S) # 0
    BY <1>1, <2>1, FS_EmptySet
  <2> QED BY <1>2, <2>2
<1>4. ASSUME NEW X, X \subseteq S
      PROVE  Tally(q, X) <= Tally(q, S)
  <2>1. P(X) \subseteq P(S)
    BY <1>4 DEF P
  <2>2. Cardinality(P(X)) <= Cardinality(P(S))
    BY <1>1, <2>1, FS_Subset
  <2> QED BY <1>1, <2>2
<1> QED BY <1>2, <1>3, <1>4

LEMMA TallyEmpty == \A S : Tally(<<>>, S) = 0
<1>1. \A S : {i \in DOMAIN <<>> : <<>>[i] \in S} = {}
  OBVIOUS
<1> QED BY <1>1, FS_EmptySet DEF Tally

LEMMA TallyAppend ==
  ASSUME NEW T, NEW q \in Seq(T), NEW u \in T, NEW S
  PROVE  Tally(q \o <<u>>, S) = Tally(q, S) + (IF u \in S THEN 1 ELSE 0)
<1> DEFINE r == q \o <<u>>
           P == {i \in DOMAIN q : q[i] \in S}
           Q == {i \in DOMAIN r : r[i] \in S}
           n == Len(q) + 1
<1>1. DOMAIN r = DOMAIN q \cup {n} /\ n \notin DOMAIN q /\ r[n] = u
      /\ \A i \in DOMAIN q : r[i] = q[i]
  OBVIOUS
<1>2. IsFiniteSet(P)
  BY PlacesFinite
<1>3. Q = IF u \in S THEN P \cup {n} ELSE P
  <2> HIDE DEF r, n
  <2> QED BY <1>1
<1>4. n \notin P
  BY <1>1
<1>5. Cardinality(P) \in Nat
  BY <1>2, FS_CardinalityType
<1> HIDE DEF P, n
<1>6. Cardinality(Q) = Cardinality(P) + (IF u \in S THEN 1 ELSE 0)
  <2> HIDE DEF Q
  <2>1. CASE u \in S
    BY <1>2, <1>3, <1>4, <2>1, FS_AddElement
  <2>2. CASE u \notin S
    BY <1>3, <1>5, <2>2
  <2> QED BY <2>1, <2>2
<1> QED BY <1>6 DEF Tally, P

LEMMA TallyTail ==
  ASSUME NEW T, NEW q \in Seq(T), q # <<>>, NEW S
  PROVE  Tally(q, S) = Tally(Tail(q), S) + (IF q[1] \in S THEN 1 ELSE 0)
<1> DEFINE r == Tail(q)
           P == {i \in DOMAIN r : r[i] \in S}
           Q == {i \in DOMAIN q : q[i] \in S}
           f == [i \in P |-> i + 1]
<1>1. /\ DOMAIN q = 1 .. Len(q) /\ Len(q) \in Nat \ {0}
      /\ DOMAIN r = 1 .. Len(q) - 1 /\ \A i \in DOMAIN r : r[i] = q[i + 1]
  OBVIOUS
<1>2. IsFiniteSet(P)
  <2>1. r \in Seq(T)
    OBVIOUS
  <2> HIDE DEF r
  <2> QED BY <2>1, PlacesFinite
<1>3. f \in Bijection(P, Q \ {1})
  <2>1. \A i \in P : i + 1 \in Q \ {1}
    BY <1>1
  <2>2. \A k \in Q \ {1} : k - 1 \in P /\ (k - 1) + 1 = k
    BY <1>1
  <2>3. \A i, k \in P : i + 1 = k + 1 => i = k
    BY <1>1
  <2> HIDE DEF P, Q
  <2>4. f \in [P -> Q \ {1}]
    BY <2>1
  <2>5. f \in Injection(P, Q \ {1})
    <3>1. \A i \in P : f[i] = i + 1
      OBVIOUS
    <3> HIDE DEF f
    <3> QED BY <2>3, <2>4, <3>1 DEF Injection, IsInjective
  <2>6. f \in Surjection(P, Q \ {1})
    BY <2>2, <2>4 DEF Surjection
  <2> QED BY <2>5, <2>6 DEF Bijection
<1>4. 1 \in Q <=> q[1] \in S
  BY <1>1
<1>5. IsFiniteSet(Q)
  BY PlacesFinite
<1> HIDE DEF P, Q, f
<1>6. Cardinality(Q \ {1}) = Cardinality(P)
  BY <1>2, <1>3, FS_Bijection DEF ExistsBijection
<1>7. /\ Cardinality(Q) \in Nat
      /\ Cardinality(Q \ {1}) = IF 1 \in Q THEN Cardinality(Q) - 1 ELSE Cardinality(Q)
  BY <1>5, FS_RemoveElement, FS_CardinalityType
<1>8. Cardinality(Q) = Cardinality(P) + (IF q[1] \in S THEN 1 ELSE 0)
  BY <1>4, <1>6, <1>7
<1> QED BY <1>8 DEF Tally, P, Q
-----------------------------------------------------------------------------
(* One connection: v is its record, o its socket, rx what is to be read    *)
(* (or, within a read, what is still to be parsed and read), mask what the *)
(* loop watches for, w whether a delay of it runs.  Due are the responses  *)
(* that are still to be completed, counting what is no response and a      *)
(* response that the end of the connection completes.                      *)
Marks == {"k", "c", "z", "x"}
Closing == {"c", "z", "x"}
Whole == {"k", "c", "z"}

Due(v, o, rx) ==
  o.owe + Tally(rx, Marks) + Tally(o.todo, Marks) + (IF v.ps = "eof" THEN 1 ELSE 0)
Final(v, o, rx) ==
  v.ps = "eof" \/ Tally(rx, Closing) > 0 \/ Tally(o.todo, Closing) > 0

(* The server has got of the request what wrk has written of it.           *)
Written(m, v, mask, o) ==
  /\ o.got = v.written /\ v.written \in 0 .. ReqLen - 1
  /\ IF W \in mask THEN v.written > 0 => v.pending = m.pipeline /\ ~v.delayed
     ELSE v.written = 0 /\ (v.delayed \/ v.pending > 0)

(* No more is due than is pending, nothing while the request is written.   *)
Owing(v, mask, o, rx) ==
  /\ o.owe >= 0
  /\ Due(v, o, rx) <= IF W \in mask THEN 0 ELSE v.pending
  /\ W \in mask \/ v.pending = Due(v, o, rx) \/ o.ends \/ o.fin

(* The last response, the end of the connection and what announces it.     *)
Ending(m, v, o, rx) ==
  /\ Final(v, o, rx) => o.ends \/ o.fin
  /\ o.ends /\ (~o.fin \/ ~m.faults) => Final(v, o, rx) /\ o.owe = 0
  /\ ~m.faults /\ o.fin => o.ends

(* The beginning of a response is followed by the rest of it.              *)
Framing(m, o, rx) ==
  /\ o.todo = <<>> \/ \E u \in Whole : o.todo = <<u>>
  /\ ~m.faults /\ o.todo = <<>> /\ rx # <<>> => rx[Len(rx)] \in Whole

Linked(m, v, mask, o, rx) ==
  Written(m, v, mask, o) /\ Owing(v, mask, o, rx) /\ Ending(m, v, o, rx) /\ Framing(m, o, rx)

(* It is being connected, or it is in use.                                 *)
Opening(m, e, o, rx, w) ==
  /\ e.mask = {R, W} /\ e.wproc = "socket_connected"
  /\ o.owe = 0 /\ o.got = 0 /\ rx = <<>> /\ o.todo = <<>> /\ ~o.ends
  /\ (o.fin => m.faults) /\ ~w
Using(m, v, e, o, rx, w) ==
  /\ o.st # "connecting" /\ e.wproc = "socket_writeable"
  /\ w <=> v.delayed /\ W \notin e.mask
  /\ o.st = "up" => Linked(m, v, e.mask, o, rx)
Tuned(m, v, e, o, rx, w) ==
  /\ o.st = "failed" => m.faults /\ rx = <<>> /\ ~o.fin
  /\ e.rproc = "socket_connected" => Opening(m, e, o, rx, w)
  /\ e.rproc = "socket_readable" => Using(m, v, e, o, rx, w)

LEMMA DueType ==
  ASSUME NEW v, NEW o \in SockType, NEW rx \in Seq(Bytes), o.owe >= 0
  PROVE  /\ Due(v, o, rx) \in Nat
         /\ Final(v, o, rx) => Due(v, o, rx) >= 1
         /\ Tally(rx, Marks) <= Due(v, o, rx) /\ o.owe <= Due(v, o, rx)
         /\ o.owe + Tally(rx, Marks) + Tally(o.todo, Marks) <= Due(v, o, rx)
<1>1. o.owe \in Int /\ o.todo \in Seq(Bytes)
  BY DEF SockType
<1>2. Closing \subseteq Marks
  BY DEF Closing, Marks
<1>3. /\ Tally(rx, Marks) \in Nat /\ Tally(rx, Closing) \in Nat
      /\ Tally(rx, Closing) <= Tally(rx, Marks)
  BY <1>2, TallyType
<1>4. /\ Tally(o.todo, Marks) \in Nat /\ Tally(o.todo, Closing) \in Nat
      /\ Tally(o.todo, Closing) <= Tally(o.todo, Marks)
  BY <1>1, <1>2, TallyType
<1> DEFINE a == Tally(rx, Marks)
           b == Tally(o.todo, Marks)
           k == IF v.ps = "eof" THEN 1 ELSE 0
<1>5. k \in {0, 1} /\ (v.ps = "eof" => k = 1)
  OBVIOUS
<1>6. Due(v, o, rx) = o.owe + a + b + k
  BY DEF Due
<1>7. a \in Nat /\ b \in Nat /\ (Final(v, o, rx) => a > 0 \/ b > 0 \/ k = 1)
  BY <1>3, <1>4, <1>5 DEF Final
<1> HIDE DEF a, b, k
<1>8. /\ Due(v, o, rx) \in Nat
      /\ Final(v, o, rx) => Due(v, o, rx) >= 1
      /\ a <= Due(v, o, rx) /\ o.owe <= Due(v, o, rx) /\ o.owe + a + b <= Due(v, o, rx)
  BY <1>1, <1>5, <1>6, <1>7
<1> QED BY <1>8 DEF a, b

(* A read that finds something finds no delay: nothing is read while a     *)
(* request is delayed on a network without faults.                         *)
LEMMA NoDelay ==
  ASSUME NEW m \in ModeType, ~(m.delay /\ m.faults), NEW v \in ConnType, v.delayed => m.delay,
         v.delayed => v.pending = 0,
         NEW mask, NEW o \in SockType, NEW rx \in Seq(Bytes), Linked(m, v, mask, o, rx),
         rx # <<>> \/ o.fin
  PROVE  v.delayed => W \in mask
<1> SUFFICES ASSUME v.delayed, W \notin mask
             PROVE  FALSE
  OBVIOUS
<1>1. ~m.faults
  BY DEF ModeType
<1>2. Due(v, o, rx) \in Nat /\ Due(v, o, rx) <= 0
  BY DueType DEF Linked, Owing
<1>3. ~Final(v, o, rx) /\ Tally(rx, Marks) <= 0 /\ Tally(o.todo, Marks) <= 0 /\ o.owe >= 0
  <2>1. Tally(rx, Marks) \in Nat /\ Tally(o.todo, Marks) \in Nat /\ o.owe \in Int
    BY TallyType DEF SockType
  <2>2. o.owe >= 0
    BY DEF Linked, Owing
  <2> QED BY <1>2, <2>1, <2>2, DueType
<1>4. ~o.fin
  BY <1>1, <1>3 DEF Linked, Ending
<1>5. Whole \subseteq Marks
  BY DEF Whole, Marks
<1>6. o.todo = <<>>
  <2> SUFFICES ASSUME NEW u \in Whole, o.todo = <<u>>
               PROVE  FALSE
    BY DEF Linked, Framing
  <2>1. o.todo \in Seq(Bytes) /\ 1 \in DOMAIN o.todo /\ o.todo[1] \in Marks
    <3>1. DOMAIN <<u>> = {1} /\ <<u>>[1] = u
      OBVIOUS
    <3>2. o.todo \in Seq(Bytes)
      BY DEF SockType
    <3> QED BY <1>5, <3>1, <3>2
  <2>2. Tally(o.todo, Marks) > 0
    BY <2>1, TallyType
  <2>3. Tally(o.todo, Marks) \in Nat
    BY <2>1, TallyType
  <2> QED BY <1>3, <2>2, <2>3
<1>7. rx # <<>> /\ rx[Len(rx)] \in Marks
  BY <1>1, <1>4, <1>5, <1>6 DEF Linked, Framing
<1>8. Len(rx) \in DOMAIN rx
  BY <1>7
<1>9. Tally(rx, Marks) > 0 /\ Tally(rx, Marks) \in Nat
  BY <1>7, <1>8, TallyType
<1> QED BY <1>3, <1>9

(* socket_connected: the first request may be written.                     *)
LEMMA LinkedNew ==
  ASSUME NEW m \in ModeType, NEW e, NEW o \in SockType, NEW rx \in Seq(Bytes), NEW w,
         Opening(m, e, o, rx, w), NEW v, v.ps = "start", v.written = 0
  PROVE  Linked(m, v, {R, W}, o, rx)
<1>1. /\ o.owe = 0 /\ o.got = 0 /\ rx = <<>> /\ o.todo = <<>> /\ ~o.ends
      /\ o.fin => m.faults
  BY DEF Opening
<1>2. \A S : Tally(rx, S) = 0 /\ Tally(o.todo, S) = 0
  BY <1>1, TallyEmpty
<1>3. Due(v, o, rx) = 0 /\ ~Final(v, o, rx)
  BY <1>1, <1>2 DEF Due, Final
<1>4. Written(m, v, {R, W}, o)
  BY <1>1, LoopAssumption DEF Written
<1>5. Owing(v, {R, W}, o, rx)
  BY <1>1, <1>3 DEF Owing
<1>6. Ending(m, v, o, rx) /\ Framing(m, o, rx)
  BY <1>1, <1>3 DEF Ending, Framing
<1> QED BY <1>4, <1>5, <1>6 DEF Linked

(* The fields that the parts look at, but for some.                        *)
SameParser(v, u) == u.ps = v.ps

LEMMA DueSame ==
  ASSUME NEW v, NEW u, SameParser(v, u), NEW o, NEW x, x.owe = o.owe, x.todo = o.todo, NEW rx
  PROVE  Due(u, x, rx) = Due(v, o, rx) /\ (Final(u, x, rx) <=> Final(v, o, rx))
BY DEF Due, Final, SameParser

(* socket_writeable before a write.                                        *)
LEMMA LinkedBegun ==
  ASSUME NEW m \in ModeType, NEW v \in ConnType, NEW mask, W \in mask, ~v.delayed,
         NEW o, NEW rx, Linked(m, v, mask, o, rx),
         NEW u \in ConnType, SameParser(v, u), u.written = v.written, u.delayed = v.delayed,
         u.pending = IF v.written = 0 THEN m.pipeline ELSE v.pending
  PROVE  Linked(m, u, mask, o, rx) /\ u.pending = m.pipeline
<1>1. Due(u, o, rx) = Due(v, o, rx) /\ (Final(u, o, rx) <=> Final(v, o, rx))
  BY DueSame
<1>2. v.written > 0 \/ v.written = 0
  BY DEF Linked, Written
<1>3. u.pending = m.pipeline
  BY <1>2 DEF Linked, Written
<1>4. Written(m, u, mask, o)
  BY <1>3 DEF Linked, Written
<1>5. Owing(u, mask, o, rx) /\ Ending(m, u, o, rx) /\ Framing(m, o, rx)
  BY <1>1 DEF Linked, Owing, Ending
<1> QED BY <1>3, <1>4, <1>5 DEF Linked

LEMMA PartModulo ==
  ASSUME NEW r \in Nat \ {0}, NEW a \in Nat, NEW n \in Nat, a + n <= r, a + n # r
  PROVE  (a + n) % r = a + n
<1> DEFINE b == a + n
<1>1. b \in Nat /\ b < r
  OBVIOUS
<1> HIDE DEF b
<1>2. b % r = b
  BY <1>1
<1> QED BY <1>2 DEF b

(* A write of n units of the request: the last one makes the server owe    *)
(* the responses, and wrk waits for them.                                  *)
LEMMA LinkedWrote ==
  ASSUME NEW m \in ModeType, NEW v \in ConnType, NEW mask, W \in mask, ~v.delayed,
         v.pending = m.pipeline,
         NEW o \in SockType, NEW rx \in Seq(Bytes), Linked(m, v, mask, o, rx),
         NEW n \in 1 .. ReqLen - v.written,
         NEW u \in ConnType, SameParser(v, u), u.written = (v.written + n) % ReqLen,
         u.delayed = v.delayed, u.pending = v.pending,
         NEW x \in SockType, x.todo = o.todo, x.ends = o.ends, x.fin = o.fin,
         x.got = (o.got + n) % ReqLen,
         x.owe = (IF o.got + n >= ReqLen THEN o.owe + m.pipeline ELSE o.owe),
         NEW left, left = IF v.written + n = ReqLen THEN mask \ {W} ELSE mask
  PROVE  Linked(m, u, left, x, rx)
<1>1. /\ o.got = v.written /\ v.written \in Nat /\ v.written < ReqLen /\ ReqLen \in Nat \ {0}
      /\ n \in Nat /\ n >= 1 /\ v.written + n <= ReqLen /\ m.pipeline \in Nat \ {0}
  BY LoopAssumption DEF Linked, Written, ModeType
<1>2. Due(v, o, rx) = 0 /\ o.owe = 0 /\ ~Final(v, o, rx)
  <2>1. o.owe >= 0 /\ Due(v, o, rx) <= 0
    BY DEF Linked, Owing
  <2>2. o.owe \in Int /\ Due(v, o, rx) \in Nat
    BY <2>1, DueType DEF SockType
  <2> QED BY <2>1, <2>2, DueType
<1>3. Final(u, x, rx) <=> Final(v, o, rx)
  BY DEF Final, SameParser
<1>4. Due(u, x, rx) = x.owe
  <2>1. Due(u, x, rx) = x.owe + (Due(v, o, rx) - o.owe)
    <3>1. Tally(rx, Marks) \in Nat /\ Tally(o.todo, Marks) \in Nat
      BY TallyType DEF SockType
    <3>2. x.owe \in Int /\ o.owe \in Int
      BY DEF SockType
    <3> DEFINE k == IF v.ps = "eof" THEN 1 ELSE 0
    <3>3. k \in Nat
      OBVIOUS
    <3>4. /\ Due(v, o, rx) = o.owe + Tally(rx, Marks) + Tally(o.todo, Marks) + k
          /\ Due(u, x, rx) = x.owe + Tally(rx, Marks) + Tally(o.todo, Marks) + k
      BY DEF Due, SameParser
    <3> HIDE DEF k
    <3> QED BY <3>1, <3>2, <3>3, <3>4
  <2> QED BY <1>2, <2>1 DEF SockType
<1>5. Ending(m, u, x, rx)
  BY <1>2, <1>3 DEF Linked, Ending
<1>6. Framing(m, x, rx)
  BY DEF Linked, Framing
<1>7. CASE v.written + n = ReqLen
  <2>1. u.written = 0 /\ x.got = 0 /\ x.owe = m.pipeline /\ W \notin left
    <3>1. ReqLen % ReqLen = 0
      BY <1>1
    <3> QED BY <1>1, <1>2, <1>7, <3>1
  <2>2. Written(m, u, left, x)
    BY <1>1, <2>1 DEF Written
  <2>3. Owing(u, left, x, rx)
    BY <1>1, <1>4, <2>1 DEF Owing
  <2> QED BY <1>5, <1>6, <2>2, <2>3 DEF Linked
<1>8. CASE v.written + n # ReqLen
  <2>1. u.written = v.written + n /\ x.got = u.written /\ x.owe = 0 /\ W \in left
    <3>1. (v.written + n) % ReqLen = v.written + n
      BY <1>1, <1>8, PartModulo
    <3> QED BY <1>1, <1>2, <1>8, <3>1
  <2>2. Written(m, u, left, x)
    BY <1>1, <1>8, <2>1 DEF Written
  <2>3. Owing(u, left, x, rx)
    BY <1>4, <2>1 DEF Owing
  <2> QED BY <1>5, <1>6, <2>2, <2>3 DEF Linked
<1> QED BY <1>7, <1>8

(* A request that is delayed, and its time.                                *)
LEMMA LinkedDelay ==
  ASSUME NEW m \in ModeType, NEW v \in ConnType, v.delayed, v.pending = 0,
         NEW mask, W \in mask,
         NEW o \in SockType, NEW rx \in Seq(Bytes), Linked(m, v, mask, o, rx)
  PROVE  Linked(m, v, mask \ {W}, o, rx)
<1>1. Due(v, o, rx) = 0
  <2>1. o.owe >= 0 /\ Due(v, o, rx) <= 0
    BY DEF Linked, Owing
  <2> QED BY <2>1, DueType
<1>2. v.written = 0
  BY DEF Linked, Written
<1>3. Written(m, v, mask \ {W}, o) /\ Owing(v, mask \ {W}, o, rx)
  BY <1>1, <1>2 DEF Linked, Written, Owing
<1> QED BY <1>3 DEF Linked

LEMMA LinkedAgain ==
  ASSUME NEW m \in ModeType, NEW v \in ConnType, v.delayed, v.pending = 0,
         NEW mask, W \notin mask, NEW o, NEW rx, Linked(m, v, mask, o, rx),
         NEW u, SameParser(v, u), u.written = v.written
  PROVE  Linked(m, u, mask \cup {W}, o, rx)
<1>1. Due(u, o, rx) = Due(v, o, rx) /\ (Final(u, o, rx) <=> Final(v, o, rx))
  BY DueSame
<1>2. Written(m, u, mask \cup {W}, o)
  BY DEF Linked, Written
<1>3. Owing(u, mask \cup {W}, o, rx) /\ Ending(m, u, o, rx)
  BY <1>1 DEF Linked, Owing, Ending
<1> QED BY <1>2, <1>3 DEF Linked

(* The parser takes a unit of what is to be read.                          *)
LEMMA TailTakes ==
  ASSUME NEW m, NEW o, NEW rx \in Seq(Bytes), rx # <<>>, Framing(m, o, rx)
  PROVE  /\ Tail(rx) \in Seq(Bytes) /\ rx[1] \in Bytes /\ Framing(m, o, Tail(rx))
         /\ \A S : /\ Tally(rx, S) = Tally(Tail(rx), S) + (IF rx[1] \in S THEN 1 ELSE 0)
                   /\ Tally(Tail(rx), S) \in Nat
<1>1. Tail(rx) \in Seq(Bytes) /\ rx[1] \in Bytes
  OBVIOUS
<1>2. \A S : Tally(rx, S) = Tally(Tail(rx), S) + (IF rx[1] \in S THEN 1 ELSE 0)
  BY TallyTail
<1>3. \A S : Tally(Tail(rx), S) \in Nat
  BY <1>1, TallyType
<1>4. Tail(rx) # <<>> => Tail(rx)[Len(Tail(rx))] = rx[Len(rx)]
  OBVIOUS
<1>5. Framing(m, o, Tail(rx))
  BY <1>4 DEF Framing
<1> QED BY <1>1, <1>2, <1>3, <1>5

(* As long as something is due, the request was written and is waited for. *)
LEMMA DueWaits ==
  ASSUME NEW m, NEW v \in ConnType, v.delayed => v.pending = 0,
         NEW mask, NEW o \in SockType, NEW rx \in Seq(Bytes), Linked(m, v, mask, o, rx),
         v.ps = "eof" \/ (rx # <<>> /\ rx[1] \in Marks)
  PROVE  /\ Due(v, o, rx) \in Nat /\ Due(v, o, rx) >= 1 /\ Due(v, o, rx) <= v.pending
         /\ W \notin mask /\ v.pending >= 1 /\ v.written = 0 /\ ~v.delayed
<1>1. o.owe >= 0 /\ Due(v, o, rx) <= IF W \in mask THEN 0 ELSE v.pending
  BY DEF Linked, Owing
<1>2. Due(v, o, rx) \in Nat /\ Due(v, o, rx) >= 1
  <2>1. CASE v.ps = "eof"
    <3>1. Final(v, o, rx)
      BY <2>1 DEF Final
    <3> QED BY <1>1, <3>1, DueType
  <2>2. CASE rx # <<>> /\ rx[1] \in Marks
    <3>1. 1 \in DOMAIN rx
      BY <2>2
    <3>2. Tally(rx, Marks) > 0 /\ Tally(rx, Marks) \in Nat
      BY <2>2, <3>1, TallyType
    <3>3. Due(v, o, rx) \in Nat /\ Tally(rx, Marks) <= Due(v, o, rx)
      BY <1>1, DueType
    <3> QED BY <3>2, <3>3
  <2> QED BY <2>1, <2>2
<1>3. W \notin mask
  BY <1>1, <1>2
<1>4. v.pending \in Int
  BY DEF ConnType
<1>5. v.pending >= 1 /\ Due(v, o, rx) <= v.pending
  BY <1>1, <1>2, <1>3, <1>4
<1>6. v.written = 0
  BY <1>3 DEF Linked, Written
<1> QED BY <1>2, <1>3, <1>5, <1>6

(* A beginning, and a response that is not bounded.                        *)
LEMMA LinkedParsed ==
  ASSUME NEW m, NEW v \in ConnType, NEW mask,
         NEW o \in SockType, NEW rx \in Seq(Bytes), Linked(m, v, mask, o, rx),
         v.ps # "eof", rx # <<>>,
         NEW u \in ConnType, u.written = v.written, u.pending = v.pending,
         u.delayed = v.delayed,
         \/ rx[1] = "b" /\ u.ps = "mid"
         \/ rx[1] = "z" /\ u.ps = "eof"
  PROVE  Linked(m, u, mask, o, Tail(rx))
<1>1. /\ Tail(rx) \in Seq(Bytes) /\ Framing(m, o, Tail(rx))
      /\ \A S : /\ Tally(rx, S) = Tally(Tail(rx), S) + (IF rx[1] \in S THEN 1 ELSE 0)
                /\ Tally(Tail(rx), S) \in Nat
  BY TailTakes DEF Linked
<1>2. Due(u, o, Tail(rx)) = Due(v, o, rx) /\ (Final(u, o, Tail(rx)) <=> Final(v, o, rx))
  <2>1. Tally(o.todo, Marks) \in Nat /\ o.owe \in Int
    BY TallyType DEF SockType
  <2> DEFINE a == Tally(Tail(rx), Marks)
             b == Tally(rx, Marks)
             x == Tally(Tail(rx), Closing)
             y == Tally(rx, Closing)
  <2>2. a \in Nat /\ x \in Nat
    BY <1>1
  <2>3. CASE rx[1] = "b" /\ u.ps = "mid"
    <3>1. b = a + 0 /\ y = x + 0
      <4>1. "b" \notin Marks /\ "b" \notin Closing
        BY DEF Marks, Closing
      <4> QED BY <1>1, <2>3, <4>1
    <3> HIDE DEF a, b, x, y
    <3>2. a = b /\ x = y
      BY <2>2, <3>1
    <3> QED BY <2>3, <3>2 DEF Due, Final, a, b, x, y
  <2>4. CASE rx[1] = "z" /\ u.ps = "eof"
    <3>1. b = a + 1 /\ y = x + 1
      <4>1. "z" \in Marks /\ "z" \in Closing
        BY DEF Marks, Closing
      <4> QED BY <1>1, <2>4, <4>1
    <3> HIDE DEF a, b, x, y
    <3>2. Due(v, o, rx) = o.owe + b + Tally(o.todo, Marks) + 0
      BY DEF Due, b
    <3>3. Due(u, o, Tail(rx)) = o.owe + a + Tally(o.todo, Marks) + 1
      BY <2>4 DEF Due, a
    <3>4. Due(u, o, Tail(rx)) = Due(v, o, rx)
      BY <2>1, <2>2, <3>1, <3>2, <3>3
    <3>5. y > 0
      BY <2>2, <3>1
    <3> QED BY <2>4, <3>4, <3>5 DEF Final, y
  <2> QED BY <2>3, <2>4
<1>3. Written(m, u, mask, o)
  BY DEF Linked, Written
<1>4. Owing(u, mask, o, Tail(rx)) /\ Ending(m, u, o, Tail(rx))
  BY <1>2 DEF Linked, Owing, Ending
<1> QED BY <1>1, <1>3, <1>4 DEF Linked

(* The end of a response behind which the connection goes on: after the    *)
(* last one that is pending the next request is to be written.             *)
LEMMA LinkedKept ==
  ASSUME NEW m \in ModeType, NEW v \in ConnType, v.delayed => v.pending = 0, NEW mask,
         NEW o \in SockType, NEW rx \in Seq(Bytes), Linked(m, v, mask, o, rx),
         v.ps # "eof", rx # <<>>, rx[1] = "k",
         NEW u \in ConnType, u.written = v.written, u.pending = v.pending - 1,
         u.delayed = (IF u.pending = 0 THEN m.delay ELSE v.delayed), u.ps = "start",
         NEW left, left = IF u.pending = 0 THEN mask \cup {W} ELSE mask
  PROVE  Linked(m, u, left, o, Tail(rx))
<1>1. /\ Tail(rx) \in Seq(Bytes) /\ Framing(m, o, Tail(rx))
      /\ \A S : /\ Tally(rx, S) = Tally(Tail(rx), S) + (IF rx[1] \in S THEN 1 ELSE 0)
                /\ Tally(Tail(rx), S) \in Nat
  BY TailTakes DEF Linked
<1>2. "k" \in Marks /\ "k" \notin Closing
  BY DEF Marks, Closing
<1>3. /\ Due(v, o, rx) \in Nat /\ Due(v, o, rx) >= 1 /\ Due(v, o, rx) <= v.pending
      /\ W \notin mask /\ v.pending >= 1 /\ v.written = 0 /\ ~v.delayed /\ v.pending \in Int
  BY <1>2, DueWaits DEF ConnType
<1>4. Due(u, o, Tail(rx)) = Due(v, o, rx) - 1
  <2> DEFINE a == Tally(Tail(rx), Marks)
             b == Tally(rx, Marks)
  <2>1. Tally(o.todo, Marks) \in Nat /\ o.owe \in Int /\ a \in Nat
    BY <1>1, TallyType DEF SockType
  <2>2. b = a + 1
    BY <1>1, <1>2
  <2> HIDE DEF a, b
  <2>3. Due(v, o, rx) = o.owe + b + Tally(o.todo, Marks) + 0
    BY DEF Due, b
  <2>4. Due(u, o, Tail(rx)) = o.owe + a + Tally(o.todo, Marks) + 0
    BY DEF Due, a
  <2> QED BY <2>1, <2>2, <2>3, <2>4
<1>5. Final(u, o, Tail(rx)) <=> Final(v, o, rx)
  <2>1. Tally(rx, Closing) = Tally(Tail(rx), Closing) + 0 /\ Tally(Tail(rx), Closing) \in Nat
    BY <1>1, <1>2
  <2>2. Tally(rx, Closing) = Tally(Tail(rx), Closing)
    BY <2>1
  <2> QED BY <2>2 DEF Final
<1>6. W \in left <=> u.pending = 0
  BY <1>3
<1>7. Written(m, u, left, o)
  <2>1. u.pending = 0 \/ u.pending > 0
    BY <1>3
  <2> QED BY <1>3, <1>6, <2>1 DEF Linked, Written
<1>8. Owing(u, left, o, Tail(rx))
  <2>1. Due(u, o, Tail(rx)) <= u.pending
    BY <1>3, <1>4
  <2>2. u.pending = Due(u, o, Tail(rx)) \/ o.ends \/ o.fin
    BY <1>3, <1>4 DEF Linked, Owing
  <2> QED BY <1>6, <2>1, <2>2 DEF Linked, Owing
<1>9. Ending(m, u, o, Tail(rx))
  BY <1>5 DEF Linked, Ending
<1> QED BY <1>1, <1>7, <1>8, <1>9 DEF Linked
-----------------------------------------------------------------------------
(* What the server and the network do to the socket of a connection.       *)
LEMMA TallyOne ==
  ASSUME NEW u, NEW S
  PROVE  Tally(<<u>>, S) = IF u \in S THEN 1 ELSE 0
<1>1. <<>> \in Seq({u}) /\ u \in {u} /\ <<>> \o <<u>> = <<u>>
  OBVIOUS
<1>2. Tally(<<>> \o <<u>>, S) = Tally(<<>>, S) + (IF u \in S THEN 1 ELSE 0)
  BY <1>1, TallyAppend
<1> QED BY <1>1, <1>2, TallyEmpty

LEMMA LinkedAnswer ==
  ASSUME NEW m \in ModeType, NEW v \in ConnType, NEW mask,
         NEW o \in SockType, Linked(m, v, mask, o, o.rx),
         ~o.fin, o.owe > 0, o.todo = <<>>, NEW kind \in Whole,
         NEW x \in SockType, x.got = o.got, x.fin = o.fin, x.ends = (kind # "k"),
         x.owe = (IF kind = "k" THEN o.owe - 1 ELSE 0),
         \/ x.rx = o.rx \o <<"b", kind>> /\ x.todo = <<>>
         \/ x.rx = o.rx \o <<"b">> /\ x.todo = <<kind>>
  PROVE  Linked(m, v, mask, x, x.rx)
<1>1. /\ o.rx \in Seq(Bytes) /\ x.rx \in Seq(Bytes) /\ o.owe \in Int /\ v.pending \in Int
      /\ kind \in Bytes /\ "b" \in Bytes
  BY DEF SockType, ConnType, Whole, Bytes
<1>2. "b" \notin Marks /\ "b" \notin Closing /\ kind \in Marks /\ (kind \in Closing <=> kind # "k")
  BY DEF Marks, Closing, Whole
<1>3. /\ \A S : "b" \notin S => Tally(x.rx, S) + Tally(x.todo, S)
                               = Tally(o.rx, S) + (IF kind \in S THEN 1 ELSE 0)
      /\ \A S : /\ Tally(o.rx, S) \in Nat /\ Tally(x.rx, S) \in Nat /\ Tally(x.todo, S) \in Nat
                /\ Tally(o.todo, S) = 0
  <2>1. \A S : /\ Tally(o.rx, S) \in Nat /\ Tally(x.rx, S) \in Nat /\ Tally(x.todo, S) \in Nat
               /\ Tally(o.todo, S) = 0
    BY <1>1, TallyType, TallyEmpty DEF SockType
  <2>2. ASSUME NEW S, "b" \notin S
        PROVE  Tally(x.rx, S) + Tally(x.todo, S) = Tally(o.rx, S) + (IF kind \in S THEN 1 ELSE 0)
    <3> DEFINE y == o.rx \o <<"b">>
               k == IF kind \in S THEN 1 ELSE 0
    <3>1. y \in Seq(Bytes) /\ Tally(y, S) = Tally(o.rx, S)
      <4>1. Tally(y, S) = Tally(o.rx, S) + (IF "b" \in S THEN 1 ELSE 0)
        BY <1>1, TallyAppend
      <4>2. Tally(y, S) = Tally(o.rx, S) + 0
        BY <2>2, <4>1
      <4>3. Tally(o.rx, S) \in Nat
        BY <2>1
      <4> HIDE DEF y
      <4>4. Tally(y, S) = Tally(o.rx, S)
        BY <4>2, <4>3
      <4> QED BY <1>1, <4>4 DEF y
    <3>2. k \in Nat /\ Tally(o.rx, S) \in Nat
      BY <2>1
    <3>3. CASE x.rx = o.rx \o <<"b", kind>> /\ x.todo = <<>>
      <4>1. x.rx = y \o <<kind>>
        BY <1>1, <3>3
      <4> HIDE DEF y
      <4>2. Tally(x.rx, S) = Tally(o.rx, S) + k
        BY <1>1, <3>1, <4>1, TallyAppend
      <4>3. Tally(x.todo, S) = 0
        BY <3>3, TallyEmpty
      <4> QED BY <3>2, <4>2, <4>3
    <3>4. CASE x.rx = o.rx \o <<"b">> /\ x.todo = <<kind>>
      <4>1. Tally(x.rx, S) = Tally(o.rx, S)
        BY <3>1, <3>4
      <4>2. Tally(x.todo, S) = k
        BY <3>4, TallyOne
      <4> QED BY <4>1, <4>2
    <3> QED BY <3>3, <3>4
  <2> QED BY <2>1, <2>2
<1>4. /\ Due(v, o, o.rx) \in Nat /\ o.owe <= Due(v, o, o.rx)
      /\ Due(v, o, o.rx) <= IF W \in mask THEN 0 ELSE v.pending
  BY <1>1, DueType DEF Linked, Owing
<1>5. W \notin mask
  BY <1>1, <1>4
<1>6. ~o.ends /\ ~Final(v, o, o.rx) /\ v.pending = Due(v, o, o.rx) /\ v.ps # "eof"
  <2>1. ~o.ends
    BY <1>1 DEF Linked, Ending
  <2> QED BY <1>5, <2>1 DEF Linked, Ending, Owing, Final
<1>7. Due(v, o, o.rx) = o.owe + Tally(o.rx, Marks)
  BY <1>1, <1>3, <1>6 DEF Due
<1>8. Due(v, x, x.rx) = x.owe + (Tally(o.rx, Marks) + 1) /\ x.owe \in Int
  <2>1. Tally(x.rx, Marks) + Tally(x.todo, Marks) = Tally(o.rx, Marks) + 1
    BY <1>2, <1>3
  <2>2. Due(v, x, x.rx) = x.owe + Tally(x.rx, Marks) + Tally(x.todo, Marks) + 0
    BY <1>6 DEF Due
  <2>3. x.owe \in Int
    BY DEF SockType
  <2> QED BY <1>3, <2>1, <2>2, <2>3
<1>9. Final(v, x, x.rx) <=> kind # "k"
  <2>1. Tally(x.rx, Closing) + Tally(x.todo, Closing)
        = Tally(o.rx, Closing) + (IF kind \in Closing THEN 1 ELSE 0)
    BY <1>2, <1>3
  <2>2. Tally(o.rx, Closing) = 0
    BY <1>3, <1>6 DEF Final
  <2>3. Tally(x.rx, Closing) + Tally(x.todo, Closing) = IF kind # "k" THEN 1 ELSE 0
    BY <1>2, <2>1, <2>2
  <2>4. Tally(x.rx, Closing) > 0 \/ Tally(x.todo, Closing) > 0 <=> kind # "k"
    BY <1>3, <2>3
  <2> QED BY <1>6, <2>4 DEF Final
<1>10. Written(m, v, mask, x)
  BY DEF Linked, Written
<1>11. Owing(v, mask, x, x.rx)
  <2>1. CASE kind = "k"
    <3>1. x.owe = o.owe - 1
      BY <2>1
    <3>2. Due(v, x, x.rx) = v.pending /\ x.owe >= 0
      <4> DEFINE t == Tally(o.rx, Marks)
      <4>1. t \in Nat /\ v.pending = o.owe + t /\ Due(v, x, x.rx) = x.owe + (t + 1)
        BY <1>3, <1>6, <1>7, <1>8
      <4> HIDE DEF t
      <4>2. Due(v, x, x.rx) = v.pending
        BY <1>1, <3>1, <4>1
      <4> QED BY <1>1, <3>1, <4>2
    <3> QED BY <1>1, <1>5, <3>2 DEF Owing
  <2>2. CASE kind # "k"
    <3>1. x.owe = 0 /\ x.ends
      BY <2>2
    <3>2. Due(v, x, x.rx) <= v.pending
      BY <1>1, <1>3, <1>6, <1>7, <1>8, <3>1
    <3> QED BY <1>1, <1>5, <3>1, <3>2 DEF Owing
  <2> QED BY <2>1, <2>2
<1>12. Ending(m, v, x, x.rx)
  <2>1. ~m.faults /\ x.fin => x.ends
    OBVIOUS
  <2>2. x.ends => x.owe = 0
    OBVIOUS
  <2> QED BY <1>9, <2>1, <2>2 DEF Ending
<1>13. Framing(m, x, x.rx)
  <2>1. x.todo = <<>> => x.rx[Len(x.rx)] = kind
    <3> SUFFICES ASSUME x.todo = <<>>
                 PROVE  x.rx[Len(x.rx)] = kind
      OBVIOUS
    <3>1. <<kind>> # <<>>
      OBVIOUS
    <3>2. x.rx = o.rx \o <<"b", kind>>
      BY <3>1
    <3> DEFINE q == o.rx
    <3>3. q \in Seq(Bytes) /\ x.rx = q \o <<"b", kind>>
      BY <1>1, <3>2
    <3> HIDE DEF q
    <3> QED BY <1>1, <3>3
  <2> QED BY <2>1 DEF Framing
<1> QED BY <1>10, <1>11, <1>12, <1>13 DEF Linked

LEMMA LinkedDeliver ==
  ASSUME NEW m \in ModeType, NEW v \in ConnType, NEW mask,
         NEW o \in SockType, Linked(m, v, mask, o, o.rx), o.todo # <<>>,
         NEW x \in SockType, x.got = o.got, x.fin = o.fin, x.ends = o.ends, x.owe = o.owe,
         x.rx = o.rx \o o.todo, x.todo = <<>>
  PROVE  Linked(m, v, mask, x, x.rx)
<1>1. o.rx \in Seq(Bytes) /\ o.owe \in Int
  BY DEF SockType
<1>2. PICK u \in Whole : o.todo = <<u>>
  BY DEF Linked, Framing
<1>3. u \in Bytes /\ x.rx = o.rx \o <<u>>
  BY <1>2 DEF Whole, Bytes
<1>4. \A S : Tally(x.rx, S) = Tally(o.rx, S) + Tally(o.todo, S) /\ Tally(x.todo, S) = 0
  <2>1. \A S : Tally(x.rx, S) = Tally(o.rx, S) + (IF u \in S THEN 1 ELSE 0)
    BY <1>1, <1>3, TallyAppend
  <2>2. \A S : Tally(o.todo, S) = IF u \in S THEN 1 ELSE 0
    BY <1>2, TallyOne
  <2> QED BY <2>1, <2>2, TallyEmpty
<1>5. \A S : Tally(o.rx, S) \in Nat /\ Tally(o.todo, S) \in Nat
  BY TallyType DEF SockType
<1>6. Due(v, x, x.rx) = Due(v, o, o.rx)
  <2> DEFINE a == Tally(o.rx, Marks)
             b == Tally(o.todo, Marks)
             k == IF v.ps = "eof" THEN 1 ELSE 0
  <2>1. a \in Nat /\ b \in Nat /\ k \in Nat
    BY <1>5
  <2>2. Due(v, x, x.rx) = o.owe + (a + b) + 0 + k
    BY <1>4 DEF Due
  <2>3. Due(v, o, o.rx) = o.owe + a + b + k
    BY DEF Due
  <2> HIDE DEF a, b, k
  <2> QED BY <1>1, <2>1, <2>2, <2>3
<1>7. Final(v, x, x.rx) <=> Final(v, o, o.rx)
  <2> DEFINE a == Tally(o.rx, Closing)
             b == Tally(o.todo, Closing)
  <2>1. a \in Nat /\ b \in Nat
    BY <1>5
  <2>2. Final(v, x, x.rx) <=> v.ps = "eof" \/ a + b > 0
    <3>1. Tally(x.rx, Closing) = a + b /\ ~(Tally(x.todo, Closing) > 0)
      BY <1>4
    <3> HIDE DEF a, b
    <3> QED BY <3>1 DEF Final
  <2>3. Final(v, o, o.rx) <=> v.ps = "eof" \/ a > 0 \/ b > 0
    BY DEF Final
  <2> HIDE DEF a, b
  <2> QED BY <2>1, <2>2, <2>3
<1>8. Written(m, v, mask, x)
  BY DEF Linked, Written
<1>9. Owing(v, mask, x, x.rx) /\ Ending(m, v, x, x.rx)
  BY <1>6, <1>7 DEF Linked, Owing, Ending
<1>10. Framing(m, x, x.rx)
  <2> DEFINE q == o.rx
  <2>1. q \in Seq(Bytes) /\ x.rx = q \o <<u>>
    BY <1>1, <1>3
  <2> HIDE DEF q
  <2>2. x.rx[Len(x.rx)] = u
    BY <1>3, <2>1
  <2> QED BY <2>2 DEF Framing
<1> QED BY <1>8, <1>9, <1>10 DEF Linked

LEMMA LinkedFinish ==
  ASSUME NEW m \in ModeType, NEW v \in ConnType, NEW mask,
         NEW o \in SockType, Linked(m, v, mask, o, o.rx), o.ends, o.todo = <<>>,
         NEW x, x.rx = o.rx, x.got = o.got, x.owe = o.owe, x.todo = o.todo, x.ends = o.ends,
         x.fin = TRUE
  PROVE  Linked(m, v, mask, x, x.rx)
<1>1. /\ Due(v, x, x.rx) = Due(v, o, o.rx)
      /\ Final(v, x, x.rx) <=> Final(v, o, o.rx)
  BY DEF Due, Final
<1>2. Written(m, v, mask, x) /\ Framing(m, x, x.rx)
  BY DEF Linked, Written, Framing
<1>3. Owing(v, mask, x, x.rx)
  BY <1>1 DEF Linked, Owing
<1>4. Ending(m, v, x, x.rx)
  BY <1>1 DEF Linked, Ending
<1> QED BY <1>2, <1>3, <1>4 DEF Linked

(* The server closes, whatever it owed, and what it had not sent is lost.  *)
LEMMA LinkedHangup ==
  ASSUME NEW m \in ModeType, m.faults, NEW v \in ConnType, NEW mask,
         NEW o \in SockType, Linked(m, v, mask, o, o.rx),
         NEW x, x.rx = o.rx, x.got = o.got, x.owe = 0, x.todo = <<>>, x.fin = TRUE
  PROVE  Linked(m, v, mask, x, x.rx)
<1>1. Due(v, x, x.rx) <= Due(v, o, o.rx)
  <2> DEFINE a == Tally(o.rx, Marks)
             b == Tally(o.todo, Marks)
             k == IF v.ps = "eof" THEN 1 ELSE 0
  <2>1. a \in Nat /\ b \in Nat /\ k \in Nat /\ o.owe \in Int /\ o.owe >= 0
    BY TallyType DEF SockType, Linked, Owing
  <2>2. Due(v, x, x.rx) = 0 + a + 0 + k
    BY TallyEmpty DEF Due
  <2>3. Due(v, o, o.rx) = o.owe + a + b + k
    BY DEF Due
  <2> HIDE DEF a, b, k
  <2> QED BY <2>1, <2>2, <2>3
<1>2. Due(v, x, x.rx) \in Int /\ Due(v, o, o.rx) \in Int /\ v.pending \in Int
  <2>1. Due(v, o, o.rx) \in Nat
    BY DueType DEF SockType, Linked, Owing
  <2>2. Due(v, x, x.rx) \in Int
    BY TallyEmpty, TallyType DEF Due, SockType
  <2> QED BY <2>1, <2>2 DEF ConnType
<1>3. Written(m, v, mask, x) /\ Framing(m, x, x.rx) /\ Ending(m, v, x, x.rx)
  BY DEF Linked, Written, Framing, Ending
<1>4. Owing(v, mask, x, x.rx)
  <2> DEFINE n == IF W \in mask THEN 0 ELSE v.pending
  <2>1. n \in Int /\ Due(v, o, o.rx) <= n
    BY <1>2 DEF Linked, Owing
  <2>2. Due(v, x, x.rx) <= n
    BY <1>1, <1>2, <2>1
  <2> QED BY <2>2 DEF Owing
<1> QED BY <1>3, <1>4 DEF Linked

(* Something that is no response, in the place of those that are owed.     *)
LEMMA LinkedGarble ==
  ASSUME NEW m \in ModeType, m.faults, NEW v \in ConnType, NEW mask,
         NEW o \in SockType, Linked(m, v, mask, o, o.rx),
         ~o.fin, o.owe > 0, o.todo = <<>>,
         NEW x \in SockType, x.rx = o.rx \o <<"x">>, x.got = o.got, x.owe = 0,
         x.todo = o.todo, x.fin = o.fin, x.ends = TRUE
  PROVE  Linked(m, v, mask, x, x.rx)
<1>1. /\ o.rx \in Seq(Bytes) /\ o.owe \in Int /\ v.pending \in Int /\ "x" \in Bytes
      /\ "x" \in Marks /\ "x" \in Closing
  BY DEF SockType, ConnType, Bytes, Marks, Closing
<1>2. /\ Tally(x.rx, Marks) = Tally(o.rx, Marks) + 1
      /\ Tally(x.rx, Closing) = Tally(o.rx, Closing) + 1
      /\ Tally(o.rx, Marks) \in Nat /\ Tally(o.rx, Closing) \in Nat
  BY <1>1, TallyAppend, TallyType
<1>3. /\ Due(v, o, o.rx) \in Nat /\ o.owe <= Due(v, o, o.rx)
      /\ Due(v, o, o.rx) <= IF W \in mask THEN 0 ELSE v.pending
  BY <1>1, DueType DEF Linked, Owing
<1>4. W \notin mask
  BY <1>1, <1>3
<1>5. Due(v, x, x.rx) <= v.pending
  <2> DEFINE a == Tally(o.rx, Marks)
             b == Tally(o.todo, Marks)
             k == IF v.ps = "eof" THEN 1 ELSE 0
  <2>1. a \in Nat /\ b \in Nat /\ k \in Nat
    BY <1>2, TallyType DEF SockType
  <2>2. Due(v, x, x.rx) = 0 + (a + 1) + b + k
    BY <1>2 DEF Due
  <2>3. Due(v, o, o.rx) = o.owe + a + b + k
    BY DEF Due
  <2>4. Due(v, o, o.rx) <= v.pending
    BY <1>3, <1>4
  <2> HIDE DEF a, b, k
  <2> QED BY <1>1, <2>1, <2>2, <2>3, <2>4
<1>6. Final(v, x, x.rx)
  <2>1. Tally(x.rx, Closing) > 0
    BY <1>2
  <2> QED BY <2>1 DEF Final
<1>7. Written(m, v, mask, x) /\ Framing(m, x, x.rx)
  BY DEF Linked, Written, Framing
<1>8. Owing(v, mask, x, x.rx) /\ Ending(m, v, x, x.rx)
  BY <1>4, <1>5, <1>6 DEF Owing, Ending
<1> QED BY <1>7, <1>8 DEF Linked
-----------------------------------------------------------------------------
(* Which delays run, and that no connection has two.                       *)
Waits(ts, c) == \E i \in DOMAIN ts : ts[i].proc = "delay_request" /\ ts[i].data = c
Single(ts) ==
  \A i, j \in DOMAIN ts :
    /\ ts[i].proc = "delay_request" /\ ts[j].proc = "delay_request"
    /\ ts[i].data = ts[j].data
    => i = j

(* A socket that is closed has nothing left of the one it was.             *)
Blank(s) == \A fd \in Fds : s.sock[fd].st = "closed" => s.sock[fd] = Closed
Tidy(s) == Blank(s) /\ Single(s.timers)

(* The connection c with rx to be read, and what is to be read of it.      *)
Calm(v) == v.delayed => v.pending = 0
Read(s, c) == IF c \in s.lost THEN <<>> ELSE s.sock[s.conn[c].fd].rx
Paced(s, c, rx) ==
  /\ Calm(s.conn[c])
  /\ IF c \in s.lost THEN ~Waits(s.timers, c)
     ELSE Tuned(mode, s.conn[c], s.events[s.conn[c].fd], s.sock[s.conn[c].fd], rx,
                Waits(s.timers, c))

(* What is done for the connection c leaves the others alone.              *)
Elsewhere(s, c, q) ==
  /\ \A d \in Conns : d # c => /\ q.conn[d] = s.conn[d]
                               /\ d \in q.lost <=> d \in s.lost
                               /\ Waits(q.timers, d) <=> Waits(s.timers, d)
  /\ \A fd \in Fds : s.sock[fd].st # "closed" /\ s.events[fd].data # c =>
       q.events[fd] = s.events[fd] /\ q.sock[fd] = s.sock[fd]

LEMMA ElsewhereBoth ==
  ASSUME NEW s, NEW c, NEW q, Elsewhere(s, c, q), NEW r, Elsewhere(q, c, r)
  PROVE  Elsewhere(s, c, r)
<1>1. ASSUME NEW d \in Conns, d # c
      PROVE  /\ r.conn[d] = s.conn[d] /\ (d \in r.lost <=> d \in s.lost)
             /\ Waits(r.timers, d) <=> Waits(s.timers, d)
  BY <1>1 DEF Elsewhere
<1>2. ASSUME NEW fd \in Fds, s.sock[fd].st # "closed", s.events[fd].data # c
      PROVE  r.events[fd] = s.events[fd] /\ r.sock[fd] = s.sock[fd]
  <2>1. q.events[fd] = s.events[fd] /\ q.sock[fd] = s.sock[fd]
    BY <1>2 DEF Elsewhere
  <2> QED BY <1>2, <2>1 DEF Elsewhere
<1> QED BY <1>1, <1>2 DEF Elsewhere

LEMMA OthersPaced ==
  ASSUME mode \in ModeType, NEW s, Fine(mode, s), NEW c, NEW q, Elsewhere(s, c, q),
         NEW d \in mode.conns, d # c, Paced(s, d, Read(s, d))
  PROVE  Paced(q, d, Read(q, d))
<1>1. /\ q.conn[d] = s.conn[d] /\ (d \in q.lost <=> d \in s.lost)
      /\ Waits(q.timers, d) <=> Waits(s.timers, d)
  BY DEF Elsewhere, ModeType
<1>2. CASE d \in s.lost
  BY <1>1, <1>2 DEF Paced, Read
<1>3. CASE d \notin s.lost
  <2>1. /\ s.conn[d].fd \in Fds /\ s.sock[s.conn[d].fd].st # "closed"
        /\ s.events[s.conn[d].fd].data = d
    BY <1>3, FineTypes
  <2>2. /\ q.events[s.conn[d].fd] = s.events[s.conn[d].fd]
        /\ q.sock[s.conn[d].fd] = s.sock[s.conn[d].fd]
    BY <2>1 DEF Elsewhere
  <2>3. Waits(q.timers, d) = Waits(s.timers, d)
    BY <1>1 DEF Waits
  <2> QED BY <1>1, <1>3, <2>2, <2>3 DEF Paced, Read
<1> QED BY <1>2, <1>3
-----------------------------------------------------------------------------
(* The callback of c has changed its record to v, and of its socket the    *)
(* events to e and the socket to o.                                        *)
Turned(s, c, q, v, e, o) ==
  /\ Fine(mode, q) /\ q.lost = s.lost /\ q.timers = s.timers
  /\ q.conn[c] = v /\ v.fd = s.conn[c].fd
  /\ \A d \in Conns : d # c => q.conn[d] = s.conn[d]
  /\ q.events[s.conn[c].fd] = e /\ q.sock[s.conn[c].fd] = o
  /\ \A fd \in Fds : fd # s.conn[c].fd => q.events[fd] = s.events[fd] /\ q.sock[fd] = s.sock[fd]

LEMMA TurnedNot ==
  ASSUME NEW s, Fine(mode, s), NEW c
  PROVE  Turned(s, c, s, s.conn[c], s.events[s.conn[c].fd], s.sock[s.conn[c].fd])
BY DEF Turned

LEMMA TurnedTwice ==
  ASSUME NEW s, NEW c, NEW q, NEW v, NEW e, NEW o, Turned(s, c, q, v, e, o),
         NEW r, NEW w, NEW f, NEW p, Turned(q, c, r, w, f, p)
  PROVE  Turned(s, c, r, w, f, p)
<1>1. q.conn[c].fd = s.conn[c].fd
  BY DEF Turned
<1>2. \A fd \in Fds : fd # s.conn[c].fd => r.events[fd] = s.events[fd] /\ r.sock[fd] = s.sock[fd]
  BY <1>1 DEF Turned
<1>3. \A d \in Conns : d # c => r.conn[d] = s.conn[d]
  BY DEF Turned
<1> QED BY <1>1, <1>2, <1>3 DEF Turned

LEMMA TurnedElsewhere ==
  ASSUME mode \in ModeType, NEW s, Fine(mode, s), NEW c \in mode.conns \ s.lost,
         NEW q, NEW v, NEW e, NEW o, Turned(s, c, q, v, e, o), Tidy(s)
  PROVE  Elsewhere(s, c, q) /\ Tidy(q)
<1>1. s.conn[c].fd \in Fds /\ s.events[s.conn[c].fd].data = c
  BY FineTypes
<1>2. Elsewhere(s, c, q)
  BY <1>1 DEF Turned, Elsewhere
<1>3. q.sock[s.conn[c].fd].st # "closed"
  <2>1. Fine(mode, q) /\ c \in mode.conns \ q.lost /\ q.conn[c].fd = s.conn[c].fd
    BY DEF Turned
  <2> QED BY <2>1, FineTypes
<1>4. Tidy(q)
  BY <1>3 DEF Tidy, Blank, Turned
<1> QED BY <1>2, <1>4

LEMMA TurnConn ==
  ASSUME mode \in ModeType, NEW s, Fine(mode, s), NEW c \in mode.conns \ s.lost,
         NEW v \in ConnType, v.fd = s.conn[c].fd, v.delayed => mode.delay,
         NEW q, q = [s EXCEPT !.conn[c] = v]
  PROVE  Turned(s, c, q, v, s.events[s.conn[c].fd], s.sock[s.conn[c].fd])
<1>1. Fine(mode, q)
  BY ConnSteady DEF Steady
<1>2. s \in StateType /\ c \in Conns
  BY FineTypes
<1>3. /\ q.events = s.events /\ q.timers = s.timers /\ q.sock = s.sock /\ q.lost = s.lost
      /\ q.conn = [s.conn EXCEPT ![c] = v]
  BY <1>2 DEF StateType
<1>4. s.conn \in [Conns -> ConnType]
  BY <1>2 DEF StateType
<1>5. q.conn[c] = v /\ \A d \in Conns : d # c => q.conn[d] = s.conn[d]
  BY <1>2, <1>3, <1>4
<1> QED BY <1>1, <1>3, <1>5 DEF Turned

(* The events, with one more callback or without the writable half.        *)
Wired(e, mask, proc, c) ==
  [mask  |-> e.mask \cup mask,
   rproc |-> IF R \in mask THEN proc ELSE e.rproc,
   wproc |-> IF W \in mask THEN proc ELSE e.wproc,
   data  |-> c]

LEMMA TurnCreate ==
  ASSUME mode \in ModeType, NEW s, Fine(mode, s), NEW c \in mode.conns \ s.lost,
         NEW mask \in SUBSET {R, W}, NEW proc,
         R \in mask => proc \in ReadProcs, W \in mask => proc \in WriteProcs,
         NEW q, q = aeCreateFileEvent(s, s.conn[c].fd, mask, proc, c)
  PROVE  Turned(s, c, q, s.conn[c], Wired(s.events[s.conn[c].fd], mask, proc, c),
                s.sock[s.conn[c].fd])
<1> DEFINE k == s.conn[c].fd
<1>1. Fine(mode, q)
  BY CreateSteady DEF Steady
<1>2. s \in StateType /\ k \in Fds /\ s.sock[k].st # "closed" /\ Watched(s)
  BY FineTypes DEF Fine, Sane
<1>3. Created(s, k, mask, proc, c, q)
  <2> HIDE DEF k
  <2> QED BY <1>2, CreateIs DEF k
<1>4. /\ q.events = [s.events EXCEPT ![k] = Wired(s.events[k], mask, proc, c)]
      /\ q.timers = s.timers /\ q.sock = s.sock /\ q.lost = s.lost /\ q.conn = s.conn
  BY <1>3 DEF Created, Wired
<1>5. /\ q.events[k] = Wired(s.events[k], mask, proc, c)
      /\ \A fd \in Fds : fd # k => q.events[fd] = s.events[fd]
  <2>1. s.events \in [Fds -> EventType]
    BY <1>2 DEF StateType
  <2> HIDE DEF k
  <2> QED BY <1>2, <1>4, <2>1
<1> QED BY <1>1, <1>4, <1>5 DEF Turned

LEMMA TurnDelete ==
  ASSUME mode \in ModeType, NEW s, Fine(mode, s), NEW c \in mode.conns \ s.lost,
         NEW q, q = aeDeleteFileEvent(s, s.conn[c].fd, {W})
  PROVE  Turned(s, c, q, s.conn[c],
                [s.events[s.conn[c].fd] EXCEPT !.mask = @ \ {W}], s.sock[s.conn[c].fd])
<1> DEFINE k == s.conn[c].fd
           left == s.events[k].mask \ {W}
<1>1. Fine(mode, q)
  BY DeleteSteady DEF Steady
<1>2. s \in StateType /\ k \in Fds /\ s.events[k].mask # {}
  <2>1. k \in Fds /\ s.sock[k].st # "closed"
    BY FineTypes
  <2> QED BY <2>1, FineTypes DEF Fine, Sane, Owned
<1>3. /\ q.events = [s.events EXCEPT ![k].mask = left]
      /\ q.timers = s.timers /\ q.sock = s.sock /\ q.lost = s.lost /\ q.conn = s.conn
  <2>1. q = aeDeleteFileEvent(s, k, {W})
    OBVIOUS
  <2> HIDE DEF k
  <2>2. Erased(s, k, {W}, q)
    BY <1>2, <2>1, DeleteIs
  <2> QED BY <2>2 DEF Erased
<1>4. /\ q.events[k] = [s.events[k] EXCEPT !.mask = left]
      /\ \A fd \in Fds : fd # k => q.events[fd] = s.events[fd]
  <2>1. s.events \in [Fds -> EventType]
    BY <1>2 DEF StateType
  <2> HIDE DEF k, left
  <2> QED BY <1>2, <1>3, <2>1
<1> QED BY <1>1, <1>3, <1>4 DEF Turned

LEMMA TurnSock ==
  ASSUME mode \in ModeType, NEW s, Fine(mode, s), NEW c \in mode.conns \ s.lost,
         NEW v \in SockType, v.st = s.sock[s.conn[c].fd].st, v.st \notin {"closed", "connecting"},
         NEW q, q = [s EXCEPT !.sock[s.conn[c].fd] = v]
  PROVE  Turned(s, c, q, s.conn[c], s.events[s.conn[c].fd], v)
<1>1. s.conn[c].fd \in Fds
  BY FineTypes
<1>2. Fine(mode, q) /\ SockOnly(s, s.conn[c].fd, v, q)
  BY <1>1, SockSteady
<1> QED BY <1>2 DEF Turned, SockOnly

(* A change of the record and the socket leaves the connection in step.    *)
LEMMA TurnedPaced ==
  ASSUME NEW s, NEW c, c \notin s.lost, NEW q, NEW v, NEW e, NEW o, Turned(s, c, q, v, e, o),
         Calm(v), NEW rx, Tuned(mode, v, e, o, rx, Waits(s.timers, c))
  PROVE  Paced(q, c, rx)
<1>1. /\ q.lost = s.lost /\ q.timers = s.timers /\ q.conn[c] = v
      /\ q.events[v.fd] = e /\ q.sock[v.fd] = o
  BY DEF Turned
<1> QED BY <1>1 DEF Paced

(* What a callback of c leaves, and what lets it connect c again.          *)
Done(s, c, q) ==
  Fine(mode, q) /\ Elsewhere(s, c, q) /\ Tidy(q) /\ Paced(q, c, Read(q, c))
Closable(q, c) ==
  /\ Fine(mode, q) /\ Tidy(q) /\ Calm(q.conn[c]) /\ ~Waits(q.timers, c)
  /\ q.conn[c].fd \in Fds /\ (c \notin q.lost \/ q.sock[q.conn[c].fd].st = "closed")

LEMMA EmptiedElsewhere ==
  ASSUME mode \in ModeType, NEW c \in mode.conns, NEW q, Closable(q, c),
         NEW x, Emptied(q, c, x)
  PROVE  Elsewhere(q, c, x) /\ Blank(x) /\ x.sock[q.conn[c].fd] = Closed
<1> DEFINE k == q.conn[c].fd
<1>1. /\ Fine(mode, q) /\ Blank(q) /\ k \in Fds
      /\ c \in q.lost => q.sock[k].st = "closed"
  BY DEF Closable, Tidy
<1>2. q.sock[k].st = "closed" \/ q.events[k].data = c
  BY <1>1, FineTypes
<1>3. q.sock \in [Fds -> SockType]
  BY <1>1, FineTypes DEF StateType
<1>4. /\ x.sock[k] = Closed /\ \A fd \in Fds : fd # k => x.sock[fd] = q.sock[fd]
      /\ \A fd \in Fds : fd # k => x.events[fd] = q.events[fd]
      /\ x.timers = q.timers /\ x.lost = q.lost /\ x.conn = q.conn
  <2>1. x.sock = [q.sock EXCEPT ![k] = Closed]
    BY DEF Emptied
  <2> QED BY <1>1, <1>3, <2>1 DEF Emptied
<1> HIDE DEF k
<1>5. \A fd \in Fds : x.sock[fd].st = "closed" => x.sock[fd] = Closed
  BY <1>1, <1>4 DEF Blank
<1>6. Elsewhere(q, c, x)
  BY <1>2, <1>4 DEF Elsewhere
<1> QED BY <1>4, <1>5, <1>6 DEF Blank, k

(* A connection that has no socket is given one, or is lost.               *)
LEMMA Opened ==
  ASSUME mode \in ModeType, NEW c \in mode.conns, NEW x, Tidy(x), ~Waits(x.timers, c),
         x.conn[c] \in ConnType, Calm(x.conn[c]),
         NEW r, (\E fd \in Fds : Fresh(x, c, fd, r)) \/ Missed(x, c, r), Fine(mode, r)
  PROVE  /\ Elsewhere(x, c, r) /\ Done(x, c, r) /\ Read(r, c) = <<>>
         /\ r.conn[c].ps = x.conn[c].ps
         /\ x.conn[c].fd \in Fds /\ x.sock[x.conn[c].fd].st = "closed" => Closable(r, c)
<1>1. Blank(x) /\ Single(x.timers) /\ c \in Conns
  BY DEF Tidy, ModeType
<1>2. CASE Missed(x, c, r)
  <2>1. /\ r.sock = x.sock /\ r.events = x.events /\ r.conn = x.conn
        /\ r.lost = x.lost \cup {c} /\ r.timers = x.timers
    BY <1>2 DEF Missed
  <2>2. Elsewhere(x, c, r)
    BY <2>1 DEF Elsewhere
  <2>3. Tidy(r)
    BY <1>1, <2>1 DEF Tidy, Blank
  <2>4. /\ Calm(r.conn[c]) /\ ~Waits(r.timers, c)
        /\ r.conn[c].ps = x.conn[c].ps /\ c \in r.lost
    BY <2>1
  <2>5. Paced(r, c, Read(r, c)) /\ Read(r, c) = <<>>
    BY <2>4 DEF Paced, Read
  <2> QED BY <2>1, <2>2, <2>3, <2>4, <2>5 DEF Done, Closable
<1>3. CASE \E fd \in Fds : Fresh(x, c, fd, r)
  <2>1. PICK fd \in Fds : Fresh(x, c, fd, r)
    BY <1>3
  <2>2. /\ x.sock[fd].st = "closed"
        /\ r.sock[fd] = [x.sock[fd] EXCEPT !.st = "connecting"]
        /\ \A k \in Fds : k # fd => r.sock[k] = x.sock[k] /\ r.events[k] = x.events[k]
        /\ r.conn[c] = [x.conn[c] EXCEPT !.fd = fd] /\ r.conn[c].fd = fd
        /\ r.conn[c].ps = x.conn[c].ps
        /\ \A d \in Conns : d # c => r.conn[d] = x.conn[d]
        /\ r.lost = x.lost \ {c} /\ r.timers = x.timers
        /\ r.events[fd].mask = {R, W}
        /\ r.events[fd].rproc = "socket_connected" /\ r.events[fd].wproc = "socket_connected"
    BY <2>1 DEF Fresh
  <2>3. r.sock[fd] = [Closed EXCEPT !.st = "connecting"]
    BY <1>1, <2>2 DEF Blank
  <2>4. /\ r.sock[fd].st = "connecting" /\ r.sock[fd].rx = <<>> /\ r.sock[fd].todo = <<>>
        /\ r.sock[fd].fin = FALSE /\ r.sock[fd].ends = FALSE
        /\ r.sock[fd].got = 0 /\ r.sock[fd].owe = 0
    BY <2>3 DEF Closed
  <2>5. Elsewhere(x, c, r)
    <3>1. \A k \in Fds : x.sock[k].st # "closed" => k # fd
      BY <2>2
    <3> QED BY <2>2, <3>1 DEF Elsewhere
  <2>6. Tidy(r)
    <3>1. \A k \in Fds : r.sock[k].st = "closed" => k # fd
      BY <2>4
    <3>2. Blank(r)
      BY <1>1, <2>2, <3>1 DEF Blank
    <3> QED BY <1>1, <2>2, <3>2 DEF Tidy
  <2>7. Calm(r.conn[c])
    <3>1. r.conn[c].delayed = x.conn[c].delayed /\ r.conn[c].pending = x.conn[c].pending
      BY <2>2 DEF ConnType
    <3> QED BY <3>1 DEF Calm
  <2>8. c \notin r.lost /\ ~Waits(r.timers, c)
    BY <2>2
  <2>9. Read(r, c) = <<>>
    BY <2>2, <2>4, <2>8 DEF Read
  <2>10. Paced(r, c, <<>>)
    <3>1. Opening(mode, r.events[fd], r.sock[fd], <<>>, Waits(r.timers, c))
      BY <2>2, <2>4, <2>8 DEF Opening
    <3>2. Tuned(mode, r.conn[c], r.events[fd], r.sock[fd], <<>>, Waits(r.timers, c))
      BY <2>2, <2>4, <3>1 DEF Tuned
    <3> QED BY <2>2, <2>7, <2>8, <3>2 DEF Paced
  <2> QED BY <2>2, <2>5, <2>6, <2>7, <2>8, <2>9, <2>10 DEF Done, Closable
<1> QED BY <1>2, <1>3

LEMMA Reconnected ==
  ASSUME mode \in ModeType, NEW s, NEW c \in mode.conns, NEW q, Closable(q, c),
         Elsewhere(s, c, q), NEW r \in reconnect_socket(q, c)
  PROVE  /\ Done(s, c, r) /\ Closable(r, c) /\ r.conn[c].ps = q.conn[c].ps
         /\ Read(r, c) = <<>>
<1>1. /\ Fine(mode, q) /\ Tidy(q) /\ Calm(q.conn[c]) /\ ~Waits(q.timers, c)
      /\ q.conn[c].fd \in Fds /\ (c \notin q.lost \/ q.sock[q.conn[c].fd].st = "closed")
  BY DEF Closable
<1>2. /\ Fine(mode, r)
      /\ \E x : Emptied(q, c, x) /\ ((\E fd \in Fds : Fresh(x, c, fd, r)) \/ Missed(x, c, r))
  BY <1>1, ReconnectIs
<1>3. PICK x : Emptied(q, c, x) /\ ((\E fd \in Fds : Fresh(x, c, fd, r)) \/ Missed(x, c, r))
  BY <1>2
<1>4. Elsewhere(q, c, x) /\ Blank(x) /\ x.sock[q.conn[c].fd] = Closed
  BY <1>3, EmptiedElsewhere
<1>5. x.timers = q.timers /\ x.conn = q.conn /\ q.conn[c] \in ConnType
  BY <1>1, <1>3, FineTypes DEF Emptied
<1>6. Tidy(x)
  BY <1>1, <1>4, <1>5 DEF Tidy
<1>7. /\ Elsewhere(x, c, r) /\ Done(x, c, r) /\ Read(r, c) = <<>>
      /\ r.conn[c].ps = x.conn[c].ps
      /\ x.conn[c].fd \in Fds /\ x.sock[x.conn[c].fd].st = "closed" => Closable(r, c)
  <2>1. ~Waits(x.timers, c) /\ x.conn[c] \in ConnType /\ Calm(x.conn[c])
    BY <1>1, <1>5
  <2> QED BY <1>2, <1>3, <1>6, <2>1, Opened
<1>8. Elsewhere(s, c, r)
  BY <1>4, <1>7, ElsewhereBoth
<1>9. x.sock[x.conn[c].fd].st = "closed"
  BY <1>4, <1>5 DEF Closed
<1> QED BY <1>1, <1>5, <1>7, <1>8, <1>9 DEF Done

LEMMA TurnedDone ==
  ASSUME mode \in ModeType, NEW s, Fine(mode, s), Tidy(s), NEW c \in mode.conns \ s.lost,
         NEW q, NEW v, NEW e, NEW o, Turned(s, c, q, v, e, o),
         Calm(v), Tuned(mode, v, e, o, o.rx, Waits(s.timers, c))
  PROVE  Done(s, c, q)
<1>1. Elsewhere(s, c, q) /\ Tidy(q)
  BY TurnedElsewhere
<1>2. Paced(q, c, o.rx)
  BY TurnedPaced
<1>3. Fine(mode, q) /\ q.lost = s.lost /\ q.conn[c].fd = s.conn[c].fd /\ q.sock[s.conn[c].fd] = o
  BY DEF Turned
<1>4. Read(q, c) = o.rx
  BY <1>3 DEF Read
<1> QED BY <1>1, <1>2, <1>3, <1>4 DEF Done

(* The connection that has a socket, by the callback that is next for it.  *)
LEMMA PacedIs ==
  ASSUME NEW s, NEW c, c \notin s.lost, NEW rx, Paced(s, c, rx)
  PROVE  /\ Calm(s.conn[c])
         /\ s.sock[s.conn[c].fd].st = "failed" => mode.faults /\ rx = <<>> /\ ~s.sock[s.conn[c].fd].fin
         /\ s.events[s.conn[c].fd].rproc = "socket_connected" =>
              Opening(mode, s.events[s.conn[c].fd], s.sock[s.conn[c].fd], rx,
                      Waits(s.timers, c))
         /\ s.events[s.conn[c].fd].rproc = "socket_readable" =>
              Using(mode, s.conn[c], s.events[s.conn[c].fd], s.sock[s.conn[c].fd], rx,
                    Waits(s.timers, c))
BY DEF Paced, Tuned

LEMMA PacedConnected ==
  ASSUME mode \in ModeType, NEW s, Fine(mode, s), Tidy(s), NEW c \in mode.conns \ s.lost,
         Paced(s, c, Read(s, c)), s.events[s.conn[c].fd].rproc = "socket_connected",
         s.sock[s.conn[c].fd].st \in {"up", "failed"},
         NEW q \in socket_connected(s, s.conn[c].fd, c)
  PROVE  Done(s, c, q)
<1> DEFINE k == s.conn[c].fd
           o == s.sock[k]
           e == s.events[k]
           f == Wired(e, {R}, "socket_readable", c)
           h == Wired(f, {W}, "socket_writeable", c)
           v == [s.conn[c] EXCEPT !.ps = "start", !.written = 0]
           a == [s EXCEPT !.conn[c].ps = "start", !.conn[c].written = 0]
           b == aeCreateFileEvent(a, k, {R}, "socket_readable", c)
<1>1. /\ s \in StateType /\ c \in Conns /\ s.conn[c] \in ConnType
      /\ s.conn[c].delayed => mode.delay
      /\ o \in SockType
  BY FineTypes
<1>2. /\ v \in ConnType /\ v.fd = k /\ v.delayed = s.conn[c].delayed
      /\ v.pending = s.conn[c].pending /\ v.ps = "start" /\ v.written = 0
  <2> DEFINE u == [s.conn[c] EXCEPT !.ps = "start"]
  <2>1. u \in ConnType /\ u.fd = k /\ u.delayed = s.conn[c].delayed /\ u.ps = "start"
        /\ u.pending = s.conn[c].pending
    BY <1>1 DEF ConnType
  <2>2. v = [u EXCEPT !.written = 0]
    OBVIOUS
  <2> HIDE DEF u, v, k
  <2> QED BY <2>1, <2>2 DEF ConnType
<1>3. a = [s EXCEPT !.conn[c] = v]
  BY <1>1 DEF StateType
<1>4. q = aeCreateFileEvent(b, k, {W}, "socket_writeable", c)
  BY DEF socket_connected
<1>5. /\ {R} \in SUBSET {R, W} /\ W \notin {R} /\ "socket_readable" \in ReadProcs
      /\ {W} \in SUBSET {R, W} /\ R \notin {W} /\ "socket_writeable" \in WriteProcs
  BY DEF R, W, ReadProcs, WriteProcs
<1> HIDE DEF v, a, b, k, e, o
<1>6. Turned(s, c, a, v, e, o)
  BY <1>1, <1>2, <1>3, TurnConn DEF k, e, o
<1>7. /\ Fine(mode, a) /\ c \in mode.conns \ a.lost /\ a.conn[c] = v
      /\ a.events[v.fd] = e /\ a.sock[v.fd] = o
  BY <1>2, <1>6 DEF Turned, k
<1>8. Turned(a, c, b, v, f, o)
  <2>1. b = aeCreateFileEvent(a, a.conn[c].fd, {R}, "socket_readable", c)
    BY <1>2, <1>7 DEF b
  <2>2. Turned(a, c, b, a.conn[c], Wired(a.events[a.conn[c].fd], {R}, "socket_readable", c),
               a.sock[a.conn[c].fd])
    BY <1>5, <1>7, <2>1, TurnCreate
  <2> QED BY <1>7, <2>2
<1> HIDE DEF f
<1>9. /\ Fine(mode, b) /\ c \in mode.conns \ b.lost /\ b.conn[c] = v
      /\ b.events[v.fd] = f /\ b.sock[v.fd] = o
  BY <1>7, <1>8 DEF Turned
<1>10. Turned(b, c, q, v, h, o)
  <2>1. q = aeCreateFileEvent(b, b.conn[c].fd, {W}, "socket_writeable", c)
    BY <1>2, <1>4, <1>9
  <2>2. Turned(b, c, q, b.conn[c], Wired(b.events[b.conn[c].fd], {W}, "socket_writeable", c),
               b.sock[b.conn[c].fd])
    BY <1>5, <1>9, <2>1, TurnCreate
  <2> QED BY <1>9, <2>2
<1> HIDE DEF h
<1>11. Turned(s, c, q, v, h, o)
  BY <1>6, <1>8, <1>10, TurnedTwice
<1>12. Opening(mode, e, o, Read(s, c), Waits(s.timers, c)) /\ Calm(s.conn[c])
       /\ o.st \in {"up", "failed"} /\ (o.st = "failed" => mode.faults /\ ~o.fin)
  BY PacedIs DEF k, e, o
<1>13. /\ h.mask = {R, W} /\ h.rproc = "socket_readable" /\ h.wproc = "socket_writeable"
  <2>1. /\ f.mask = e.mask \cup {R} /\ f.rproc = "socket_readable" /\ f.wproc = e.wproc
    BY <1>5 DEF f, Wired
  <2>2. h.mask = f.mask \cup {W} /\ h.rproc = f.rproc /\ h.wproc = "socket_writeable"
    BY <1>5 DEF h, Wired
  <2>3. e.mask = {R, W}
    BY <1>12 DEF Opening
  <2> QED BY <2>1, <2>2, <2>3
<1>14. Read(s, c) = o.rx /\ o.rx = <<>>
  BY <1>12 DEF Read, o, k, Opening
<1>15. Linked(mode, v, {R, W}, o, o.rx)
  <2>1. o.rx \in Seq(Bytes)
    BY <1>1 DEF SockType
  <2>2. Opening(mode, e, o, o.rx, Waits(s.timers, c))
    BY <1>12, <1>14
  <2> QED BY <1>1, <1>2, <2>1, <2>2, LinkedNew
<1>16. Tuned(mode, v, h, o, o.rx, Waits(s.timers, c))
  <2>1. ~Waits(s.timers, c)
    BY <1>12 DEF Opening
  <2>2. Using(mode, v, h, o, o.rx, Waits(s.timers, c))
    BY <1>12, <1>13, <1>15, <2>1 DEF Using
  <2> QED BY <1>12, <1>13, <1>14, <2>2 DEF Tuned
<1>17. Calm(v)
  BY <1>2, <1>12 DEF Calm
<1> QED BY <1>11, <1>16, <1>17, TurnedDone
-----------------------------------------------------------------------------
(* One timer more.                                                         *)
LEMMA WaitsMore ==
  ASSUME NEW ts \in Seq(TimerType), NEW t \in TimerType, NEW us, us = <<t>> \o ts
  PROVE  /\ \A d : Waits(us, d) <=> (t.proc = "delay_request" /\ t.data = d) \/ Waits(ts, d)
         /\ Single(ts) /\ (t.proc = "delay_request" => ~Waits(ts, t.data)) => Single(us)
<1>1. /\ DOMAIN us = 1 .. Len(ts) + 1 /\ DOMAIN ts = 1 .. Len(ts) /\ Len(ts) \in Nat
      /\ us[1] = t /\ \A i \in DOMAIN ts : us[i + 1] = ts[i] /\ i + 1 \in DOMAIN us /\ i + 1 # 1
      /\ \A i \in DOMAIN us : i # 1 => i - 1 \in DOMAIN ts /\ us[i] = ts[i - 1] /\ i \in Nat
  OBVIOUS
<1>2. ASSUME NEW d
      PROVE  Waits(us, d) <=> (t.proc = "delay_request" /\ t.data = d) \/ Waits(ts, d)
  <2>1. ASSUME Waits(us, d)
        PROVE  (t.proc = "delay_request" /\ t.data = d) \/ Waits(ts, d)
    BY <1>1, <2>1 DEF Waits
  <2>2. ASSUME (t.proc = "delay_request" /\ t.data = d) \/ Waits(ts, d)
        PROVE  Waits(us, d)
    <3>1. 1 \in DOMAIN us /\ us[1] = t
      BY <1>1
    <3>2. CASE t.proc = "delay_request" /\ t.data = d
      BY <3>1, <3>2 DEF Waits
    <3>3. CASE Waits(ts, d)
      <4>1. PICK i \in DOMAIN ts : ts[i].proc = "delay_request" /\ ts[i].data = d
        BY <3>3 DEF Waits
      <4>2. us[i + 1] = ts[i] /\ i + 1 \in DOMAIN us
        BY <1>1
      <4> QED BY <4>1, <4>2 DEF Waits
    <3> QED BY <2>2, <3>2, <3>3
  <2> QED BY <2>1, <2>2
<1>3. ASSUME Single(ts), t.proc = "delay_request" => ~Waits(ts, t.data)
      PROVE  Single(us)
  <2> SUFFICES ASSUME NEW i \in DOMAIN us, NEW j \in DOMAIN us,
                      us[i].proc = "delay_request", us[j].proc = "delay_request",
                      us[i].data = us[j].data
               PROVE  i = j
    BY DEF Single
  <2>1. i = 1 => j = 1
    BY <1>1, <1>3 DEF Waits
  <2>2. j = 1 => i = 1
    BY <1>1, <1>3 DEF Waits
  <2>3. i # 1 /\ j # 1 => i - 1 = j - 1
    BY <1>1, <1>3 DEF Single
  <2>4. i \in Nat /\ j \in Nat
    BY <1>1
  <2> QED BY <2>1, <2>2, <2>3, <2>4
<1> QED BY <1>2, <1>3

(* socket_writeable of a request that is delayed.                          *)
LEMMA PacedDelay ==
  ASSUME mode \in ModeType, NEW s, Fine(mode, s), Tidy(s), NEW c \in mode.conns \ s.lost,
         Paced(s, c, Read(s, c)), s.events[s.conn[c].fd].rproc = "socket_readable",
         W \in s.events[s.conn[c].fd].mask, s.conn[c].delayed,
         NEW q, q = Delay(s, s.conn[c].fd, c)
  PROVE  Done(s, c, q)
<1> DEFINE k == s.conn[c].fd
           o == s.sock[k]
           e == s.events[k]
           f == [e EXCEPT !.mask = @ \ {W}]
           v == s.conn[c]
           a == aeDeleteFileEvent(s, k, {W})
           t == [proc |-> "delay_request", data |-> c]
           ts == <<t>> \o a.timers
<1>1. /\ s \in StateType /\ c \in Conns /\ v \in ConnType /\ mode.delay
      /\ o \in SockType /\ k \in Fds /\ e \in EventType
  <2>1. /\ s \in StateType /\ c \in Conns /\ v \in ConnType /\ mode.delay
        /\ o \in SockType /\ k \in Fds
    BY FineTypes
  <2> QED BY <2>1 DEF StateType
<1>2. Turned(s, c, a, v, f, o)
  BY TurnDelete
<1>3. Calm(v) /\ Using(mode, v, e, o, Read(s, c), Waits(s.timers, c))
      /\ (o.st = "failed" => mode.faults /\ Read(s, c) = <<>> /\ ~o.fin)
  BY PacedIs
<1>4. q = [a EXCEPT !.timers = ts]
  BY DEF Delay, aeCreateTimeEvent
<1>5. Elsewhere(s, c, a) /\ Tidy(a)
  BY <1>2, TurnedElsewhere
<1>6. ~Waits(s.timers, c) /\ v.delayed /\ v.pending = 0 /\ W \in e.mask
  BY <1>3 DEF Using, Calm
<1>7. f.mask = e.mask \ {W} /\ f.rproc = e.rproc /\ f.wproc = e.wproc
  BY <1>1 DEF EventType
<1>8. Read(s, c) = o.rx /\ o.rx \in Seq(Bytes)
  BY <1>1 DEF Read, SockType
<1> HIDE DEF a, t, f, e, o, v, k
<1>9. /\ Fine(mode, a) /\ a.lost = s.lost /\ a.timers = s.timers /\ a.conn[c] = v
      /\ v.fd = k /\ a.events[k] = f /\ a.sock[k] = o
  BY <1>2 DEF Turned, k
<1>10. /\ a.timers \in Seq(TimerType)
       /\ \A i \in DOMAIN a.timers : a.timers[i].proc = "delay_request" =>
            mode.delay /\ a.timers[i].data \in mode.conns
  BY <1>9 DEF Fine, Sane, StateType, Delays
<1>11. t \in TimerType /\ t.data = c /\ t.proc = "delay_request"
  BY <1>1 DEF TimerType, t
<1>12. ts \in Seq(TimerType)
  BY <1>10, <1>11
<1>13. /\ \A d : Waits(ts, d) <=> d = c \/ Waits(a.timers, d)
       /\ Single(ts)
  <2>1. Single(a.timers)
    BY <1>5 DEF Tidy
  <2> HIDE DEF ts
  <2>2. /\ \A d : Waits(ts, d) <=> (t.proc = "delay_request" /\ t.data = d) \/ Waits(a.timers, d)
        /\ Single(a.timers) /\ (t.proc = "delay_request" => ~Waits(a.timers, t.data)) => Single(ts)
    BY <1>10, <1>11, WaitsMore DEF ts
  <2> QED BY <1>6, <1>9, <1>11, <2>1, <2>2
<1>14. \A i \in DOMAIN ts : ts[i].proc = "delay_request" => mode.delay /\ ts[i].data \in mode.conns
  <2> SUFFICES ASSUME NEW i \in DOMAIN ts, ts[i].proc = "delay_request"
               PROVE  ts[i].data \in mode.conns
    BY <1>1
  <2>1. CASE i = 1
    BY <1>10, <1>11, <2>1
  <2>2. CASE i # 1
    <3>1. i - 1 \in DOMAIN a.timers /\ ts[i] = a.timers[i - 1]
      BY <1>10, <1>11, <2>2
    <3> QED BY <1>10, <3>1
  <2> QED BY <2>1, <2>2
<1> HIDE DEF ts
<1>15. /\ Fine(mode, q) /\ q.timers = ts
       /\ q.lost = a.lost /\ q.conn = a.conn /\ q.events = a.events /\ q.sock = a.sock
  BY <1>4, <1>9, <1>12, <1>14, TimerFine
<1>16. Elsewhere(s, c, q)
  <2>1. Elsewhere(a, c, q)
    BY <1>13, <1>15 DEF Elsewhere
  <2> QED BY <1>5, <2>1, ElsewhereBoth
<1>17. Tidy(q)
  BY <1>5, <1>13, <1>15 DEF Tidy, Blank
<1>18. o.st = "up" => Linked(mode, v, f.mask, o, o.rx)
  <2> SUFFICES ASSUME o.st = "up"
               PROVE  Linked(mode, v, f.mask, o, o.rx)
    OBVIOUS
  <2>1. Linked(mode, v, e.mask, o, o.rx)
    BY <1>3, <1>8 DEF Using
  <2> QED BY <1>1, <1>6, <1>7, <1>8, <2>1, LinkedDelay
<1>19. Paced(q, c, Read(q, c))
  <2>1. Waits(q.timers, c) /\ c \notin q.lost /\ Read(q, c) = o.rx
    BY <1>9, <1>13, <1>15 DEF Read
  <2>2. Using(mode, v, f, o, o.rx, TRUE)
    BY <1>3, <1>6, <1>7, <1>18 DEF Using
  <2>3. Waits(q.timers, c) = TRUE
    BY <2>1 DEF Waits
  <2>4. Tuned(mode, v, f, o, o.rx, Waits(q.timers, c))
    <3>1. f.rproc = "socket_readable"
      BY <1>7 DEF e, k
    <3> QED BY <1>3, <1>8, <2>2, <2>3, <3>1 DEF Tuned
  <2> QED BY <1>3, <1>9, <1>15, <2>1, <2>4 DEF Paced
<1> QED BY <1>15, <1>16, <1>17, <1>19 DEF Done

(* socket_writeable of a request that is not: before the write, and with   *)
(* n units written.                                                        *)
BegunConn(v) == IF v.written = 0 THEN [v EXCEPT !.pending = mode.pipeline] ELSE v
WroteConn(v, n) == [v EXCEPT !.written = (v.written + n) % ReqLen]
WroteSock(o, n) ==
  [o EXCEPT !.got = (o.got + n) % ReqLen,
            !.owe = IF o.got + n >= ReqLen THEN o.owe + mode.pipeline ELSE o.owe]
WroteEvent(v, e, n) == IF v.written + n = ReqLen THEN [e EXCEPT !.mask = @ \ {W}] ELSE e

LEMMA BegunConnIs ==
  ASSUME mode \in ModeType, NEW v \in ConnType
  PROVE  /\ BegunConn(v) \in ConnType /\ BegunConn(v).fd = v.fd
         /\ BegunConn(v).written = v.written /\ BegunConn(v).delayed = v.delayed
         /\ BegunConn(v).ps = v.ps
         /\ BegunConn(v).pending = IF v.written = 0 THEN mode.pipeline ELSE v.pending
BY DEF BegunConn, ConnType, ModeType

LEMMA WroteConnIs ==
  ASSUME NEW v \in ConnType, NEW n \in Int
  PROVE  /\ WroteConn(v, n) \in ConnType /\ WroteConn(v, n).fd = v.fd
         /\ WroteConn(v, n).delayed = v.delayed /\ WroteConn(v, n).ps = v.ps
         /\ WroteConn(v, n).pending = v.pending
         /\ WroteConn(v, n).written = (v.written + n) % ReqLen
<1> DEFINE w == (v.written + n) % ReqLen
<1>1. w \in Int
  <2>1. v.written + n \in Int /\ ReqLen \in Nat \ {0}
    BY LoopAssumption DEF ConnType
  <2> QED BY <2>1
<1>2. WroteConn(v, n) = [v EXCEPT !.written = w]
  BY DEF WroteConn
<1> HIDE DEF w
<1>3. /\ WroteConn(v, n) \in ConnType /\ WroteConn(v, n).fd = v.fd
      /\ WroteConn(v, n).delayed = v.delayed /\ WroteConn(v, n).ps = v.ps
      /\ WroteConn(v, n).pending = v.pending /\ WroteConn(v, n).written = w
  BY <1>1, <1>2 DEF ConnType
<1> QED BY <1>3 DEF w

LEMMA WroteSockIs ==
  ASSUME mode \in ModeType, NEW o \in SockType, NEW n \in Int
  PROVE  /\ WroteSock(o, n) \in SockType /\ WroteSock(o, n).st = o.st
         /\ WroteSock(o, n).rx = o.rx /\ WroteSock(o, n).todo = o.todo
         /\ WroteSock(o, n).ends = o.ends /\ WroteSock(o, n).fin = o.fin
         /\ WroteSock(o, n).got = (o.got + n) % ReqLen
         /\ WroteSock(o, n).owe
              = IF o.got + n >= ReqLen THEN o.owe + mode.pipeline ELSE o.owe
<1> DEFINE a == (o.got + n) % ReqLen
           b == IF o.got + n >= ReqLen THEN o.owe + mode.pipeline ELSE o.owe
<1>1. a \in Int /\ b \in Int
  <2>1. o.got + n \in Int /\ ReqLen \in Nat \ {0} /\ o.owe \in Int /\ mode.pipeline \in Int
    BY LoopAssumption DEF SockType, ModeType
  <2> QED BY <2>1
<1>2. WroteSock(o, n) = [o EXCEPT !.got = a, !.owe = b]
  BY DEF WroteSock
<1> HIDE DEF a, b
<1>3. /\ WroteSock(o, n) \in SockType /\ WroteSock(o, n).st = o.st
      /\ WroteSock(o, n).rx = o.rx /\ WroteSock(o, n).todo = o.todo
      /\ WroteSock(o, n).ends = o.ends /\ WroteSock(o, n).fin = o.fin
      /\ WroteSock(o, n).got = a /\ WroteSock(o, n).owe = b
  BY <1>1, <1>2 DEF SockType
<1> QED BY <1>3 DEF a, b

LEMMA BegunTurned ==
  ASSUME mode \in ModeType, NEW s, Fine(mode, s), NEW c \in mode.conns \ s.lost
  PROVE  Turned(s, c, Begun(s, c), BegunConn(s.conn[c]), s.events[s.conn[c].fd],
                s.sock[s.conn[c].fd])
<1> DEFINE v == s.conn[c]
           a == [s EXCEPT !.conn[c].pending = mode.pipeline]
<1>1. /\ s \in StateType /\ c \in Conns /\ v \in ConnType /\ (v.delayed => mode.delay)
  BY FineTypes
<1>2. CASE v.written = 0
  <2>1. Begun(s, c) = a /\ BegunConn(v) = [v EXCEPT !.pending = mode.pipeline]
    BY <1>2 DEF Begun, BegunConn
  <2>2. a = [s EXCEPT !.conn[c] = [v EXCEPT !.pending = mode.pipeline]]
    BY <1>1 DEF StateType
  <2>3. BegunConn(v) \in ConnType /\ BegunConn(v).fd = v.fd /\ BegunConn(v).delayed = v.delayed
    BY <1>1, BegunConnIs
  <2>4. Begun(s, c) = [s EXCEPT !.conn[c] = BegunConn(v)]
    BY <2>1, <2>2
  <2> HIDE DEF v
  <2>5. v = s.conn[c]
    BY DEF v
  <2>6. Turned(s, c, Begun(s, c), BegunConn(v), s.events[s.conn[c].fd], s.sock[s.conn[c].fd])
    BY <1>1, <2>3, <2>4, <2>5, TurnConn
  <2> QED BY <2>5, <2>6
<1>3. CASE v.written # 0
  <2>1. Begun(s, c) = s /\ BegunConn(v) = v
    BY <1>3 DEF Begun, BegunConn
  <2> QED BY <2>1, TurnedNot
<1> QED BY <1>2, <1>3

LEMMA WroteTurned ==
  ASSUME mode \in ModeType, NEW s, Fine(mode, s), NEW c \in mode.conns \ s.lost,
         NEW n \in Int, s.sock[s.conn[c].fd].st = "up",
         NEW q, q = Wrote(s, s.conn[c].fd, c, n)
  PROVE  Turned(s, c, q, WroteConn(s.conn[c], n),
                WroteEvent(s.conn[c], s.events[s.conn[c].fd], n),
                WroteSock(s.sock[s.conn[c].fd], n))
<1> DEFINE k == s.conn[c].fd
           o == s.sock[k]
           e == s.events[k]
           v == s.conn[c]
           w == v.written + n
           u == WroteConn(v, n)
           x == WroteSock(o, n)
           a == [s EXCEPT !.conn[c].written = w % ReqLen]
           b == Taken(a, k, n)
<1>1. /\ s \in StateType /\ c \in Conns /\ v \in ConnType /\ (v.delayed => mode.delay)
      /\ o \in SockType /\ k \in Fds
  BY FineTypes
<1>2. a = [s EXCEPT !.conn[c] = u]
  BY <1>1 DEF StateType, WroteConn
<1>3. u \in ConnType /\ u.fd = v.fd /\ u.delayed = v.delayed
  BY <1>1, WroteConnIs
<1>4. x \in SockType /\ x.st = o.st
  BY <1>1, WroteSockIs
<1>5. q = IF w = ReqLen THEN aeDeleteFileEvent(b, k, {W}) ELSE b
  BY DEF Wrote
<1>6. k = v.fd /\ v = s.conn[c] /\ o = s.sock[k] /\ e = s.events[k]
  OBVIOUS
<1> HIDE DEF k, o, e, v, u, x, a, b, w
<1>7. Turned(s, c, a, u, e, o)
  BY <1>1, <1>2, <1>3, <1>6, TurnConn
<1>8. /\ Fine(mode, a) /\ c \in mode.conns \ a.lost /\ a.conn[c] = u /\ u.fd = k
      /\ a.events[k] = e /\ a.sock[k] = o
  BY <1>3, <1>6, <1>7 DEF Turned
<1>9. a \in StateType /\ a.sock[k] \in SockType
  BY <1>1, <1>8, FineTypes
<1>10. b = [a EXCEPT !.sock[k] = x]
  BY <1>1, <1>8, <1>9 DEF b, x, Taken, WroteSock, StateType
<1>11. Turned(a, c, b, u, e, x)
  <2>1. /\ k = a.conn[c].fd /\ x.st = a.sock[a.conn[c].fd].st
        /\ x.st \notin {"closed", "connecting"}
        /\ b = [a EXCEPT !.sock[a.conn[c].fd] = x]
    BY <1>4, <1>6, <1>8, <1>10
  <2>2. Turned(a, c, b, a.conn[c], a.events[a.conn[c].fd], x)
    BY <1>4, <1>8, <2>1, TurnSock
  <2> QED BY <1>8, <2>1, <2>2
<1>12. /\ Fine(mode, b) /\ c \in mode.conns \ b.lost /\ b.conn[c] = u
       /\ b.events[k] = e /\ b.sock[k] = x
  BY <1>8, <1>11 DEF Turned
<1>13. Turned(s, c, b, u, e, x)
  BY <1>7, <1>11, TurnedTwice
<1>14. CASE w = ReqLen
  <2>1. q = aeDeleteFileEvent(b, b.conn[c].fd, {W})
    BY <1>5, <1>8, <1>12, <1>14
  <2>2. Turned(b, c, q, b.conn[c], [b.events[b.conn[c].fd] EXCEPT !.mask = @ \ {W}],
               b.sock[b.conn[c].fd])
    BY <1>12, <2>1, TurnDelete
  <2>3. Turned(b, c, q, u, [e EXCEPT !.mask = @ \ {W}], x)
    BY <1>8, <1>12, <2>2
  <2>4. WroteEvent(v, e, n) = [e EXCEPT !.mask = @ \ {W}]
    BY <1>14 DEF WroteEvent, w
  <2>5. Turned(b, c, q, u, WroteEvent(v, e, n), x)
    BY <2>3, <2>4
  <2>6. Turned(s, c, q, u, WroteEvent(v, e, n), x)
    BY <1>13, <2>5, TurnedTwice
  <2> QED BY <2>6 DEF u, v, e, x, o, k
<1>15. CASE w # ReqLen
  <2>1. q = b /\ WroteEvent(v, e, n) = e
    BY <1>5, <1>15 DEF WroteEvent, w
  <2>2. Turned(s, c, q, u, WroteEvent(v, e, n), x)
    BY <1>13, <2>1
  <2> QED BY <2>2 DEF u, v, e, x, o, k
<1> QED BY <1>14, <1>15

LEMMA PacedWriteable ==
  ASSUME mode \in ModeType, NEW s, Fine(mode, s), Tidy(s), NEW c \in mode.conns \ s.lost,
         Paced(s, c, Read(s, c)), s.events[s.conn[c].fd].rproc = "socket_readable",
         W \in s.events[s.conn[c].fd].mask, s.sock[s.conn[c].fd].st \in {"up", "failed"},
         NEW r \in socket_writeable(s, s.conn[c].fd, c)
  PROVE  Done(s, c, r)
<1> DEFINE k == s.conn[c].fd
           o == s.sock[k]
           e == s.events[k]
           v == s.conn[c]
           u == BegunConn(v)
           q == Begun(s, c)
<1>1. /\ s \in StateType /\ c \in Conns /\ v \in ConnType
      /\ o \in SockType /\ k \in Fds
  BY FineTypes
<1>2. CASE v.delayed
  <2>1. r = Delay(s, k, c)
    BY <1>2 DEF socket_writeable
  <2> QED BY <1>2, <2>1, PacedDelay
<1>3. CASE ~v.delayed
  <2>1. /\ Calm(v) /\ Using(mode, v, e, o, Read(s, c), Waits(s.timers, c))
        /\ o.st = "failed" => mode.faults /\ Read(s, c) = <<>> /\ ~o.fin
    BY PacedIs
  <2>2. Turned(s, c, q, u, e, o)
    BY BegunTurned
  <2>3. \/ r = q
        \/ o.st = "up" /\ \E n \in 1 .. ReqLen - v.written : r = Wrote(q, k, c, n)
        \/ r \in reconnect_socket(q, c)
    <3>1. CASE o.st = "up"
      <4>1. r \in {q} \cup {Wrote(q, k, c, n) : n \in 1 .. ReqLen - v.written}
                  \cup (IF o.fin THEN reconnect_socket(q, c) ELSE {})
        BY <1>1, <1>3, <3>1 DEF socket_writeable
      <4> QED BY <3>1, <4>1
    <3>2. CASE o.st = "failed"
      BY <1>1, <1>3, <3>2 DEF socket_writeable
    <3> QED BY <3>1, <3>2
  <2>4. /\ u \in ConnType /\ u.fd = v.fd /\ u.written = v.written /\ u.delayed = v.delayed
        /\ u.ps = v.ps /\ u.pending = IF v.written = 0 THEN mode.pipeline ELSE v.pending
    BY <1>1, BegunConnIs
  <2>5. Read(s, c) = o.rx /\ o.rx \in Seq(Bytes)
    BY <1>1 DEF Read, SockType
  <2>6. W \in e.mask /\ e.rproc = "socket_readable" /\ o.st \in {"up", "failed"} /\ v.fd = k
    OBVIOUS
  <2>7. ~Waits(s.timers, c) /\ Calm(u)
    BY <1>3, <2>1, <2>4, <2>6 DEF Using, Calm
  <2>8. o.st = "up" => Linked(mode, u, e.mask, o, o.rx) /\ u.pending = mode.pipeline
    <3> SUFFICES ASSUME o.st = "up"
                 PROVE  Linked(mode, u, e.mask, o, o.rx) /\ u.pending = mode.pipeline
      OBVIOUS
    <3>1. Linked(mode, v, e.mask, o, o.rx)
      BY <2>1, <2>5 DEF Using
    <3> HIDE DEF u, e, o, v
    <3> QED BY <1>1, <1>3, <2>4, <2>6, <3>1, LinkedBegun DEF SameParser
  <2>9. /\ Fine(mode, q) /\ q.lost = s.lost /\ q.timers = s.timers /\ q.conn[c] = u
        /\ q.events[k] = e /\ q.sock[k] = o /\ Elsewhere(s, c, q) /\ Tidy(q)
    <3>1. Elsewhere(s, c, q) /\ Tidy(q)
      BY <2>2, TurnedElsewhere
    <3> QED BY <2>2, <3>1 DEF Turned
  <2>10. CASE r = q
    <3> HIDE DEF u, e, o, v, q, k
    <3>1. Using(mode, u, e, o, o.rx, Waits(s.timers, c))
      BY <1>3, <2>1, <2>4, <2>7, <2>8 DEF Using
    <3>2. Tuned(mode, u, e, o, o.rx, Waits(s.timers, c))
      BY <2>1, <2>5, <2>6, <3>1 DEF Tuned
    <3> QED BY <2>2, <2>7, <2>10, <3>2, TurnedDone
  <2>11. CASE o.st = "up" /\ \E n \in 1 .. ReqLen - v.written : r = Wrote(q, k, c, n)
    <3>1. PICK n \in 1 .. ReqLen - v.written : r = Wrote(q, k, c, n)
      BY <2>11
    <3> DEFINE x == WroteSock(o, n)
               f == WroteEvent(u, e, n)
               t == WroteConn(u, n)
    <3> HIDE DEF u, e, o, v, q, k
    <3>2. n \in Int
      OBVIOUS
    <3>3. Turned(q, c, r, t, f, x)
      <4>1. /\ q.conn[c] = u /\ q.conn[c].fd = k /\ q.events[k] = e /\ q.sock[k] = o
            /\ c \in mode.conns \ q.lost
        BY <2>4, <2>6, <2>9
      <4>2. r = Wrote(q, q.conn[c].fd, c, n) /\ q.sock[q.conn[c].fd].st = "up"
        BY <2>11, <3>1, <4>1
      <4>3. Turned(q, c, r, WroteConn(q.conn[c], n),
                   WroteEvent(q.conn[c], q.events[q.conn[c].fd], n),
                   WroteSock(q.sock[q.conn[c].fd], n))
        BY <2>9, <3>2, <4>1, <4>2, WroteTurned
      <4> QED BY <4>1, <4>3
    <3>4. /\ t \in ConnType /\ t.fd = u.fd /\ t.delayed = u.delayed /\ t.ps = u.ps
          /\ t.pending = u.pending /\ t.written = (u.written + n) % ReqLen
      BY <2>4, <3>2, WroteConnIs
    <3>5. /\ x \in SockType /\ x.st = o.st /\ x.rx = o.rx /\ x.todo = o.todo
          /\ x.ends = o.ends /\ x.fin = o.fin /\ x.got = (o.got + n) % ReqLen
          /\ x.owe = IF o.got + n >= ReqLen THEN o.owe + mode.pipeline ELSE o.owe
      BY <1>1, <3>2, WroteSockIs
    <3>6. e \in EventType
      <4>1. s.events \in [Fds -> EventType]
        BY <1>1 DEF StateType
      <4> QED BY <1>1, <4>1 DEF e
    <3>7. /\ f.rproc = e.rproc /\ f.wproc = e.wproc
          /\ f.mask = IF u.written + n = ReqLen THEN e.mask \ {W} ELSE e.mask
      BY <3>6 DEF WroteEvent, EventType
    <3> HIDE DEF x, f, t
    <3>8. Linked(mode, t, f.mask, x, o.rx)
      <4>1. n \in 1 .. ReqLen - u.written /\ ~u.delayed /\ u.pending = mode.pipeline
            /\ Linked(mode, u, e.mask, o, o.rx)
        BY <1>3, <2>4, <2>8, <2>11
      <4>2. SameParser(u, t) /\ W \in e.mask /\ o \in SockType
        BY <1>1, <2>6, <3>4 DEF SameParser
      <4> DEFINE left == f.mask
      <4>3. left = IF u.written + n = ReqLen THEN e.mask \ {W} ELSE e.mask
        BY <3>7
      <4> HIDE DEF left
      <4>4. Linked(mode, t, left, x, o.rx)
        BY <2>4, <2>5, <3>4, <3>5, <4>1, <4>2, <4>3, LinkedWrote
      <4> QED BY <4>4 DEF left
    <3>9. Calm(t)
      BY <2>7, <3>4 DEF Calm
    <3>10. Using(mode, t, f, x, x.rx, Waits(s.timers, c))
      BY <1>3, <2>1, <2>4, <2>7, <3>4, <3>5, <3>7, <3>8 DEF Using
    <3>11. Tuned(mode, t, f, x, x.rx, Waits(s.timers, c))
      BY <2>6, <2>11, <3>5, <3>7, <3>10 DEF Tuned
    <3>12. Turned(s, c, r, t, f, x)
      BY <2>2, <3>3, TurnedTwice
    <3> QED BY <3>9, <3>11, <3>12, TurnedDone
  <2>12. CASE r \in reconnect_socket(q, c)
    <3> HIDE DEF u, e, o, v, q, k
    <3>1. Closable(q, c)
      BY <1>1, <2>4, <2>6, <2>7, <2>9 DEF Closable
    <3> QED BY <2>9, <2>12, <3>1, Reconnected
  <2> QED BY <2>3, <2>10, <2>11, <2>12
<1> QED BY <1>2, <1>3
-----------------------------------------------------------------------------
(* response_complete, while something is pending: the record and the       *)
(* events, before the parser is set.                                       *)
NextConn(v, ps) ==
  [v EXCEPT !.pending = v.pending - 1,
            !.delayed = IF v.pending = 1 THEN mode.delay ELSE v.delayed,
            !.ps = ps]
NextEvent(v, e, c) == IF v.pending = 1 THEN Wired(e, {W}, "socket_writeable", c) ELSE e

LEMMA NextConnIs ==
  ASSUME mode \in ModeType, NEW v \in ConnType, NEW ps \in {"start", "dead"}
  PROVE  /\ NextConn(v, ps) \in ConnType /\ NextConn(v, ps).fd = v.fd
         /\ NextConn(v, ps).written = v.written /\ NextConn(v, ps).ps = ps
         /\ NextConn(v, ps).pending = v.pending - 1
         /\ NextConn(v, ps).delayed = IF v.pending = 1 THEN mode.delay ELSE v.delayed
<1> DEFINE n == v.pending - 1
           d == IF v.pending = 1 THEN mode.delay ELSE v.delayed
<1>1. n \in Int /\ d \in BOOLEAN
  BY DEF ConnType, ModeType
<1>2. NextConn(v, ps) = [v EXCEPT !.pending = n, !.delayed = d, !.ps = ps]
  BY DEF NextConn
<1> HIDE DEF n, d
<1>3. /\ NextConn(v, ps) \in ConnType /\ NextConn(v, ps).fd = v.fd
      /\ NextConn(v, ps).written = v.written /\ NextConn(v, ps).ps = ps
      /\ NextConn(v, ps).pending = n /\ NextConn(v, ps).delayed = d
  BY <1>1, <1>2 DEF ConnType
<1> QED BY <1>3 DEF n, d

LEMMA NextTurned ==
  ASSUME mode \in ModeType, NEW s, Fine(mode, s), NEW c \in mode.conns \ s.lost,
         s.conn[c].pending >= 1, NEW kept \in BOOLEAN,
         NEW ps, ps = (IF kept THEN "start" ELSE "dead"),
         NEW r \in response_complete(s, c, kept)
  PROVE  \E d : /\ Turned(s, c, d, NextConn(s.conn[c], ps),
                          NextEvent(s.conn[c], s.events[s.conn[c].fd], c),
                          s.sock[s.conn[c].fd])
                /\ IF kept THEN r = d ELSE r \in reconnect_socket(d, c)
<1> DEFINE k == s.conn[c].fd
           o == s.sock[k]
           e == s.events[k]
           v == s.conn[c]
           n == v.pending - 1
           a == [s EXCEPT !.conn[c].pending = Less(@)]
           x == [v EXCEPT !.pending = n]
           b == IF a.conn[c].pending = 0 THEN WriteNext(a, c) ELSE a
           d == [b EXCEPT !.conn[c].ps = ps]
           y == [x EXCEPT !.delayed = mode.delay]
           z == IF v.pending = 1 THEN y ELSE x
           f == NextEvent(v, e, c)
           u == NextConn(v, ps)
<1>1. /\ s \in StateType /\ c \in Conns /\ v \in ConnType /\ (v.delayed => mode.delay)
      /\ mode.delay \in BOOLEAN
  BY FineTypes DEF ModeType
<1>2. n \in Int /\ Less(v.pending) = n /\ (n = 0 <=> v.pending = 1)
  BY <1>1 DEF ConnType, Less
<1>3. IF kept THEN r = d ELSE r \in reconnect_socket(d, c)
  BY DEF response_complete
<1>4. a = [s EXCEPT !.conn[c] = x]
  BY <1>1, <1>2 DEF StateType
<1>5. /\ x \in ConnType /\ x.fd = v.fd /\ x.delayed = v.delayed /\ x.pending = n
  <2> HIDE DEF n, v
  <2> QED BY <1>1, <1>2 DEF ConnType
<1>6. y \in ConnType /\ y.fd = v.fd /\ y.delayed = mode.delay
  <2> HIDE DEF x, v
  <2> QED BY <1>1, <1>5 DEF ConnType
<1>7. u = [z EXCEPT !.ps = ps]
  <2>1. CASE v.pending = 1
    BY <1>1, <2>1 DEF NextConn, ConnType
  <2>2. CASE v.pending # 1
    BY <1>1, <2>2 DEF NextConn, ConnType
  <2> QED BY <2>1, <2>2
<1>8. v = s.conn[c] /\ k = v.fd /\ o = s.sock[k] /\ e = s.events[k]
  OBVIOUS
<1>9. u \in ConnType /\ u.fd = v.fd /\ (u.delayed => mode.delay)
  <2>1. ps \in {"start", "dead"}
    OBVIOUS
  <2> HIDE DEF v, u
  <2>2. /\ u \in ConnType /\ u.fd = v.fd
        /\ u.delayed = IF v.pending = 1 THEN mode.delay ELSE v.delayed
    BY <1>1, <2>1, NextConnIs DEF u
  <2> QED BY <1>1, <2>2
<1> HIDE DEF k, o, e, v, n, a, x, b, d, y, u, f
<1>10. Turned(s, c, a, x, e, o)
  BY <1>1, <1>4, <1>5, <1>8, TurnConn
<1>11. /\ Fine(mode, a) /\ c \in mode.conns \ a.lost /\ a.conn[c] = x /\ a.conn[c].fd = k
       /\ a.events[k] = e /\ a.sock[k] = o /\ a \in StateType
  <2>1. /\ Fine(mode, a) /\ c \in mode.conns \ a.lost /\ a.conn[c] = x /\ a.conn[c].fd = k
        /\ a.events[k] = e /\ a.sock[k] = o
    BY <1>5, <1>8, <1>10 DEF Turned
  <2> QED BY <2>1, FineTypes
<1>12. Turned(s, c, b, z, f, o)
  <2>1. CASE v.pending = 1
    <3> DEFINE p == [a EXCEPT !.conn[c].delayed = mode.delay]
    <3>1. b = aeCreateFileEvent(p, k, {W}, "socket_writeable", c)
      BY <1>2, <1>5, <1>11, <2>1 DEF b, WriteNext
    <3>2. p = [a EXCEPT !.conn[c] = y]
      BY <1>11 DEF StateType, y
    <3> HIDE DEF p
    <3>3. Turned(a, c, p, y, e, o)
      <4>1. y.fd = a.conn[c].fd
        BY <1>6, <1>8, <1>11
      <4>2. Turned(a, c, p, y, a.events[a.conn[c].fd], a.sock[a.conn[c].fd])
        BY <1>6, <1>11, <3>2, <4>1, TurnConn
      <4> QED BY <1>11, <4>2
    <3>4. /\ Fine(mode, p) /\ c \in mode.conns \ p.lost /\ p.conn[c] = y /\ p.conn[c].fd = k
          /\ p.events[k] = e /\ p.sock[k] = o
      BY <1>6, <1>8, <1>11, <3>3 DEF Turned
    <3>5. Turned(p, c, b, y, Wired(e, {W}, "socket_writeable", c), o)
      <4>1. {W} \in SUBSET {R, W} /\ R \notin {W} /\ "socket_writeable" \in WriteProcs
        BY DEF R, W, WriteProcs
      <4>2. b = aeCreateFileEvent(p, p.conn[c].fd, {W}, "socket_writeable", c)
        BY <3>1, <3>4
      <4>3. Turned(p, c, b, p.conn[c], Wired(p.events[p.conn[c].fd], {W}, "socket_writeable", c),
                   p.sock[p.conn[c].fd])
        BY <3>4, <4>1, <4>2, TurnCreate
      <4> QED BY <3>4, <4>3
    <3>6. Turned(s, c, b, y, Wired(e, {W}, "socket_writeable", c), o)
      BY <1>10, <3>3, <3>5, TurnedTwice
    <3>7. z = y /\ f = Wired(e, {W}, "socket_writeable", c)
      BY <2>1 DEF f, NextEvent
    <3> QED BY <3>6, <3>7
  <2>2. CASE v.pending # 1
    <3>1. b = a /\ z = x /\ f = e
      BY <1>2, <1>5, <1>11, <2>2 DEF b, f, NextEvent
    <3> QED BY <1>10, <3>1
  <2> QED BY <2>1, <2>2
<1>13. z.fd = v.fd
  BY <1>5, <1>6
<1> HIDE DEF z
<1>14. /\ Fine(mode, b) /\ c \in mode.conns \ b.lost /\ b.conn[c] = z /\ b.conn[c].fd = k
       /\ b.events[k] = f /\ b.sock[k] = o /\ b \in StateType
  <2>1. /\ Fine(mode, b) /\ c \in mode.conns \ b.lost /\ b.conn[c] = z /\ b.conn[c].fd = k
        /\ b.events[k] = f /\ b.sock[k] = o
    BY <1>8, <1>12, <1>13 DEF Turned
  <2> QED BY <2>1, FineTypes
<1>15. Turned(b, c, d, u, f, o)
  <2>1. d = [b EXCEPT !.conn[c] = u]
    BY <1>7, <1>14 DEF StateType, d
  <2>2. u.fd = b.conn[c].fd
    BY <1>8, <1>9, <1>14
  <2>3. Turned(b, c, d, u, b.events[b.conn[c].fd], b.sock[b.conn[c].fd])
    BY <1>9, <1>14, <2>1, <2>2, TurnConn
  <2> QED BY <1>14, <2>3
<1>16. Turned(s, c, d, u, f, o)
  BY <1>12, <1>15, TurnedTwice
<1>17. Turned(s, c, d, NextConn(s.conn[c], ps), NextEvent(s.conn[c], s.events[s.conn[c].fd], c),
              s.sock[s.conn[c].fd])
  BY <1>16 DEF u, f, v, e, o, k
<1> QED BY <1>3, <1>17

(* What it leaves when the connection is to be closed.                     *)
LEMMA PacedClosed ==
  ASSUME mode \in ModeType, NEW s, NEW c \in mode.conns, NEW q, Closable(q, c), c \notin q.lost,
         Elsewhere(s, c, q), q.conn[c].pending >= 1,
         NEW r \in response_complete(q, c, FALSE)
  PROVE  Done(s, c, r) /\ Closable(r, c) /\ r.conn[c].ps = "dead"
<1> DEFINE v == q.conn[c]
           u == NextConn(v, "dead")
           e == q.events[q.conn[c].fd]
           o == q.sock[q.conn[c].fd]
<1>1. Fine(mode, q) /\ Tidy(q) /\ Calm(v) /\ ~Waits(q.timers, c) /\ c \in mode.conns \ q.lost
  BY DEF Closable
<1>2. PICK d : /\ Turned(q, c, d, u, NextEvent(v, e, c), o)
               /\ r \in reconnect_socket(d, c)
  <2>1. FALSE \in BOOLEAN /\ "dead" = IF FALSE THEN "start" ELSE "dead"
    OBVIOUS
  <2> QED BY <1>1, <2>1, NextTurned
<1>3. v \in ConnType /\ v.pending \in Int
  <2>1. v \in ConnType
    BY <1>1, FineTypes
  <2> QED BY <2>1 DEF ConnType
<1>4. /\ u.fd = v.fd /\ u.ps = "dead" /\ u.pending = v.pending - 1
      /\ u.delayed = IF v.pending = 1 THEN mode.delay ELSE v.delayed
  BY <1>3, NextConnIs
<1>5. Elsewhere(q, c, d) /\ Tidy(d)
  BY <1>1, <1>2, TurnedElsewhere
<1> HIDE DEF u, e, o
<1>6. /\ Fine(mode, d) /\ d.lost = q.lost /\ d.timers = q.timers /\ d.conn[c] = u
  BY <1>2 DEF Turned
<1>7. Calm(u)
  BY <1>1, <1>3, <1>4 DEF Calm
<1>8. u.fd \in Fds
  BY <1>4 DEF Closable
<1>9. Closable(d, c)
  BY <1>1, <1>5, <1>6, <1>7, <1>8 DEF Closable
<1>10. Elsewhere(s, c, d)
  BY <1>5, ElsewhereBoth
<1>11. Done(s, c, r) /\ Closable(r, c) /\ r.conn[c].ps = d.conn[c].ps
  BY <1>2, <1>9, <1>10, Reconnected
<1> QED BY <1>4, <1>6, <1>11
-----------------------------------------------------------------------------
(* Behind the response that the end of the connection ends nothing counts. *)
LEMMA LinkedSkipped ==
  ASSUME NEW m, NEW v \in ConnType, NEW mask,
         NEW o \in SockType, NEW rx \in Seq(Bytes), Linked(m, v, mask, o, rx),
         v.ps = "eof", rx # <<>>
  PROVE  Linked(m, v, mask, o, Tail(rx))
<1>1. /\ Tail(rx) \in Seq(Bytes) /\ Framing(m, o, Tail(rx))
      /\ \A S : /\ Tally(rx, S) = Tally(Tail(rx), S) + (IF rx[1] \in S THEN 1 ELSE 0)
                /\ Tally(Tail(rx), S) \in Nat
  BY TailTakes DEF Linked
<1>2. /\ Due(v, o, Tail(rx)) \in Int /\ Due(v, o, rx) \in Int
      /\ Due(v, o, Tail(rx)) <= Due(v, o, rx)
  <2> DEFINE a == Tally(Tail(rx), Marks)
             b == Tally(rx, Marks)
  <2>1. Tally(o.todo, Marks) \in Nat /\ o.owe \in Int /\ a \in Nat
    BY <1>1, TallyType DEF SockType
  <2>2. b = a + 1 \/ b = a
    BY <1>1
  <2> HIDE DEF a, b
  <2>3. Due(v, o, rx) = o.owe + b + Tally(o.todo, Marks) + 1
    BY DEF Due, b
  <2>4. Due(v, o, Tail(rx)) = o.owe + a + Tally(o.todo, Marks) + 1
    BY DEF Due, a
  <2> QED BY <2>1, <2>2, <2>3, <2>4
<1>3. Final(v, o, rx) /\ Final(v, o, Tail(rx))
  BY DEF Final
<1>4. o.ends \/ o.fin
  BY <1>3 DEF Linked, Ending
<1>5. Owing(v, mask, o, Tail(rx))
  <2> DEFINE n == IF W \in mask THEN 0 ELSE v.pending
  <2>1. n \in Int /\ Due(v, o, rx) <= n
    BY DEF Linked, Owing, ConnType
  <2>2. Due(v, o, Tail(rx)) <= n
    BY <1>2, <2>1
  <2> QED BY <1>4, <2>2 DEF Linked, Owing
<1>6. Ending(m, v, o, Tail(rx)) /\ Written(m, v, mask, o)
  BY <1>3 DEF Linked, Ending
<1> QED BY <1>1, <1>5, <1>6 DEF Linked

(* In a read of c, begun in s, with rest to be parsed and then left to be  *)
(* read, bad when the parser has refused something.                        *)
Reads(q, c, left) ==
  /\ c \notin q.lost /\ q.events[q.conn[c].fd].rproc = "socket_readable"
  /\ q.sock[q.conn[c].fd].st = "up" /\ q.sock[q.conn[c].fd].rx = left
Midway(s, c, q, rest, left, bad) ==
  /\ Closable(q, c) /\ Elsewhere(s, c, q)
  /\ \/ q.conn[c].ps = "dead" /\ Paced(q, c, Read(q, c))
     \/ Reads(q, c, left) /\ (bad \/ Paced(q, c, rest))

(* What a connection in use is that waits for no delay.                    *)
Serving(v, e, o, rest) ==
  /\ Calm(v) /\ Linked(mode, v, e.mask, o, rest) /\ (v.delayed => W \in e.mask)
  /\ e.rproc = "socket_readable" /\ e.wproc = "socket_writeable"

(* The record of c and the events of its socket change in a read.          *)
LEMMA TurnedMidway ==
  ASSUME mode \in ModeType, NEW s, NEW c \in mode.conns, NEW q, NEW rest, NEW left,
         Closable(q, c), Elsewhere(s, c, q), Reads(q, c, left),
         NEW r, NEW v, NEW e, Turned(q, c, r, v, e, q.sock[q.conn[c].fd]),
         Serving(v, e, q.sock[q.conn[c].fd], rest)
  PROVE  Midway(s, c, r, rest, left, FALSE)
<1> DEFINE o == q.sock[q.conn[c].fd]
<1>1. /\ Fine(mode, q) /\ Tidy(q) /\ ~Waits(q.timers, c) /\ q.conn[c].fd \in Fds
      /\ c \in mode.conns \ q.lost /\ o.st = "up"
  BY DEF Closable, Reads
<1>2. Elsewhere(q, c, r) /\ Tidy(r)
  BY <1>1, TurnedElsewhere
<1>3. Elsewhere(s, c, r)
  BY <1>2, ElsewhereBoth
<1>4. /\ Fine(mode, r) /\ r.lost = q.lost /\ r.timers = q.timers /\ r.conn[c] = v
      /\ v.fd = q.conn[c].fd /\ r.events[v.fd] = e /\ r.sock[v.fd] = o
  BY DEF Turned
<1>5. Closable(r, c)
  BY <1>1, <1>2, <1>4 DEF Closable, Serving
<1>6. Reads(r, c, left)
  BY <1>4 DEF Reads, Serving
<1>7. Tuned(mode, v, e, o, rest, Waits(q.timers, c))
  <2>1. Using(mode, v, e, o, rest, Waits(q.timers, c))
    BY <1>1 DEF Using, Serving
  <2> QED BY <1>1, <2>1 DEF Tuned, Serving
<1>8. Paced(r, c, rest)
  BY <1>1, <1>7, TurnedPaced DEF Serving
<1> QED BY <1>3, <1>5, <1>6, <1>8 DEF Midway

(* A connection that is read, and what it waits for.                       *)
LEMMA ReadsIs ==
  ASSUME mode \in ModeType, NEW c \in mode.conns, NEW q, Closable(q, c), NEW left,
         Reads(q, c, left), NEW rest, Paced(q, c, rest)
  PROVE  /\ q.conn[c] \in ConnType /\ q.events[q.conn[c].fd] \in EventType
         /\ q.sock[q.conn[c].fd] \in SockType
         /\ Serving(q.conn[c], q.events[q.conn[c].fd], q.sock[q.conn[c].fd], rest)
<1> DEFINE v == q.conn[c]
           e == q.events[v.fd]
           o == q.sock[v.fd]
<1>1. /\ Fine(mode, q) /\ ~Waits(q.timers, c) /\ v.fd \in Fds /\ c \notin q.lost
      /\ o.st = "up" /\ e.rproc = "socket_readable"
  BY DEF Closable, Reads
<1>2. /\ v \in ConnType /\ o \in SockType /\ q \in StateType
  BY <1>1, FineTypes
<1>3. e \in EventType
  BY <1>1, <1>2 DEF StateType
<1>4. Calm(v) /\ Using(mode, v, e, o, rest, Waits(q.timers, c))
  BY <1>1, PacedIs
<1>5. /\ Linked(mode, v, e.mask, o, rest) /\ e.wproc = "socket_writeable"
      /\ v.delayed => W \in e.mask
  BY <1>1, <1>4 DEF Using
<1>6. Serving(v, e, o, rest)
  BY <1>1, <1>4, <1>5 DEF Serving
<1> QED BY <1>2, <1>3, <1>6

(* What the parser makes of one unit.                                      *)
Outcome(x) == x = [s |-> x.s, bad |-> x.bad]

LEMMA PacedParse ==
  ASSUME mode \in ModeType, NEW s, NEW c \in mode.conns, NEW left, NEW rest \in Seq(Bytes),
         rest # <<>>, NEW x, Outcome(x),
         Midway(s, c, x.s, rest, left, x.bad),
         NEW y \in Parse(x, c, rest[1])
  PROVE  Midway(s, c, y.s, Tail(rest), left, y.bad) /\ Outcome(y)
<1> DEFINE q == x.s
           v == q.conn[c]
           e == q.events[v.fd]
           o == q.sock[v.fd]
           u == rest[1]
           Good(S) == {[s |-> z, bad |-> FALSE] : z \in S}
           Right(z) == Midway(s, c, z.s, Tail(rest), left, z.bad) /\ Outcome(z)
<1>1. /\ Closable(q, c) /\ Elsewhere(s, c, q)
      /\ \/ v.ps = "dead" /\ Paced(q, c, Read(q, c))
         \/ Reads(q, c, left) /\ (x.bad \/ Paced(q, c, rest))
  BY DEF Midway
<1>2. \/ y = x /\ (x.bad \/ v.ps = "eof")
      \/ y = [s |-> q, bad |-> TRUE]
      \/ /\ ~x.bad
         /\ \/ v.ps = "start" /\ u = "b" /\ y \in Good({[q EXCEPT !.conn[c].ps = "mid"]})
            \/ v.ps = "mid" /\ u = "k" /\ y \in Good(response_complete(q, c, TRUE))
            \/ v.ps = "mid" /\ u = "c" /\ y \in Good(response_complete(q, c, FALSE))
            \/ v.ps = "mid" /\ u = "z" /\ y \in Good({[q EXCEPT !.conn[c].ps = "eof"]})
  BY DEF Parse, Outcome
<1>3. CASE y = [s |-> q, bad |-> TRUE]
  <2>1. y.s = q /\ y.bad = TRUE
    BY <1>3
  <2>2. Midway(s, c, q, Tail(rest), left, TRUE)
    BY <1>1 DEF Midway
  <2> QED BY <1>3, <2>1, <2>2 DEF Outcome
<1>4. ASSUME ~x.bad, v.ps \in {"start", "mid", "eof"}
      PROVE  /\ Reads(q, c, left) /\ Paced(q, c, rest) /\ v \in ConnType /\ e \in EventType
             /\ o \in SockType /\ Serving(v, e, o, rest)
             /\ Fine(mode, q) /\ Tidy(q) /\ c \in mode.conns \ q.lost /\ c \in Conns
             /\ q \in StateType /\ (v.delayed => mode.delay)
  <2>1. Reads(q, c, left) /\ Paced(q, c, rest)
    BY <1>1, <1>4
  <2>2. Fine(mode, q) /\ Tidy(q) /\ c \in mode.conns \ q.lost
    BY <1>1, <2>1 DEF Closable, Reads
  <2>3. q \in StateType /\ (v.delayed => mode.delay) /\ c \in Conns
    BY <2>2, FineTypes
  <2>4. v \in ConnType /\ e \in EventType /\ o \in SockType /\ Serving(v, e, o, rest)
    BY <1>1, <2>1, ReadsIs
  <2> QED BY <2>1, <2>2, <2>3, <2>4
<1>5. CASE y = x /\ (x.bad \/ v.ps = "eof")
  <2>1. CASE x.bad
    <3>1. Midway(s, c, x.s, Tail(rest), left, x.bad)
      BY <1>1, <2>1 DEF Midway
    <3> QED BY <1>5, <3>1
  <2>2. CASE ~x.bad
    <3>1. /\ Reads(q, c, left) /\ Serving(v, e, o, rest) /\ v \in ConnType /\ o \in SockType
          /\ Fine(mode, q) /\ c \notin q.lost /\ v.ps = "eof"
      BY <1>4, <1>5, <2>2
    <3>2. Linked(mode, v, e.mask, o, Tail(rest))
      BY <3>1, LinkedSkipped DEF Serving
    <3>3. Serving(v, e, o, Tail(rest))
      BY <3>1, <3>2 DEF Serving
    <3>4. Turned(q, c, q, v, e, o)
      BY <3>1, TurnedNot
    <3>5. Midway(s, c, q, Tail(rest), left, FALSE)
      BY <1>1, <3>1, <3>3, <3>4, TurnedMidway
    <3>6. Midway(s, c, q, Tail(rest), left, x.bad)
      BY <1>1, <3>1, <3>5 DEF Midway
    <3> QED BY <1>5, <3>6
  <2> QED BY <2>1, <2>2
<1>6. ASSUME ~x.bad, NEW ps \in {"mid", "eof"}, v.ps \in {"start", "mid"},
             u = (IF ps = "mid" THEN "b" ELSE "z"),
             y \in Good({[q EXCEPT !.conn[c].ps = ps]})
      PROVE  Right(y)
  <2> DEFINE w == [v EXCEPT !.ps = ps]
             r == [q EXCEPT !.conn[c].ps = ps]
  <2>1. y.s = r /\ y.bad = FALSE /\ Outcome(y)
    BY <1>6 DEF Outcome
  <2>2. /\ Reads(q, c, left) /\ Serving(v, e, o, rest) /\ v \in ConnType /\ o \in SockType
        /\ Fine(mode, q) /\ c \in mode.conns \ q.lost /\ q \in StateType
        /\ (v.delayed => mode.delay) /\ c \in Conns
    BY <1>4, <1>6
  <2>3. /\ w \in ConnType /\ w.fd = v.fd /\ w.delayed = v.delayed /\ w.ps = ps
        /\ w.written = v.written /\ w.pending = v.pending
    <3> HIDE DEF v
    <3> QED BY <2>2 DEF ConnType
  <2>4. r = [q EXCEPT !.conn[c] = w]
    BY <2>2 DEF StateType
  <2> HIDE DEF w, r
  <2>5. Turned(q, c, r, w, e, o)
    BY <2>2, <2>3, <2>4, TurnConn
  <2>6. Linked(mode, w, e.mask, o, Tail(rest))
    <3> HIDE DEF v, e, o, q
    <3>1. Linked(mode, v, e.mask, o, rest) /\ v.ps # "eof"
      BY <1>6, <2>2 DEF Serving
    <3>2. \/ rest[1] = "b" /\ w.ps = "mid"
          \/ rest[1] = "z" /\ w.ps = "eof"
      BY <1>6, <2>3
    <3> QED BY <2>2, <2>3, <3>1, <3>2, LinkedParsed
  <2>7. Serving(w, e, o, Tail(rest))
    BY <2>2, <2>3, <2>6 DEF Serving, Calm
  <2>8. Midway(s, c, r, Tail(rest), left, FALSE)
    BY <1>1, <2>2, <2>5, <2>7, TurnedMidway
  <2> QED BY <2>1, <2>8
<1>7. ASSUME ~x.bad, v.ps = "mid", u \in Marks
      PROVE  v.pending >= 1
  <2>1. v \in ConnType /\ o \in SockType /\ Serving(v, e, o, rest)
    BY <1>4, <1>7
  <2> HIDE DEF v, e, o, q
  <2>2. Linked(mode, v, e.mask, o, rest) /\ (v.delayed => v.pending = 0)
    BY <2>1 DEF Serving, Calm
  <2> QED BY <1>7, <2>1, <2>2, DueWaits
<1>8. ASSUME NEW S, y \in Good(S)
       PROVE  y.s \in S /\ y.bad = FALSE /\ Outcome(y)
  BY <1>8 DEF Outcome
<1>9. ASSUME ~x.bad, v.ps = "mid", u = "c", y \in Good(response_complete(q, c, FALSE))
      PROVE  Right(y)
  <2>1. y.s \in response_complete(q, c, FALSE) /\ y.bad = FALSE /\ Outcome(y)
    BY <1>9, <1>8
  <2>2. v.pending >= 1 /\ c \notin q.lost
    BY <1>4, <1>7, <1>9 DEF Marks
  <2>3. Done(s, c, y.s) /\ Closable(y.s, c) /\ y.s.conn[c].ps = "dead"
    BY <1>1, <2>1, <2>2, PacedClosed
  <2>4. Midway(s, c, y.s, Tail(rest), left, y.bad)
    BY <2>3 DEF Done, Midway
  <2> QED BY <2>1, <2>4
<1>10. ASSUME ~x.bad, v.ps = "mid", u = "k", y \in Good(response_complete(q, c, TRUE))
      PROVE  Right(y)
  <2>1. y.s \in response_complete(q, c, TRUE) /\ y.bad = FALSE /\ Outcome(y)
    BY <1>10, <1>8
  <2>2. v.pending >= 1
    BY <1>7, <1>10 DEF Marks
  <2>3. /\ Reads(q, c, left) /\ Serving(v, e, o, rest) /\ v \in ConnType /\ o \in SockType
        /\ Fine(mode, q) /\ c \in mode.conns \ q.lost /\ e \in EventType
    BY <1>4, <1>10
  <2> DEFINE w == NextConn(v, "start")
             f == NextEvent(v, e, c)
  <2>4. Turned(q, c, y.s, w, f, o)
    <3>1. TRUE \in BOOLEAN /\ "start" = IF TRUE THEN "start" ELSE "dead"
      OBVIOUS
    <3>2. \E d : Turned(q, c, d, w, f, o) /\ y.s = d
      BY <2>1, <2>2, <2>3, <3>1, NextTurned
    <3> QED BY <3>2
  <2>5. /\ w \in ConnType /\ w.fd = v.fd /\ w.written = v.written /\ w.ps = "start"
        /\ w.pending = v.pending - 1
        /\ w.delayed = IF v.pending = 1 THEN mode.delay ELSE v.delayed
    BY <2>3, NextConnIs
  <2>6. v.pending \in Int
    BY <2>3 DEF ConnType
  <2>7. w.pending = 0 <=> v.pending = 1
    BY <2>5, <2>6
  <2>8. /\ f.mask = IF v.pending = 1 THEN e.mask \cup {W} ELSE e.mask
        /\ f.rproc = "socket_readable" /\ f.wproc = "socket_writeable"
    <3>1. R \notin {W}
      BY DEF R, W
    <3>2. e.rproc = "socket_readable" /\ e.wproc = "socket_writeable"
      BY <2>3 DEF Serving
    <3> HIDE DEF e, v
    <3> QED BY <2>3, <3>1, <3>2 DEF NextEvent, Wired
  <2> HIDE DEF w, f, v, e, o, q
  <2>9. Linked(mode, w, f.mask, o, Tail(rest))
    <3> DEFINE mask == f.mask
    <3>1. Linked(mode, v, e.mask, o, rest) /\ (v.delayed => v.pending = 0) /\ v.ps # "eof"
      BY <1>10, <2>3 DEF Serving, Calm
    <3>2. mask = IF w.pending = 0 THEN e.mask \cup {W} ELSE e.mask
      BY <2>7, <2>8
    <3>3. w.delayed = IF w.pending = 0 THEN mode.delay ELSE v.delayed
      BY <2>5, <2>7
    <3>4. rest[1] = "k"
      BY <1>10
    <3> HIDE DEF mask
    <3>5. Linked(mode, w, mask, o, Tail(rest))
      BY <2>3, <2>5, <3>1, <3>2, <3>3, <3>4, LinkedKept
    <3> QED BY <3>5 DEF mask
  <2>10. Calm(w) /\ (w.delayed => W \in f.mask)
    <3>1. v.delayed => v.pending = 0
      BY <2>3 DEF Serving, Calm
    <3>2. ~v.delayed
      BY <2>2, <2>6, <3>1
    <3> QED BY <2>5, <2>7, <2>8, <3>2 DEF Calm
  <2>11. Serving(w, f, o, Tail(rest))
    BY <2>8, <2>9, <2>10 DEF Serving
  <2>12. Midway(s, c, y.s, Tail(rest), left, FALSE)
    BY <1>1, <2>3, <2>4, <2>11, TurnedMidway DEF o, v
  <2> QED BY <2>1, <2>12
<1> HIDE DEF Good
<1>11. Right(y)
  BY <1>2, <1>3, <1>5, <1>6, <1>9, <1>10
<1> QED BY <1>11

(* A connection that has something to read waits for no delay.             *)
LEMMA ReadsNow ==
  ASSUME mode \in ModeType, ~(mode.delay /\ mode.faults), NEW s, Fine(mode, s), Tidy(s),
         NEW c \in mode.conns \ s.lost,
         Paced(s, c, Read(s, c)), s.events[s.conn[c].fd].rproc = "socket_readable",
         s.sock[s.conn[c].fd].st \in {"up", "failed"}, HasData(s.sock[s.conn[c].fd])
  PROVE  Closable(s, c)
<1> DEFINE o == s.sock[s.conn[c].fd]
           e == s.events[s.conn[c].fd]
           v == s.conn[c]
<1>1. /\ s \in StateType /\ v \in ConnType /\ o \in SockType /\ v.fd \in Fds
      /\ v.delayed => mode.delay
  BY FineTypes
<1>2. Read(s, c) = o.rx /\ o.rx \in Seq(Bytes)
  BY <1>1 DEF Read, SockType
<1>3. /\ Calm(v) /\ Using(mode, v, e, o, o.rx, Waits(s.timers, c))
      /\ o.st = "failed" => mode.faults /\ o.rx = <<>> /\ ~o.fin
  <2>1. Paced(s, c, o.rx) /\ c \notin s.lost
    BY <1>2
  <2>2. Calm(v) /\ Tuned(mode, v, e, o, o.rx, Waits(s.timers, c))
    BY <2>1 DEF Paced
  <2>3. e.rproc = "socket_readable"
    OBVIOUS
  <2> HIDE DEF o, e, v
  <2> QED BY <2>2, <2>3 DEF Tuned
<1>4. ~Waits(s.timers, c)
  <2>1. CASE o.st = "failed"
    BY <1>1, <1>3, <2>1 DEF Using
  <2>2. CASE o.st = "up"
    <3> HIDE DEF v, e
    <3>1. Linked(mode, v, e.mask, o, o.rx) /\ (o.rx # <<>> \/ o.fin)
      BY <1>3, <2>2 DEF Using, HasData
    <3>2. v.delayed => v.pending = 0
      BY <1>3 DEF Calm
    <3> HIDE DEF o
    <3>3. v.delayed => W \in e.mask
      BY <1>1, <1>2, <3>1, <3>2, NoDelay
    <3> QED BY <1>3, <3>3 DEF Using
  <2> QED BY <2>1, <2>2
<1> QED BY <1>1, <1>3, <1>4 DEF Closable

(* What is left of a sequence once so much of it is read.                  *)
LEMMA RestIs ==
  ASSUME NEW q \in Seq(Bytes)
  PROVE  /\ SubSeq(q, 1, Len(q)) = q
         /\ \A i \in Nat : SubSeq(q, i + 1, Len(q)) \in Seq(Bytes)
         /\ \A i \in Nat : i < Len(q) =>
              LET z == SubSeq(q, i + 1, Len(q))
              IN  /\ z # <<>> /\ z[1] = q[i + 1]
                  /\ Tail(z) = SubSeq(q, i + 2, Len(q))
<1>1. SubSeq(q, 1, Len(q)) = q
  OBVIOUS
<1>2. ASSUME NEW i \in Nat
      PROVE  SubSeq(q, i + 1, Len(q)) \in Seq(Bytes)
  OBVIOUS
<1>3. ASSUME NEW i \in Nat, i < Len(q)
      PROVE  LET z == SubSeq(q, i + 1, Len(q))
             IN  z # <<>> /\ z[1] = q[i + 1] /\ Tail(z) = SubSeq(q, i + 2, Len(q))
  <2> DEFINE z == SubSeq(q, i + 1, Len(q))
             y == SubSeq(q, i + 2, Len(q))
  <2>1. /\ z \in Seq(Bytes) /\ Len(z) = Len(q) - i
        /\ \A j \in 1 .. Len(q) - i : z[j] = q[i + j]
    BY <1>3
  <2>2. /\ y \in Seq(Bytes) /\ Len(y) = Len(q) - i - 1
        /\ \A j \in 1 .. Len(q) - i - 1 : y[j] = q[i + 1 + j]
    BY <1>3
  <2> HIDE DEF z, y
  <2>3. z # <<>> /\ z[1] = q[i + 1]
    BY <1>3, <2>1
  <2>4. /\ Tail(z) \in Seq(Bytes) /\ Len(Tail(z)) = Len(y)
        /\ \A j \in 1 .. Len(y) : Tail(z)[j] = z[j + 1]
    BY <1>3, <2>1, <2>2, <2>3
  <2>5. \A j \in 1 .. Len(y) : Tail(z)[j] = y[j]
    BY <1>3, <2>1, <2>2, <2>4
  <2> DEFINE w == Tail(z)
  <2>6. w = y
    <3>1. /\ w \in Seq(Bytes) /\ y \in Seq(Bytes) /\ Len(w) = Len(y)
          /\ \A j \in 1 .. Len(w) : w[j] = y[j]
      BY <2>2, <2>4, <2>5
    <3> HIDE DEF w
    <3> QED BY <3>1
  <2> QED BY <2>3, <2>6 DEF z, y
<1> QED BY <1>1, <1>2, <1>3

(* A read: the buffer is filled and goes through the parser.               *)
LEMMA PacedFilled ==
  ASSUME mode \in ModeType, NEW s, NEW c \in mode.conns \ s.lost,
         Closable(s, c), Paced(s, c, Read(s, c)),
         s.events[s.conn[c].fd].rproc = "socket_readable", s.sock[s.conn[c].fd].st = "up",
         s.sock[s.conn[c].fd].rx # <<>>, NEW y \in Filled(s, c)
  PROVE  \E left : Midway(s, c, y.s, left, left, y.bad)
<1> DEFINE k == s.conn[c].fd
           o == s.sock[k]
           rx == o.rx
           n == Min({RecvBuf, Len(rx)})
           q == [s EXCEPT !.sock[k].rx = SubSeq(@, n + 1, Len(@))]
           Z == {[s |-> q, bad |-> FALSE]}
           Rest(i) == SubSeq(rx, i + 1, Len(rx))
           left == Rest(n)
           Right(x, i) == /\ Midway(s, c, x.s, Rest(i), left, x.bad)
                          /\ Outcome(x)
<1>1. /\ s \in StateType /\ k \in Fds /\ o \in SockType /\ Fine(mode, s) /\ Tidy(s)
  BY FineTypes DEF Closable
<1>2. rx \in Seq(Bytes) /\ n \in Nat /\ n <= Len(rx) /\ Len(rx) \in Nat
  <2>1. rx \in Seq(Bytes)
    BY <1>1 DEF SockType
  <2>2. Len(rx) \in Nat /\ RecvBuf \in Nat
    <3>1. RecvBuf \in Nat
      BY LoopAssumption
    <3> HIDE DEF rx
    <3> QED BY <2>1, <3>1
  <2>3. n = IF RecvBuf <= Len(rx) THEN RecvBuf ELSE Len(rx)
    BY <2>2, MinIs
  <2> QED BY <2>1, <2>2, <2>3
<1>3. PICK Parsed : ParsedAs(Z, c, rx, n, Parsed) /\ y \in Parsed[n]
  <2> DEFINE H == CHOOSE h : ParsedAs(Z, c, rx, n, h)
  <2>1. y \in H[n]
    BY DEF Filled, ParsedAs
  <2>2. ParsedAs(Z, c, rx, n, H)
    BY <1>2, ParsedExists
  <2> QED BY <2>1, <2>2
<1> HIDE DEF n
<1>4. /\ Rest(0) = rx /\ \A i \in Nat : Rest(i) \in Seq(Bytes)
      /\ \A i \in Nat : i < Len(rx) => /\ Rest(i) # <<>> /\ Rest(i)[1] = rx[i + 1]
                                       /\ Tail(Rest(i)) = Rest(i + 1)
  <2> HIDE DEF rx
  <2>1. Rest(0) = SubSeq(rx, 1, Len(rx))
    OBVIOUS
  <2>2. \A i \in Nat : Rest(i + 1) = SubSeq(rx, i + 2, Len(rx))
    OBVIOUS
  <2> QED BY <1>2, <2>1, <2>2, RestIs
<1> HIDE DEF Rest
<1>5. Midway(s, c, q, rx, left, FALSE)
  <2> DEFINE v == [o EXCEPT !.rx = left]
             w == s.conn[c]
             e == s.events[k]
  <2>1. left \in Seq(Bytes)
    BY <1>2, <1>4
  <2>2. q = [s EXCEPT !.sock[k] = v]
    BY <1>1 DEF StateType, Rest
  <2> HIDE DEF left
  <2>3. /\ v \in SockType /\ v.st = "up" /\ v.rx = left
        /\ v.todo = o.todo /\ v.owe = o.owe /\ v.ends = o.ends /\ v.fin = o.fin /\ v.got = o.got
    BY <1>1, <2>1 DEF SockType
  <2>4. Turned(s, c, q, w, e, v)
    <3>1. v.st = s.sock[s.conn[c].fd].st /\ v.st \notin {"closed", "connecting"}
      BY <2>3
    <3> HIDE DEF v, q
    <3> QED BY <1>1, <2>2, <2>3, <3>1, TurnSock
  <2>5. Read(s, c) = rx
    BY DEF Read
  <2>6. Reads(s, c, rx)
    BY DEF Reads
  <2>7. Serving(w, e, o, rx)
    BY <2>5, <2>6, ReadsIs
  <2> HIDE DEF v, q
  <2>8. Linked(mode, w, e.mask, v, rx)
    <3>1. Due(w, v, rx) = Due(w, o, rx) /\ (Final(w, v, rx) <=> Final(w, o, rx))
      BY <2>3, DueSame DEF SameParser
    <3>2. Linked(mode, w, e.mask, o, rx)
      BY <2>7 DEF Serving
    <3> HIDE DEF w, e, o, rx
    <3>3. Written(mode, w, e.mask, v) /\ Framing(mode, v, rx)
      BY <2>3, <3>2 DEF Linked, Written, Framing
    <3>4. Owing(w, e.mask, v, rx) /\ Ending(mode, w, v, rx)
      BY <2>3, <3>1, <3>2 DEF Linked, Owing, Ending
    <3> QED BY <3>3, <3>4 DEF Linked
  <2>9. ~Waits(s.timers, c) /\ Calm(w) /\ w.fd \in Fds
    BY DEF Closable
  <2>10. Using(mode, w, e, v, rx, Waits(s.timers, c))
    BY <2>3, <2>7, <2>8, <2>9 DEF Using, Serving
  <2>11. Tuned(mode, w, e, v, rx, Waits(s.timers, c))
    BY <2>3, <2>7, <2>10 DEF Tuned, Serving
  <2>12. Paced(q, c, rx)
    BY <2>4, <2>9, <2>11, TurnedPaced
  <2>13. Elsewhere(s, c, q) /\ Tidy(q)
    BY <1>1, <2>4, TurnedElsewhere
  <2>14. /\ Fine(mode, q) /\ q.lost = s.lost /\ q.timers = s.timers /\ q.conn[c] = w
         /\ q.events[k] = e /\ q.sock[k] = v /\ w.fd = k
    BY <2>4 DEF Turned
  <2>15. Closable(q, c)
    BY <2>9, <2>13, <2>14 DEF Closable
  <2>16. Reads(q, c, left)
    BY <2>3, <2>14 DEF Reads
  <2> QED BY <2>12, <2>13, <2>15, <2>16 DEF Midway
<1> HIDE DEF q
<1>6. Parsed[0] = Z /\ \A i \in 1 .. n : Parsed[i] = ParseAll(c, rx[i], Parsed[i - 1])
  <2>1. rx \in Seq(Bytes) /\ n \in Nat /\ n <= Len(rx) /\ ParsedAs(Z, c, rx, n, Parsed)
    BY <1>2, <1>3
  <2>2. Parses(Z, c, rx, n, Parsed)
    <3> HIDE DEF rx, Z
    <3> QED BY <2>1, ParsedIs
  <2> QED BY <2>2 DEF Parses
<1> DEFINE A == {i \in Nat : i <= n => \A x \in Parsed[i] : Right(x, i)}
<1>7. 0 \in A
  <2>1. \A x \in Z : x = [s |-> q, bad |-> FALSE]
    OBVIOUS
  <2>2. \A x \in Parsed[0] : x = [s |-> q, bad |-> FALSE]
    <3> HIDE DEF Z
    <3>1. Parsed[0] = Z
      BY <1>6
    <3> QED BY <2>1, <3>1
  <2> HIDE DEF Z
  <2>3. ASSUME NEW x, x = [s |-> q, bad |-> FALSE]
        PROVE  Right(x, 0)
    <3>1. x.s = q /\ x.bad = FALSE /\ Outcome(x)
      BY <2>3 DEF Outcome
    <3> QED BY <1>4, <1>5, <3>1
  <2> QED BY <2>2, <2>3
<1> HIDE DEF Z
<1>8. ASSUME NEW i \in Nat, i \in A
      PROVE  i + 1 \in A
  <2> SUFFICES ASSUME i + 1 <= n, NEW z \in Parsed[i + 1]
               PROVE  Right(z, i + 1)
    OBVIOUS
  <2>1. \A x \in Parsed[i] : Right(x, i)
    BY <1>2, <1>8
  <2>2. Parsed[i + 1] = ParseAll(c, rx[i + 1], Parsed[i])
    <3>1. i + 1 \in 1 .. n /\ (i + 1) - 1 = i
      BY <1>2
    <3> QED BY <1>6, <3>1
  <2>3. PICK x \in Parsed[i] : z \in Parse(x, c, rx[i + 1])
    BY <2>2 DEF ParseAll
  <2>4. Right(x, i)
    BY <2>1
  <2>5. /\ Rest(i) \in Seq(Bytes) /\ Rest(i) # <<>> /\ rx[i + 1] = Rest(i)[1]
        /\ Tail(Rest(i)) = Rest(i + 1)
    <3> HIDE DEF rx, left
    <3>1. i < Len(rx)
      BY <1>2
    <3> QED BY <1>4, <3>1
  <2>6. z \in Parse(x, c, Rest(i)[1])
    BY <2>3, <2>5
  <2>7. Midway(s, c, z.s, Tail(Rest(i)), left, z.bad) /\ Outcome(z)
    <3> DEFINE rest == Rest(i)
    <3>1. rest \in Seq(Bytes) /\ rest # <<>> /\ z \in Parse(x, c, rest[1])
      BY <2>5, <2>6
    <3>2. Midway(s, c, x.s, rest, left, x.bad) /\ Outcome(x)
      BY <2>4
    <3>3. c \in mode.conns
      OBVIOUS
    <3> HIDE DEF rest, left
    <3>4. Midway(s, c, z.s, Tail(rest), left, z.bad) /\ Outcome(z)
      BY <3>1, <3>2, <3>3, PacedParse
    <3> QED BY <3>4 DEF rest
  <2> QED BY <2>5, <2>7
<1>9. n \in A
  <2> HIDE DEF A
  <2>1. Nat \subseteq A
    BY <1>7, <1>8, Inductive
  <2> QED BY <1>2, <2>1
<1>10. Right(y, n)
  BY <1>2, <1>3, <1>9
<1> QED BY <1>10

LEMMA PacedReadable ==
  ASSUME mode \in ModeType, ~(mode.delay /\ mode.faults), NEW s, Fine(mode, s), Tidy(s),
         NEW c \in mode.conns \ s.lost,
         Paced(s, c, Read(s, c)), s.events[s.conn[c].fd].rproc = "socket_readable",
         s.sock[s.conn[c].fd].st \in {"up", "failed"}, HasData(s.sock[s.conn[c].fd]),
         NEW r \in socket_readable(s, c)
  PROVE  Done(s, c, r)
<1> DEFINE o == s.sock[s.conn[c].fd]
           v == s.conn[c]
<1>1. Closable(s, c)
  BY ReadsNow
<1>2. Elsewhere(s, c, s)
  BY DEF Elsewhere
<1>3. /\ Read(s, c) = o.rx
      /\ o.st = "failed" => mode.faults /\ o.rx = <<>> /\ ~o.fin
  <2>1. Read(s, c) = o.rx
    BY DEF Read
  <2>2. Paced(s, c, o.rx) /\ c \notin s.lost
    BY <2>1
  <2>3. o.st = "failed" => mode.faults /\ o.rx = <<>> /\ ~o.fin
    BY <2>2 DEF Paced, Tuned
  <2> QED BY <2>1, <2>3
<1>4. CASE o.rx # <<>>
  <2>1. r \in UNION {IF x.bad THEN reconnect_socket(x.s, c) ELSE {x.s} : x \in Filled(s, c)}
    BY <1>4 DEF socket_readable
  <2>2. PICK x \in Filled(s, c) : r \in IF x.bad THEN reconnect_socket(x.s, c) ELSE {x.s}
    BY <2>1
  <2>3. PICK left : Midway(s, c, x.s, left, left, x.bad)
    BY <1>1, <1>3, <1>4, PacedFilled
  <2>4. CASE x.bad
    <3>1. r \in reconnect_socket(x.s, c) /\ Closable(x.s, c) /\ Elsewhere(s, c, x.s)
      BY <2>2, <2>3, <2>4 DEF Midway
    <3> QED BY <3>1, Reconnected
  <2>5. CASE ~x.bad
    <3>1. r = x.s
      BY <2>2, <2>5
    <3>2. /\ Closable(r, c) /\ Elsewhere(s, c, r)
          /\ \/ Paced(r, c, Read(r, c))
             \/ Reads(r, c, left) /\ Paced(r, c, left)
      BY <2>3, <2>5, <3>1 DEF Midway
    <3>3. Reads(r, c, left) => Read(r, c) = left
      BY DEF Reads, Read
    <3>4. Paced(r, c, Read(r, c))
      BY <3>2, <3>3
    <3> QED BY <3>2, <3>4 DEF Done, Closable
  <2> QED BY <2>4, <2>5
<1>5. CASE o.rx = <<>> /\ o.fin
  <2>1. r \in UNION {reconnect_socket(q, c) : q \in AtEnd(s, c)}
    BY <1>5 DEF socket_readable
  <2>2. PICK q \in AtEnd(s, c) : r \in reconnect_socket(q, c)
    BY <2>1
  <2>3. Closable(q, c) /\ Elsewhere(s, c, q)
    <3>1. CASE v.ps = "eof"
      <4>1. q \in response_complete(s, c, FALSE)
        BY <2>2, <3>1 DEF AtEnd
      <4>2. Reads(s, c, o.rx)
        BY <1>3, <1>5 DEF Reads
      <4>3. v \in ConnType /\ o \in SockType /\ Serving(v, s.events[v.fd], o, o.rx)
        BY <1>1, <1>3, <4>2, ReadsIs
      <4>4. v.pending >= 1
        <5> DEFINE mask == s.events[v.fd].mask
        <5>1. Linked(mode, v, mask, o, o.rx) /\ (v.delayed => v.pending = 0)
          BY <4>3 DEF Serving, Calm
        <5>2. o.rx \in Seq(Bytes)
          BY <4>3 DEF SockType
        <5> HIDE DEF mask, v, o
        <5> QED BY <3>1, <4>3, <5>1, <5>2, DueWaits
      <4>5. Done(s, c, q) /\ Closable(q, c)
        BY <1>1, <1>2, <4>1, <4>4, PacedClosed
      <4> QED BY <4>5 DEF Done
    <3>2. CASE v.ps # "eof"
      <4>1. q = s
        BY <2>2, <3>2 DEF AtEnd
      <4> QED BY <1>1, <1>2, <4>1
    <3> QED BY <3>1, <3>2
  <2> QED BY <2>2, <2>3, Reconnected
<1>6. CASE o.rx = <<>> /\ ~o.fin
  <2>1. r \in reconnect_socket(s, c)
    BY <1>6 DEF socket_readable
  <2> QED BY <1>1, <1>2, <2>1, Reconnected
<1> QED BY <1>4, <1>5, <1>6

(* The timers: ts is what they were, of which the first i are walked.      *)
Still(ts, i, c) ==
  \E j \in DOMAIN ts : j > i /\ ts[j].proc = "delay_request" /\ ts[j].data = c
Awaits(q, ts, i, c) == Waits(q.timers, c) \/ Still(ts, i, c)

(* Paced, for a delay that may still have to be walked.                    *)
Keeping(q, c, w) ==
  /\ Calm(q.conn[c])
  /\ IF c \in q.lost THEN ~w
     ELSE Tuned(mode, q.conn[c], q.events[q.conn[c].fd], q.sock[q.conn[c].fd],
                q.sock[q.conn[c].fd].rx, w)
Walking(q, ts, i) ==
  /\ Fine(mode, q) /\ Tidy(q)
  /\ \A c \in mode.conns : /\ ~(Waits(q.timers, c) /\ Still(ts, i, c))
                           /\ Keeping(q, c, Awaits(q, ts, i, c))

LEMMA KeepingIs ==
  ASSUME NEW q, NEW c
  PROVE  Paced(q, c, Read(q, c)) <=> Keeping(q, c, Waits(q.timers, c))
BY DEF Paced, Read, Keeping

LEMMA WaitsPut ==
  ASSUME NEW ts \in Seq(TimerType), NEW t \in TimerType, NEW us, us = Append(ts, t)
  PROVE  /\ \A d : Waits(us, d) <=> (t.proc = "delay_request" /\ t.data = d) \/ Waits(ts, d)
         /\ Single(ts) /\ (t.proc = "delay_request" => ~Waits(ts, t.data)) => Single(us)
<1> DEFINE n == Len(ts) + 1
<1>1. /\ DOMAIN us = 1 .. n /\ DOMAIN ts = 1 .. n - 1 /\ n \in Nat \ {0} /\ us[n] = t
      /\ \A i \in DOMAIN ts : us[i] = ts[i] /\ i \in DOMAIN us /\ i # n
      /\ \A i \in DOMAIN us : i # n => i \in DOMAIN ts
  OBVIOUS
<1> HIDE DEF n
<1>2. ASSUME NEW d
      PROVE  Waits(us, d) <=> (t.proc = "delay_request" /\ t.data = d) \/ Waits(ts, d)
  <2>1. n \in DOMAIN us
    BY <1>1
  <2>2. Waits(us, d) => (t.proc = "delay_request" /\ t.data = d) \/ Waits(ts, d)
    BY <1>1 DEF Waits
  <2>3. t.proc = "delay_request" /\ t.data = d => Waits(us, d)
    BY <1>1, <2>1 DEF Waits
  <2>4. Waits(ts, d) => Waits(us, d)
    BY <1>1 DEF Waits
  <2> QED BY <2>2, <2>3, <2>4
<1>3. ASSUME Single(ts), t.proc = "delay_request" => ~Waits(ts, t.data)
      PROVE  Single(us)
  <2> SUFFICES ASSUME NEW i \in DOMAIN us, NEW j \in DOMAIN us,
                      us[i].proc = "delay_request", us[j].proc = "delay_request",
                      us[i].data = us[j].data
               PROVE  i = j
    BY DEF Single
  <2>1. i = n => j = n
    BY <1>1, <1>3 DEF Waits
  <2>2. j = n => i = n
    BY <1>1, <1>3 DEF Waits
  <2>3. i # n /\ j # n => i = j
    BY <1>1, <1>3 DEF Single
  <2> QED BY <2>1, <2>2, <2>3
<1> QED BY <1>2, <1>3

LEMMA StillNext ==
  ASSUME NEW ts \in Seq(TimerType), Single(ts), NEW i \in Nat, i + 1 <= Len(ts),
         NEW t, t = ts[i + 1]
  PROVE  /\ \A d : Still(ts, i, d) <=> (t.proc = "delay_request" /\ t.data = d) \/ Still(ts, i + 1, d)
         /\ t.proc = "delay_request" => ~Still(ts, i + 1, t.data)
<1>1. i + 1 \in DOMAIN ts /\ \A j \in DOMAIN ts : j \in Int /\ (j > i <=> j = i + 1 \/ j > i + 1)
  OBVIOUS
<1>2. ASSUME NEW d
      PROVE  Still(ts, i, d) <=> (t.proc = "delay_request" /\ t.data = d) \/ Still(ts, i + 1, d)
  BY <1>1 DEF Still
<1>3. ASSUME t.proc = "delay_request", Still(ts, i + 1, t.data)
      PROVE  FALSE
  <2>1. PICK j \in DOMAIN ts : j > i + 1 /\ ts[j].proc = "delay_request" /\ ts[j].data = t.data
    BY <1>3 DEF Still
  <2>2. j = i + 1
    BY <1>1, <1>3, <2>1 DEF Single
  <2> QED BY <1>1, <2>1, <2>2
<1> QED BY <1>2, <1>3

LEMMA StillEnds ==
  ASSUME NEW ts \in Seq(TimerType)
  PROVE  \A d : (Still(ts, 0, d) <=> Waits(ts, d)) /\ ~Still(ts, Len(ts), d)
<1>1. \A j \in DOMAIN ts : j > 0 /\ ~(j > Len(ts))
  OBVIOUS
<1> QED BY <1>1 DEF Still, Waits

LEMMA PutIs ==
  ASSUME NEW q \in StateType, NEW t
  PROVE  LET r == Put(q, t)
         IN  /\ r.timers = Append(q.timers, t) /\ r.events = q.events /\ r.sock = q.sock
             /\ r.lost = q.lost /\ r.conn = q.conn
<1> DEFINE ts == Append(q.timers, t)
           r == Put(q, t)
<1>1. r = [q EXCEPT !.timers = ts]
  BY DEF Put
<1> HIDE DEF ts, r
<1>2. /\ r.timers = ts /\ r.events = q.events /\ r.sock = q.sock
      /\ r.lost = q.lost /\ r.conn = q.conn
  BY <1>1 DEF StateType
<1> QED BY <1>2 DEF ts, r

(* A timer is put behind those that are kept.                              *)
LEMMA PutTidy ==
  ASSUME mode \in ModeType, NEW q, Fine(mode, q), Tidy(q), NEW t \in TimerType,
         t.proc = "delay_request" => /\ mode.delay /\ t.data \in mode.conns
                                     /\ ~Waits(q.timers, t.data),
         NEW r, r = Put(q, t)
  PROVE  /\ Fine(mode, r) /\ Tidy(r)
         /\ \A d : Waits(r.timers, d) <=> (t.proc = "delay_request" /\ t.data = d) \/ Waits(q.timers, d)
         /\ \A c, w : Keeping(q, c, w) => Keeping(r, c, w)
<1>1. q \in StateType /\ q.timers \in Seq(TimerType)
  BY DEF Fine, Sane, StateType
<1>2. /\ r.timers = Append(q.timers, t) /\ r.events = q.events /\ r.sock = q.sock
      /\ r.lost = q.lost /\ r.conn = q.conn
  BY <1>1, PutIs
<1>3. Fine(mode, r)
  BY PutFine
<1>4. /\ \A d : Waits(r.timers, d) <=> (t.proc = "delay_request" /\ t.data = d) \/ Waits(q.timers, d)
      /\ Single(q.timers) /\ (t.proc = "delay_request" => ~Waits(q.timers, t.data)) => Single(r.timers)
  BY <1>1, <1>2, WaitsPut
<1>5. Tidy(r)
  BY <1>2, <1>4 DEF Tidy, Blank
<1>6. \A c, w : Keeping(q, c, w) => Keeping(r, c, w)
  BY <1>2 DEF Keeping
<1> QED BY <1>3, <1>4, <1>5, <1>6

(* delay_request: the delay of c is over, the request is written.          *)
LEMMA PacedAgain ==
  ASSUME mode \in ModeType, NEW s, Fine(mode, s), Tidy(s), NEW c \in mode.conns,
         ~Waits(s.timers, c), Keeping(s, c, TRUE),
         NEW r, r = delay_request(s, c)
  PROVE  /\ Fine(mode, r) /\ Tidy(r) /\ Elsewhere(s, c, r) /\ r.timers = s.timers
         /\ Keeping(r, c, FALSE)
<1> DEFINE k == s.conn[c].fd
           o == s.sock[k]
           e == s.events[k]
           v == s.conn[c]
           w == [v EXCEPT !.delayed = FALSE]
           a == [s EXCEPT !.conn[c].delayed = FALSE]
           f == Wired(e, {W}, "socket_writeable", c)
<1>1. c \in mode.conns \ s.lost
  BY DEF Keeping
<1>2. /\ s \in StateType /\ c \in Conns /\ v \in ConnType /\ o \in SockType /\ k \in Fds
      /\ o.st # "closed"
  BY <1>1, FineTypes
<1>3. e \in EventType /\ R \in e.mask /\ e.rproc \in ReadProcs
  <2>1. e \in EventType /\ R \in e.mask
    BY <1>2, FineTypes DEF StateType, Fine, Sane, Owned
  <2>2. e.mask # {} /\ k \in Fds
    BY <1>2, <2>1
  <2>3. e.rproc \in ReadProcs
    <3> HIDE DEF k
    <3> QED BY <2>1, <2>2, OwnerOf
  <2> QED BY <2>1, <2>3
<1>4. Calm(v) /\ Tuned(mode, v, e, o, o.rx, TRUE)
  BY <1>1 DEF Keeping
<1>5. /\ e.rproc = "socket_readable" /\ Using(mode, v, e, o, o.rx, TRUE)
      /\ o.st = "failed" => mode.faults /\ o.rx = <<>> /\ ~o.fin
  <2> HIDE DEF e, o, v
  <2>1. e.rproc # "socket_connected"
    BY <1>4 DEF Tuned, Opening
  <2> QED BY <1>3, <1>4, <2>1 DEF Tuned, ReadProcs
<1>6. v.delayed /\ W \notin e.mask /\ v.pending = 0
  BY <1>4, <1>5 DEF Using, Calm
<1>7. /\ w \in ConnType /\ w.fd = k /\ w.delayed = FALSE /\ w.pending = v.pending
      /\ w.written = v.written /\ w.ps = v.ps
  <2>1. v.fd = k
    OBVIOUS
  <2> HIDE DEF v, k
  <2> QED BY <1>2, <2>1 DEF ConnType
<1>8. a = [s EXCEPT !.conn[c] = w]
  BY <1>2 DEF StateType
<1>9. r = aeCreateFileEvent(a, k, {W}, "socket_writeable", c)
  BY DEF delay_request
<1>10. /\ f.mask = e.mask \cup {W} /\ f.rproc = e.rproc /\ f.wproc = "socket_writeable"
  BY DEF Wired, R, W
<1> HIDE DEF w, a
<1>11. Turned(s, c, a, w, e, o)
  BY <1>1, <1>7, <1>8, TurnConn
<1> HIDE DEF f
<1>12. Turned(s, c, r, w, f, o)
  <2>1. /\ Fine(mode, a) /\ c \in mode.conns \ a.lost /\ a.conn[c] = w /\ a.conn[c].fd = k
        /\ a.events[k] = e /\ a.sock[k] = o
    BY <1>1, <1>7, <1>11 DEF Turned
  <2>2. {W} \in SUBSET {R, W} /\ R \notin {W} /\ "socket_writeable" \in WriteProcs
    BY DEF WriteProcs, R, W
  <2>3. r = aeCreateFileEvent(a, a.conn[c].fd, {W}, "socket_writeable", c)
    BY <1>9, <2>1
  <2>4. Turned(a, c, r, a.conn[c], Wired(a.events[a.conn[c].fd], {W}, "socket_writeable", c),
               a.sock[a.conn[c].fd])
    BY <2>1, <2>2, <2>3, TurnCreate
  <2>5. Turned(a, c, r, w, f, o)
    BY <2>1, <2>4 DEF f
  <2> QED BY <1>11, <2>5, TurnedTwice
<1>13. Elsewhere(s, c, r) /\ Tidy(r)
  BY <1>1, <1>12, TurnedElsewhere
<1>14. Tuned(mode, w, f, o, o.rx, FALSE)
  <2> HIDE DEF v, e, o
  <2>1. o.st = "up" => Linked(mode, w, f.mask, o, o.rx)
    <3>1. o.rx \in Seq(Bytes)
      BY <1>2 DEF SockType
    <3>2. SameParser(v, w)
      BY <1>7 DEF SameParser
    <3>3. o.st = "up" => Linked(mode, v, e.mask, o, o.rx)
      BY <1>5 DEF Using
    <3> QED BY <1>2, <1>6, <1>7, <1>10, <3>1, <3>2, <3>3, LinkedAgain
  <2>2. Using(mode, w, f, o, o.rx, FALSE)
    BY <1>5, <1>7, <1>10, <2>1 DEF Using
  <2> QED BY <1>5, <1>10, <2>2 DEF Tuned
<1>15. /\ Fine(mode, r) /\ r.lost = s.lost /\ r.timers = s.timers /\ r.conn[c] = w
       /\ r.events[k] = f /\ r.sock[k] = o
  BY <1>12 DEF Turned
<1>16. Keeping(r, c, FALSE)
  BY <1>1, <1>4, <1>6, <1>7, <1>14, <1>15 DEF Keeping, Calm
<1> QED BY <1>13, <1>15, <1>16

(* One timer is walked.                                                    *)
LEMMA WalkPaced ==
  ASSUME mode \in ModeType, NEW ts \in Seq(TimerType), Single(ts),
         NEW i \in Nat, i + 1 <= Len(ts), NEW t, t = ts[i + 1],
         t.proc = "delay_request" => mode.delay /\ t.data \in mode.conns,
         NEW q, Walking(q, ts, i), NEW due \in BOOLEAN
  PROVE  Walking(Walk(q, t, due), ts, i + 1)
<1>1. /\ t \in TimerType
      /\ \A d : Still(ts, i, d) <=> (t.proc = "delay_request" /\ t.data = d) \/ Still(ts, i + 1, d)
      /\ t.proc = "delay_request" => ~Still(ts, i + 1, t.data)
  <2>1. t \in TimerType
    OBVIOUS
  <2> QED BY <2>1, StillNext
<1>2. /\ Fine(mode, q) /\ Tidy(q)
      /\ \A c \in mode.conns : /\ ~(Waits(q.timers, c) /\ Still(ts, i, c))
                               /\ Keeping(q, c, Awaits(q, ts, i, c))
  BY DEF Walking
<1>3. CASE t.proc = "deleted"
  <2>1. Walk(q, t, due) = q
    BY <1>3 DEF Walk
  <2>2. ASSUME NEW c \in mode.conns
        PROVE  /\ ~(Waits(q.timers, c) /\ Still(ts, i + 1, c))
               /\ Keeping(q, c, Awaits(q, ts, i + 1, c))
    <3>1. Still(ts, i, c) <=> Still(ts, i + 1, c)
      BY <1>1, <1>3
    <3>2. Awaits(q, ts, i, c) = Awaits(q, ts, i + 1, c)
      BY <3>1 DEF Awaits, Still, Waits
    <3> QED BY <1>2, <3>1, <3>2
  <2> QED BY <1>2, <2>1, <2>2 DEF Walking
<1>4. CASE t.proc = "delay_request" /\ due
  <2> DEFINE b == t.data
             r == delay_request(q, b)
             u == [t EXCEPT !.proc = "deleted"]
             p == Put(r, u)
  <2>1. Walk(q, t, due) = p
    BY <1>4 DEF Walk
  <2>2. u \in TimerType /\ u.proc = "deleted"
    BY <1>1 DEF TimerType
  <2>3. b \in mode.conns /\ Still(ts, i, b) /\ ~Still(ts, i + 1, b)
    BY <1>1, <1>4
  <2>4. ~Waits(q.timers, b) /\ Keeping(q, b, TRUE)
    <3>1. ~Waits(q.timers, b) /\ Keeping(q, b, Awaits(q, ts, i, b))
      BY <1>2, <2>3
    <3>2. Awaits(q, ts, i, b) = TRUE
      BY <2>3 DEF Awaits, Still
    <3> QED BY <3>1, <3>2
  <2> HIDE DEF u
  <2>5. /\ Fine(mode, r) /\ Tidy(r) /\ Elsewhere(q, b, r) /\ r.timers = q.timers
        /\ Keeping(r, b, FALSE)
    BY <1>2, <2>3, <2>4, PacedAgain
  <2> HIDE DEF r
  <2>6. /\ Fine(mode, p) /\ Tidy(p)
        /\ \A d : Waits(p.timers, d) <=> Waits(r.timers, d)
        /\ \A c, w : Keeping(r, c, w) => Keeping(p, c, w)
    BY <2>2, <2>5, PutTidy
  <2> HIDE DEF p
  <2>7. ASSUME NEW c \in mode.conns
        PROVE  /\ ~(Waits(p.timers, c) /\ Still(ts, i + 1, c))
               /\ Keeping(p, c, Awaits(p, ts, i + 1, c))
    <3>1. Waits(p.timers, c) <=> Waits(q.timers, c)
      BY <2>5, <2>6
    <3>2. CASE c = b
      <4>1. ~Waits(p.timers, c) /\ ~Still(ts, i + 1, c)
        BY <2>3, <2>4, <3>1, <3>2
      <4>2. Awaits(p, ts, i + 1, c) = FALSE
        BY <4>1 DEF Awaits
      <4> QED BY <2>5, <2>6, <3>2, <4>1, <4>2
    <3>3. CASE c # b
      <4>1. Still(ts, i, c) <=> Still(ts, i + 1, c)
        BY <1>1, <3>3
      <4>2. Awaits(q, ts, i, c) = Awaits(p, ts, i + 1, c)
        BY <3>1, <4>1 DEF Awaits, Still, Waits
      <4>3. Keeping(r, c, Awaits(q, ts, i, c))
        <5>1. c \in Conns /\ Keeping(q, c, Awaits(q, ts, i, c))
          BY <1>2 DEF ModeType
        <5>2. r.conn[c] = q.conn[c] /\ (c \in r.lost <=> c \in q.lost)
          BY <2>5, <3>3, <5>1 DEF Elsewhere
        <5>3. c \notin q.lost => /\ r.events[q.conn[c].fd] = q.events[q.conn[c].fd]
                                 /\ r.sock[q.conn[c].fd] = q.sock[q.conn[c].fd]
          <6> SUFFICES ASSUME c \notin q.lost
                       PROVE  /\ r.events[q.conn[c].fd] = q.events[q.conn[c].fd]
                              /\ r.sock[q.conn[c].fd] = q.sock[q.conn[c].fd]
            OBVIOUS
          <6>1. /\ q.conn[c].fd \in Fds /\ q.sock[q.conn[c].fd].st # "closed"
                /\ q.events[q.conn[c].fd].data = c
            BY <1>2, FineTypes
          <6> QED BY <2>5, <3>3, <6>1 DEF Elsewhere
        <5> QED BY <5>1, <5>2, <5>3 DEF Keeping
      <4> QED BY <1>2, <2>6, <3>1, <4>1, <4>2, <4>3
    <3> QED BY <3>2, <3>3
  <2> QED BY <2>1, <2>6, <2>7 DEF Walking
<1>5. CASE t.proc # "deleted" /\ ~(t.proc = "delay_request" /\ due)
  <2> DEFINE p == Put(q, t)
  <2>1. Walk(q, t, due) = p
    BY <1>5 DEF Walk
  <2>2. t.proc = "delay_request" => ~Waits(q.timers, t.data)
    BY <1>1, <1>2
  <2>3. /\ Fine(mode, p) /\ Tidy(p)
        /\ \A d : Waits(p.timers, d) <=> (t.proc = "delay_request" /\ t.data = d) \/ Waits(q.timers, d)
        /\ \A c, w : Keeping(q, c, w) => Keeping(p, c, w)
    BY <1>1, <1>2, <2>2, PutTidy
  <2> HIDE DEF p
  <2>4. ASSUME NEW c \in mode.conns
        PROVE  /\ ~(Waits(p.timers, c) /\ Still(ts, i + 1, c))
               /\ Keeping(p, c, Awaits(p, ts, i + 1, c))
    <3>1. Awaits(q, ts, i, c) = Awaits(p, ts, i + 1, c)
      BY <1>1, <2>3 DEF Awaits, Still, Waits
    <3> QED BY <1>1, <1>2, <2>3, <3>1
  <2> QED BY <2>1, <2>3, <2>4 DEF Walking
<1> QED BY <1>3, <1>4, <1>5
-----------------------------------------------------------------------------
LEMMA TimersPaced ==
  ASSUME mode \in ModeType, NEW s, Fine(mode, s), Tidy(s),
         \A c \in mode.conns : Paced(s, c, Read(s, c)), NEW D
  PROVE  /\ Tidy(processTimeEvents(s, D))
         /\ \A c \in mode.conns :
              Paced(processTimeEvents(s, D), c, Read(processTimeEvents(s, D), c))
<1> DEFINE ts == s.timers
           n == Len(ts)
           y == processTimeEvents(s, D)
<1>1. /\ s \in StateType /\ ts \in Seq(TimerType) /\ n \in Nat /\ Single(ts) /\ Blank(s)
      /\ \A i \in DOMAIN ts : ts[i].proc = "delay_request" =>
           mode.delay /\ ts[i].data \in mode.conns
  BY DEF Fine, Sane, StateType, Delays, Tidy
<1>2. PICK P : WalkedAs(s, D, n, P) /\ y = P[n]
  <2> DEFINE H == CHOOSE h : WalkedAs(s, D, n, h)
  <2>1. y = H[n]
    BY DEF processTimeEvents, WalkedAs
  <2>2. WalkedAs(s, D, n, H)
    BY <1>1, WalkedExists
  <2> QED BY <2>1, <2>2
<1> HIDE DEF y
<1>3. P[0] = Cleared(s) /\ \A i \in 1 .. n : P[i] = Advance(s, D, i, P[i - 1])
  <2>1. n \in Nat /\ WalkedAs(s, D, n, P)
    BY <1>1, <1>2
  <2> HIDE DEF n
  <2> QED BY <2>1, WalkedIs
<1> DEFINE A == {i \in Nat : i <= n => Walking(P[i], ts, i)}
<1>4. 0 \in A
  <2> DEFINE q == P[0]
  <2>1. q = [s EXCEPT !.timers = <<>>]
    BY <1>3 DEF Cleared
  <2> HIDE DEF q
  <2>2. /\ <<>> \in Seq(TimerType)
        /\ \A i \in DOMAIN <<>> : <<>>[i].proc = "delay_request" =>
             mode.delay /\ <<>>[i].data \in mode.conns
    OBVIOUS
  <2>3. Fine(mode, q)
    BY <2>1, <2>2, TimerFine
  <2>4. /\ q.timers = <<>> /\ q.conn = s.conn /\ q.lost = s.lost /\ q.sock = s.sock
        /\ q.events = s.events
    BY <1>1, <2>1 DEF StateType
  <2>5. Tidy(q) /\ \A c : ~Waits(q.timers, c)
    BY <1>1, <2>4 DEF Tidy, Blank, Single, Waits
  <2>6. ASSUME NEW c \in mode.conns
        PROVE  Keeping(q, c, Awaits(q, ts, 0, c))
    <3>1. Keeping(s, c, Waits(ts, c))
      BY KeepingIs
    <3>2. Still(ts, 0, c) <=> Waits(ts, c)
      BY <1>1, StillEnds
    <3>3. Awaits(q, ts, 0, c) = Waits(ts, c)
      BY <2>5, <3>2 DEF Awaits, Still, Waits
    <3> QED BY <2>4, <3>1, <3>3 DEF Keeping
  <2> QED BY <2>3, <2>5, <2>6 DEF Walking, q
<1>5. ASSUME NEW i \in Nat, i \in A
      PROVE  i + 1 \in A
  <2> SUFFICES ASSUME i + 1 <= n
               PROVE  Walking(P[i + 1], ts, i + 1)
    OBVIOUS
  <2> DEFINE t == ts[i + 1]
             q == P[i]
  <2>1. Walking(q, ts, i)
    BY <1>1, <1>5
  <2>2. t.proc = "delay_request" => mode.delay /\ t.data \in mode.conns
    BY <1>1
  <2>3. P[i + 1] = Walk(q, t, i + 1 \in D)
    <3>1. i + 1 \in 1 .. n /\ (i + 1) - 1 = i
      BY <1>1
    <3> QED BY <1>3, <3>1 DEF Advance
  <2>4. (i + 1 \in D) \in BOOLEAN /\ t = ts[i + 1] /\ i + 1 <= Len(ts)
    OBVIOUS
  <2> HIDE DEF t, q, ts
  <2>5. Walking(Walk(q, t, i + 1 \in D), ts, i + 1)
    BY <1>1, <2>1, <2>2, <2>4, WalkPaced
  <2> QED BY <2>3, <2>5
<1>6. n \in A
  <2> HIDE DEF A
  <2>1. Nat \subseteq A
    BY <1>4, <1>5, Inductive
  <2> QED BY <1>1, <2>1
<1>7. Walking(y, ts, n)
  BY <1>1, <1>2, <1>6
<1>8. ASSUME NEW c \in mode.conns
      PROVE  Paced(y, c, Read(y, c))
  <2>1. ~Still(ts, n, c)
    BY <1>1, StillEnds
  <2>2. Awaits(y, ts, n, c) = Waits(y.timers, c)
    BY <2>1 DEF Awaits, Waits
  <2> QED BY <1>7, <2>2, KeepingIs DEF Walking
<1> QED BY <1>7, <1>8 DEF Walking, y
-----------------------------------------------------------------------------
(* In every state of the thread: every connection is in step, and what     *)
(* goes round in socket_readable does so for one that is connected.        *)
Rounds == part = "more" => g.events[g.conn[ran.conn].fd].rproc = "socket_readable"
PaceInv ==
  ReplacedInTime =>
    Tidy(g) /\ Rounds /\ \A c \in mode.conns : Paced(g, c, Read(g, c))

LEMMA PaceNext ==
  ASSUME mode' = mode,
         ReplacedInTime => /\ Tidy(g') /\ Rounds'
                           /\ \A c \in mode.conns : Paced(g', c, Read(g', c))
  PROVE  PaceInv'
<1>1. ReplacedInTime' <=> ReplacedInTime
  BY DEF ReplacedInTime
<1> SUFFICES ASSUME ReplacedInTime
             PROVE  Tidy(g') /\ Rounds' /\ \A c \in mode.conns : (Paced(g, c, Read(g, c)))'
  BY <1>1 DEF PaceInv
<1>2. ASSUME NEW c \in mode.conns
      PROVE  (Paced(g, c, Read(g, c)))'
  <2>1. Paced(g', c, Read(g', c))
    OBVIOUS
  <2> QED BY <2>1 DEF Paced
<1> QED BY <1>2

LEMMA PaceDone ==
  ASSUME LoopInv, PaceInv, mode' = mode, NEW c \in mode.conns,
         ReplacedInTime => Done(g, c, g') /\ Rounds'
  PROVE  PaceInv'
<1>1. mode \in ModeType /\ Fine(mode, g)
  BY ModesAre DEF LoopInv, Phases
<1> SUFFICES ASSUME ReplacedInTime
             PROVE  Tidy(g') /\ Rounds' /\ \A d \in mode.conns : Paced(g', d, Read(g', d))
  BY PaceNext
<1>2. Tidy(g') /\ Elsewhere(g, c, g') /\ Paced(g', c, Read(g', c)) /\ Rounds'
  BY DEF Done
<1>3. ASSUME NEW d \in mode.conns, d # c
      PROVE  Paced(g', d, Read(g', d))
  <2>1. Paced(g, d, Read(g, d))
    BY DEF PaceInv
  <2> QED BY <1>1, <1>2, <1>3, <2>1, OthersPaced
<1> QED BY <1>2, <1>3

LEMMA PaceInit ==
  ASSUME Init
  PROVE  PaceInv
<1>1. mode \in ModeType /\ g = Start(mode) /\ part = R
  BY ModesAre DEF Init
<1>2. /\ g.lost = mode.conns /\ g.timers = <<>>
      /\ g.sock = [fd \in Fds |-> Closed]
      /\ g.conn = [c \in Conns |-> [NewConn EXCEPT !.delayed = mode.delay]]
  BY <1>1 DEF Start
<1>3. Tidy(g)
  BY <1>2 DEF Tidy, Blank, Single
<1>4. ASSUME NEW c \in mode.conns
      PROVE  Paced(g, c, Read(g, c))
  <2>1. g.conn[c] = [NewConn EXCEPT !.delayed = mode.delay] /\ c \in g.lost
    BY <1>1, <1>2 DEF ModeType
  <2>2. g.conn[c].pending = 0
    BY <2>1 DEF NewConn
  <2>3. ~Waits(g.timers, c)
    BY <1>2 DEF Waits
  <2> QED BY <2>1, <2>2, <2>3 DEF Paced, Calm
<1>5. Rounds
  BY <1>1 DEF Rounds, R
<1> QED BY <1>3, <1>4, <1>5 DEF PaceInv

LEMMA MakePace ==
  ASSUME LoopInv, PaceInv, Make
  PROVE  PaceInv'
<1>1. /\ mode \in ModeType /\ Fine(mode, g) /\ making \subseteq g.lost /\ part = R
  BY ModesAre, Idle DEF LoopInv, Phases, Make
<1>2. PICK c \in making : g' \in connect_socket(g, c)
  BY DEF Make
<1>3. UNCHANGED <<mode, part>>
  BY DEF Make
<1>4. c \in mode.conns /\ g.lost \subseteq mode.conns /\ c \in g.lost
  BY <1>1, <1>2 DEF Fine
<1>5. Sane(mode, mode.conns \ (g.lost \cup {c}), g)
  <2>1. g.lost \cup {c} = g.lost
    BY <1>4
  <2> QED BY <1>1, <2>1 DEF Fine
<1>6. Fine(mode, g') /\ ((\E fd \in Fds : Fresh(g, c, fd, g')) \/ Missed(g, c, g'))
  BY <1>1, <1>2, <1>4, <1>5, ConnectFine
<1>7. ASSUME ReplacedInTime
      PROVE  Done(g, c, g') /\ Rounds'
  <2>1. Tidy(g) /\ Paced(g, c, Read(g, c))
    BY <1>4, <1>7 DEF PaceInv
  <2>2. ~Waits(g.timers, c) /\ Calm(g.conn[c])
    BY <1>4, <2>1 DEF Paced
  <2>3. g.conn[c] \in ConnType
    BY <1>1, <1>4, FineTypes
  <2>4. Done(g, c, g')
    BY <1>1, <1>4, <1>6, <2>1, <2>2, <2>3, Opened
  <2> QED BY <1>1, <1>3, <2>4 DEF Rounds, R
<1> QED BY <1>3, <1>4, <1>7, PaceDone

LEMMA EnterPace ==
  ASSUME LoopInv, PaceInv, Enter
  PROVE  PaceInv'
<1> DEFINE t == [proc |-> "record_rate", data |-> None]
           ts == <<t>> \o g.timers
<1>1. /\ mode \in ModeType /\ Fine(mode, g) /\ g' = [g EXCEPT !.timers = ts]
      /\ mode' = mode /\ part' = part /\ ran' = ran
  BY ModesAre DEF LoopInv, Phases, Enter, aeCreateTimeEvent
<1>2. g \in StateType /\ g.timers \in Seq(TimerType)
  BY <1>1 DEF Fine, Sane, StateType
<1>3. t \in TimerType /\ t.proc # "delay_request"
  BY DEF TimerType
<1> HIDE DEF t
<1>4. /\ \A d : Waits(ts, d) <=> Waits(g.timers, d)
      /\ Single(g.timers) => Single(ts)
  <2> DEFINE us == g.timers
  <2>1. us \in Seq(TimerType) /\ ts = <<t>> \o us
    BY <1>2
  <2> HIDE DEF ts, us
  <2>2. /\ \A d : Waits(ts, d) <=> (t.proc = "delay_request" /\ t.data = d) \/ Waits(us, d)
        /\ Single(us) /\ (t.proc = "delay_request" => ~Waits(us, t.data)) => Single(ts)
    BY <1>3, <2>1, WaitsMore
  <2> QED BY <1>3, <2>2 DEF us
<1> HIDE DEF ts
<1>5. /\ g'.timers = ts /\ g'.events = g.events /\ g'.conn = g.conn /\ g'.sock = g.sock
      /\ g'.lost = g.lost
  BY <1>1, <1>2 DEF StateType
<1>6. ASSUME ReplacedInTime
      PROVE  /\ Tidy(g') /\ Rounds'
             /\ \A c \in mode.conns : Paced(g', c, Read(g', c))
  <2>1. Tidy(g')
    BY <1>4, <1>5, <1>6 DEF PaceInv, Tidy, Blank
  <2>2. Rounds'
    BY <1>1, <1>5, <1>6 DEF PaceInv, Rounds
  <2>3. ASSUME NEW c \in mode.conns
        PROVE  Paced(g', c, Read(g', c))
    <3>1. Keeping(g, c, Waits(g.timers, c))
      BY <1>6, KeepingIs DEF PaceInv
    <3>2. Waits(g'.timers, c) = Waits(g.timers, c)
      BY <1>4, <1>5 DEF Waits
    <3>3. Keeping(g', c, Waits(g'.timers, c))
      BY <1>5, <3>1, <3>2 DEF Keeping
    <3> QED BY <3>3, KeepingIs
  <2> QED BY <2>1, <2>2, <2>3
<1> QED BY <1>1, <1>6, PaceNext

LEMMA TimePace ==
  ASSUME LoopInv, PaceInv, TimeEvents
  PROVE  PaceInv'
<1>1. /\ mode \in ModeType /\ Fine(mode, g) /\ mode' = mode /\ part' = part /\ part = R
  BY ModesAre, Idle DEF LoopInv, Phases, TimeEvents
<1>2. PICK D : g' = processTimeEvents(g, D)
  BY DEF TimeEvents
<1>3. ASSUME ReplacedInTime
      PROVE  /\ Tidy(g') /\ Rounds'
             /\ \A c \in mode.conns : Paced(g', c, Read(g', c))
  <2>1. Tidy(g) /\ \A c \in mode.conns : Paced(g, c, Read(g, c))
    BY <1>3 DEF PaceInv
  <2>2. Tidy(g') /\ \A c \in mode.conns : Paced(g', c, Read(g', c))
    BY <1>1, <1>2, <2>1, TimersPaced
  <2> QED BY <1>1, <2>2 DEF Rounds, R
<1> QED BY <1>1, <1>3, PaceNext

(* A connection is read again only if it is still the one that was read.   *)
LEMMA RoundsOn ==
  ASSUME mode \in ModeType, NEW s, NEW c \in mode.conns, NEW q, Done(s, c, q), More(s, q, c)
  PROVE  q.events[q.conn[c].fd].rproc = "socket_readable"
<1> DEFINE k == q.conn[c].fd
<1>1. Fine(mode, q) /\ c \notin q.lost /\ q.sock[k].rx # <<>> /\ Paced(q, c, Read(q, c))
  BY DEF Done, More
<1>2. /\ k \in Fds /\ q.sock[k].st # "closed" /\ q.events[k].data = c /\ q \in StateType
  BY <1>1, FineTypes
<1>3. R \in q.events[k].mask
  BY <1>1, <1>2 DEF Fine, Sane, Owned
<1>4. q.events[k].rproc \in ReadProcs
  <2> HIDE DEF k
  <2>1. q.events[k].mask # {}
    BY <1>3
  <2> QED BY <1>1, <1>2, <1>3, <2>1, OwnerOf
<1>5. q.events[k].rproc # "socket_connected"
  <2>1. Read(q, c) = q.sock[k].rx
    BY <1>1 DEF Read
  <2> SUFFICES ASSUME q.events[k].rproc = "socket_connected"
               PROVE  FALSE
    OBVIOUS
  <2>2. Opening(mode, q.events[k], q.sock[k], Read(q, c), Waits(q.timers, c))
    BY <1>1, PacedIs
  <2>3. Read(q, c) = <<>>
    BY <2>2 DEF Opening
  <2> QED BY <1>1, <2>1, <2>3
<1> QED BY <1>4, <1>5 DEF ReadProcs

LEMMA ReadablePace ==
  ASSUME LoopInv, PaceInv, DispatchReadable
  PROVE  PaceInv'
<1> DEFINE e == fired[1]
           fe == g.events[e.fd]
           c == fe.data
<1>1. /\ mode \in ModeType /\ Fine(mode, g) /\ fired # <<>>
      /\ part = R /\ mode' = mode
      /\ fired \in Seq(FiredType) /\ Head(fired) = e
  BY ModesAre DEF LoopInv, Phases, Queue, DispatchReadable
<1>2. e.fd \in Fds
  <2>1. e \in FiredType
    BY <1>1
  <2> QED BY <2>1 DEF FiredType
<1>3. Usable(g, e)
  BY <1>1 DEF LoopInv, Half
<1>4. CASE ~Readable(g, e)
  <2>1. part' = W /\ g' = g
    BY <1>1, <1>4 DEF DispatchReadable
  <2> QED BY <1>1, <2>1, PaceNext DEF PaceInv, Rounds, W
<1>5. CASE Readable(g, e)
  <2>1. /\ g' \in Call(fe.rproc, e.fd, c) /\ ran' = Ran(fe.rproc, c)
        /\ part' = IF fe.rproc = "socket_readable" /\ More(g, g', c) THEN "more" ELSE W
    BY <1>1, <1>5 DEF DispatchReadable
  <2>2. R \in fe.mask /\ R \in e.mask
    BY <1>5 DEF Readable
  <2>3. c \in mode.conns \ g.lost /\ g.conn[c].fd = e.fd /\ fe.rproc \in ReadProcs
    BY <1>1, <1>2, <2>2, OwnerOf
  <2>4. g.sock[e.fd].st \in {"up", "failed"} /\ HasData(g.sock[e.fd])
    BY <1>3, <2>2 DEF Usable
  <2>5. ASSUME ReplacedInTime
        PROVE  Done(g, c, g')
    <3>1. Tidy(g) /\ Paced(g, c, Read(g, c)) /\ ~(mode.delay /\ mode.faults)
      BY <2>3, <2>5 DEF PaceInv, ReplacedInTime
    <3> HIDE DEF c, e
    <3>2. CASE fe.rproc = "socket_connected"
      <4>1. g' \in socket_connected(g, g.conn[c].fd, c)
        BY <2>1, <2>3, <3>2 DEF Call
      <4> QED BY <1>1, <2>3, <2>4, <3>1, <3>2, <4>1, PacedConnected
    <3>3. CASE fe.rproc = "socket_readable"
      <4>1. g' \in socket_readable(g, c)
        BY <2>1, <3>3 DEF Call
      <4> QED BY <1>1, <2>3, <2>4, <3>1, <3>3, <4>1, PacedReadable
    <3> QED BY <2>3, <3>2, <3>3 DEF ReadProcs
  <2>6. ASSUME ReplacedInTime
        PROVE  Rounds'
    <3> SUFFICES ASSUME part' = "more"
                 PROVE  g'.events[g'.conn[ran'.conn].fd].rproc = "socket_readable"
      BY DEF Rounds
    <3>1. More(g, g', c) /\ ran'.conn = c
      BY <2>1 DEF Ran, W
    <3> HIDE DEF c
    <3> QED BY <1>1, <2>3, <2>5, <2>6, <3>1, RoundsOn
  <2> HIDE DEF c
  <2> QED BY <1>1, <2>3, <2>5, <2>6, PaceDone
<1> QED BY <1>4, <1>5

LEMMA MorePace ==
  ASSUME LoopInv, PaceInv, ReadMore
  PROVE  PaceInv'
<1> DEFINE c == ran.conn
<1>1. /\ mode \in ModeType /\ Fine(mode, g) /\ part = "more" /\ mode' = mode
      /\ g' \in socket_readable(g, c) /\ ran' = Ran("socket_readable", c)
      /\ part' = IF More(g, g', c) THEN "more" ELSE W
  BY ModesAre DEF LoopInv, Phases, ReadMore
<1>2. /\ c \in mode.conns \ g.lost
      /\ g.sock[g.conn[c].fd].st \in {"up", "failed"} /\ HasData(g.sock[g.conn[c].fd])
  <2>1. fired # <<>>
    BY <1>1 DEF LoopInv, Phases, R
  <2> QED BY <1>1, <2>1 DEF LoopInv, Half
<1> HIDE DEF c
<1>3. ASSUME ReplacedInTime
      PROVE  Done(g, c, g') /\ Rounds'
  <2>1. Tidy(g) /\ Paced(g, c, Read(g, c)) /\ ~(mode.delay /\ mode.faults)
    BY <1>2, <1>3 DEF PaceInv, ReplacedInTime
  <2>2. g.events[g.conn[c].fd].rproc = "socket_readable"
    BY <1>1, <1>3 DEF PaceInv, Rounds, c
  <2>3. Done(g, c, g')
    BY <1>1, <1>2, <2>1, <2>2, PacedReadable
  <2>4. Rounds'
    <3> SUFFICES ASSUME part' = "more"
                 PROVE  g'.events[g'.conn[ran'.conn].fd].rproc = "socket_readable"
      BY DEF Rounds
    <3>1. More(g, g', c) /\ ran'.conn = c
      BY <1>1 DEF Ran, W
    <3> QED BY <1>1, <1>2, <2>3, <3>1, RoundsOn
  <2> QED BY <2>3, <2>4
<1> QED BY <1>1, <1>2, <1>3, PaceDone

LEMMA WritablePace ==
  ASSUME LoopInv, PaceInv, DispatchWritable
  PROVE  PaceInv'
<1> DEFINE e == fired[1]
           fe == g.events[e.fd]
           c == fe.data
<1>1. /\ mode \in ModeType /\ Fine(mode, g) /\ fired # <<>>
      /\ part = W /\ part' = R /\ mode' = mode
      /\ fired \in Seq(FiredType) /\ Head(fired) = e
  <2>1. part = W /\ part' = R /\ mode' = mode
    BY DEF DispatchWritable
  <2>2. mode \in ModeType /\ Fine(mode, g) /\ fired \in Seq(FiredType)
    BY ModesAre DEF LoopInv, Phases, Queue
  <2>3. fired # <<>>
    BY <2>1 DEF LoopInv, Phases, R, W
  <2>4. Head(fired) = e
    BY <2>2, <2>3
  <2> QED BY <2>1, <2>2, <2>3, <2>4
<1>2. e.fd \in Fds
  <2>1. e \in FiredType
    BY <1>1
  <2> QED BY <2>1 DEF FiredType
<1>3. \/ g.sock[e.fd].st \in {"up", "failed"}
      \/ rfired /\ (fe.mask = {} \/ fe.rproc = fe.wproc)
  BY <1>1 DEF LoopInv, Half
<1>4. Rounds'
  BY <1>1 DEF Rounds, R
<1>5. CASE ~Writable(g, e, rfired)
  <2>1. g' = g
    BY <1>1, <1>5 DEF DispatchWritable
  <2> QED BY <1>1, <1>4, <2>1, PaceNext DEF PaceInv
<1>6. CASE Writable(g, e, rfired)
  <2>1. g' \in Call(fe.wproc, e.fd, c)
    BY <1>1, <1>6 DEF DispatchWritable
  <2>2. W \in fe.mask /\ (~rfired \/ fe.wproc # fe.rproc)
    BY <1>6 DEF Writable
  <2>3. c \in mode.conns \ g.lost /\ g.conn[c].fd = e.fd /\ fe.wproc \in WriteProcs
    BY <1>1, <1>2, <2>2, OwnerOf
  <2>4. g.sock[e.fd].st \in {"up", "failed"}
    BY <1>3, <2>2
  <2>5. fe.rproc \in ReadProcs
    <3>1. g.sock[e.fd].st # "closed"
      BY <2>4
    <3>2. R \in fe.mask
      BY <1>1, <1>2, <3>1 DEF Fine, Sane, Owned
    <3> QED BY <1>1, <1>2, <3>2, OwnerOf
  <2> HIDE DEF c, e
  <2>6. ASSUME ReplacedInTime
        PROVE  Done(g, c, g')
    <3>1. Tidy(g) /\ Paced(g, c, Read(g, c))
      BY <2>3, <2>6 DEF PaceInv
    <3>2. /\ fe.rproc = "socket_connected" => fe.wproc = "socket_connected"
          /\ fe.rproc = "socket_readable" => fe.wproc = "socket_writeable"
      <4>1. c \notin g.lost /\ g.conn[c].fd = e.fd /\ Paced(g, c, Read(g, c))
        BY <2>3, <3>1
      <4>2. /\ fe.rproc = "socket_connected" =>
                 Opening(mode, fe, g.sock[e.fd], Read(g, c), Waits(g.timers, c))
            /\ fe.rproc = "socket_readable" =>
                 Using(mode, g.conn[c], fe, g.sock[e.fd], Read(g, c), Waits(g.timers, c))
        BY <4>1 DEF Paced, Tuned
      <4> QED BY <4>2 DEF Opening, Using
    <3>3. CASE fe.wproc = "socket_connected"
      <4>1. fe.rproc = "socket_connected"
        BY <2>5, <3>2, <3>3 DEF ReadProcs
      <4>2. g' \in socket_connected(g, g.conn[c].fd, c)
        BY <2>1, <2>3, <3>3 DEF Call
      <4> QED BY <1>1, <2>3, <2>4, <3>1, <4>1, <4>2, PacedConnected
    <3>4. CASE fe.wproc = "socket_writeable"
      <4>1. fe.rproc = "socket_readable"
        BY <2>5, <3>2, <3>4 DEF ReadProcs
      <4>2. g' \in socket_writeable(g, g.conn[c].fd, c)
        BY <2>1, <2>3, <3>4 DEF Call
      <4> QED BY <1>1, <2>2, <2>3, <2>4, <3>1, <4>1, <4>2, PacedWriteable
    <3> QED BY <2>3, <3>3, <3>4 DEF WriteProcs
  <2> QED BY <1>1, <1>4, <2>3, <2>6, PaceDone
<1> QED BY <1>5, <1>6

(* The server and the network change the socket of one connection.         *)
LEMMA OutsidePace ==
  ASSUME LoopInv, PaceInv, NEW fd \in Fds, NEW x, Lasting(g.sock[fd], x), Network(fd, x),
         \A v \in ConnType : \A e, w :
           /\ ReplacedInTime /\ e.rproc \in ReadProcs
           /\ Tuned(mode, v, e, g.sock[fd], g.sock[fd].rx, w)
           => Tuned(mode, v, e, x, x.rx, w)
  PROVE  PaceInv'
<1> DEFINE c == g.events[fd].data
<1>1. /\ mode \in ModeType /\ Fine(mode, g) /\ g' = [g EXCEPT !.sock[fd] = x]
      /\ mode' = mode /\ part' = part /\ ran' = ran
  BY ModesAre DEF LoopInv, Phases, Network
<1>2. /\ x \in SockType /\ g.sock[fd].st # "closed" /\ x.st \in {"up", "failed"}
  BY DEF Lasting
<1>3. Fine(mode, g') /\ SockOnly(g, fd, x, g')
  <2>1. /\ x.st = "closed" <=> g.sock[fd].st = "closed"
        /\ x.st \in {"closed", "connecting"} => x.rx = <<>>
    BY <1>2
  <2> QED BY <1>1, <1>2, <2>1, SockSteady
<1>4. /\ g'.lost = g.lost /\ g'.conn = g.conn /\ g'.events = g.events /\ g'.timers = g.timers
      /\ g'.sock[fd] = x /\ \A k \in Fds : k # fd => g'.sock[k] = g.sock[k]
  BY <1>3 DEF SockOnly
<1>5. c \in mode.conns \ g.lost /\ g.conn[c].fd = fd /\ R \in g.events[fd].mask
  BY <1>1, <1>2 DEF Fine, Sane, Owned
<1>6. g.events[fd].rproc \in ReadProcs /\ g.conn[c] \in ConnType
  <2>1. g.events[fd].mask # {}
    BY <1>5
  <2> QED BY <1>1, <1>5, <2>1, OwnerOf, FineTypes
<1> HIDE DEF c
<1>7. ASSUME ReplacedInTime
      PROVE  Done(g, c, g') /\ Rounds'
  <2>1. Tidy(g) /\ Rounds /\ Paced(g, c, Read(g, c))
    BY <1>5, <1>7 DEF PaceInv
  <2>2. Tidy(g')
    <3>1. \A k \in Fds : g'.sock[k].st = "closed" => k # fd
      BY <1>2, <1>4
    <3> QED BY <1>4, <2>1, <3>1 DEF Tidy, Blank
  <2>3. Elsewhere(g, c, g')
    <3>1. \A k \in Fds : g.events[k].data # c => k # fd
      BY <1>5 DEF c
    <3> QED BY <1>4, <3>1 DEF Elsewhere
  <2>4. Keeping(g', c, Waits(g'.timers, c))
    <3>1. Keeping(g, c, Waits(g.timers, c))
      BY <2>1, KeepingIs
    <3>2. /\ Calm(g.conn[c])
          /\ Tuned(mode, g.conn[c], g.events[fd], g.sock[fd], g.sock[fd].rx, Waits(g.timers, c))
      BY <1>5, <3>1 DEF Keeping
    <3>3. Tuned(mode, g.conn[c], g.events[fd], x, x.rx, Waits(g.timers, c))
      BY <1>6, <1>7, <3>2
    <3> QED BY <1>4, <1>5, <3>2, <3>3 DEF Keeping
  <2>5. Rounds'
    BY <1>1, <1>4, <2>1 DEF Rounds
  <2> QED BY <1>3, <2>2, <2>3, <2>4, <2>5, KeepingIs DEF Done
<1> QED BY <1>1, <1>5, <1>7, PaceDone

(* A socket that is connected, of a connection that is in use.             *)
LEMMA InUse ==
  ASSUME NEW v, NEW e, e.rproc \in ReadProcs, NEW o, o.st = "up",
         o.owe # 0 \/ o.todo # <<>> \/ o.ends,
         NEW w, Tuned(mode, v, e, o, o.rx, w),
         NEW x, x.st = "up",
         Linked(mode, v, e.mask, o, o.rx) => Linked(mode, v, e.mask, x, x.rx)
  PROVE  Tuned(mode, v, e, x, x.rx, w)
<1>1. e.rproc = "socket_readable" /\ Using(mode, v, e, o, o.rx, w)
  BY DEF Tuned, Opening, ReadProcs
<1>2. Using(mode, v, e, x, x.rx, w)
  BY <1>1 DEF Using
<1> QED BY <1>1, <1>2 DEF Tuned

LEMMA EstablishPace ==
  ASSUME LoopInv, PaceInv, NEW fd \in Fds, Establish(fd)
  PROVE  PaceInv'
<1> DEFINE o == g.sock[fd]
           x == [o EXCEPT !.st = "up"]
<1>1. o \in SockType /\ o.st = "connecting" /\ Network(fd, x)
  BY SocketOf DEF Establish
<1> HIDE DEF o
<1>2. /\ x \in SockType /\ x.st = "up" /\ x.rx = o.rx /\ x.fin = o.fin /\ x.owe = o.owe
      /\ x.got = o.got /\ x.todo = o.todo /\ x.ends = o.ends
  BY <1>1 DEF SockType
<1> HIDE DEF x
<1>3. Lasting(o, x)
  BY <1>1, <1>2 DEF Lasting, HasData
<1>4. ASSUME NEW v \in ConnType, NEW e, NEW w, e.rproc \in ReadProcs,
             Tuned(mode, v, e, o, o.rx, w)
      PROVE  Tuned(mode, v, e, x, x.rx, w)
  <2>1. e.rproc = "socket_connected" /\ Opening(mode, e, o, o.rx, w)
    BY <1>1, <1>4 DEF Tuned, Using, ReadProcs
  <2>2. Opening(mode, e, x, x.rx, w)
    BY <1>2, <2>1 DEF Opening
  <2> QED BY <1>2, <2>1, <2>2 DEF Tuned
<1> QED BY <1>1, <1>3, <1>4, OutsidePace DEF o

LEMMA AnswerPace ==
  ASSUME LoopInv, PaceInv, NEW fd \in Fds, NEW kind \in {"k", "c", "z"}, Answer(fd, kind)
  PROVE  PaceInv'
<1> DEFINE o == g.sock[fd]
           owe == IF kind = "k" THEN o.owe - 1 ELSE 0
           ends == kind # "k"
           left == [o EXCEPT !.owe = IF kind = "k" THEN @ - 1 ELSE 0, !.ends = kind # "k"]
           whole == [left EXCEPT !.rx = @ \o <<"b", kind>>]
           first == [left EXCEPT !.rx = @ \o <<"b">>, !.todo = <<kind>>]
<1>1. /\ o.st = "up" /\ ~o.fin /\ o.owe > 0 /\ o.todo = <<>>
      /\ Network(fd, whole) \/ Network(fd, first)
  BY DEF Answer
<1>2. /\ o \in SockType /\ o.rx \in Seq(Bytes) /\ o.todo \in Seq(Bytes) /\ o.owe \in Int
      /\ mode \in ModeType
  BY SocketOf, ModesAre DEF LoopInv, Phases
<1>3. /\ <<"b", kind>> \in Seq(Bytes) /\ <<"b">> \in Seq(Bytes) /\ <<kind>> \in Seq(Bytes)
  BY DEF Bytes
<1>4. o.rx \o <<"b", kind>> \in Seq(Bytes) /\ o.rx \o <<"b">> \in Seq(Bytes)
  BY <1>2, <1>3
<1>5. /\ left \in SockType /\ left.st = o.st /\ left.rx = o.rx /\ left.fin = o.fin
      /\ left.got = o.got /\ left.owe = owe /\ left.ends = ends /\ left.todo = o.todo
  <2>1. owe \in Int /\ ends \in BOOLEAN
    BY <1>2
  <2>2. left = [o EXCEPT !.owe = owe, !.ends = ends]
    OBVIOUS
  <2> HIDE DEF o, owe, ends, left
  <2> QED BY <1>2, <2>1, <2>2 DEF SockType
<1>6. ASSUME NEW x \in SockType, Network(fd, x), x.st = "up", x.got = o.got, x.fin = o.fin,
             x.ends = ends, x.owe = owe,
             \/ x.rx = o.rx \o <<"b", kind>> /\ x.todo = <<>>
             \/ x.rx = o.rx \o <<"b">> /\ x.todo = <<kind>>
      PROVE  PaceInv'
  <2>1. Lasting(o, x)
    <3> DEFINE rx == o.rx
    <3>1. rx \in Seq(Bytes) /\ (x.rx = rx \o <<"b", kind>> \/ x.rx = rx \o <<"b">>)
      BY <1>2, <1>6
    <3> HIDE DEF rx
    <3>2. x.rx # <<>>
      BY <1>3, <3>1
    <3> QED BY <1>1, <1>6, <3>2 DEF Lasting, HasData
  <2>2. kind \in Whole
    BY DEF Whole
  <2> HIDE DEF o
  <2>3. ASSUME NEW v \in ConnType, NEW e, NEW w, e.rproc \in ReadProcs,
               Tuned(mode, v, e, o, o.rx, w)
        PROVE  Tuned(mode, v, e, x, x.rx, w)
    <3>1. Linked(mode, v, e.mask, o, o.rx) => Linked(mode, v, e.mask, x, x.rx)
      BY <1>1, <1>2, <1>6, <2>2, LinkedAnswer
    <3>2. o.owe # 0
      BY <1>1, <1>2
    <3> QED BY <1>1, <1>6, <2>3, <3>1, <3>2, InUse
  <2> QED BY <1>6, <2>1, <2>3, OutsidePace DEF o
<1>7. CASE Network(fd, whole)
  <2>1. /\ whole \in SockType /\ whole.st = "up" /\ whole.got = o.got /\ whole.fin = o.fin
        /\ whole.ends = ends /\ whole.owe = owe
        /\ whole.rx = o.rx \o <<"b", kind>> /\ whole.todo = <<>>
    <3> HIDE DEF o, left, owe, ends
    <3> QED BY <1>1, <1>4, <1>5 DEF SockType
  <2> HIDE DEF whole, o, owe, ends
  <2> QED BY <1>6, <1>7, <2>1
<1>8. CASE Network(fd, first)
  <2>1. /\ first \in SockType /\ first.st = "up" /\ first.got = o.got /\ first.fin = o.fin
        /\ first.ends = ends /\ first.owe = owe
        /\ first.rx = o.rx \o <<"b">> /\ first.todo = <<kind>>
    <3> HIDE DEF o, left, owe, ends
    <3> QED BY <1>1, <1>3, <1>4, <1>5 DEF SockType
  <2> HIDE DEF first, o, owe, ends
  <2> QED BY <1>6, <1>8, <2>1
<1> QED BY <1>1, <1>7, <1>8

LEMMA DeliverPace ==
  ASSUME LoopInv, PaceInv, NEW fd \in Fds, Deliver(fd)
  PROVE  PaceInv'
<1> DEFINE o == g.sock[fd]
           x == [o EXCEPT !.rx = @ \o o.todo, !.todo = <<>>]
<1>1. o.st = "up" /\ o.todo # <<>> /\ Network(fd, x)
  BY DEF Deliver
<1>2. /\ o \in SockType /\ o.rx \in Seq(Bytes) /\ o.todo \in Seq(Bytes) /\ mode \in ModeType
  BY SocketOf, ModesAre DEF LoopInv, Phases
<1>3. o.rx \o o.todo \in Seq(Bytes) /\ <<>> \in Seq(Bytes)
      /\ (o.rx # <<>> => o.rx \o o.todo # <<>>)
  BY <1>2
<1> HIDE DEF o
<1>4. /\ x \in SockType /\ x.st = "up" /\ x.rx = o.rx \o o.todo /\ x.fin = o.fin
      /\ x.todo = <<>> /\ x.got = o.got /\ x.ends = o.ends /\ x.owe = o.owe
  BY <1>1, <1>2, <1>3 DEF SockType
<1> HIDE DEF x
<1>5. Lasting(o, x)
  BY <1>1, <1>3, <1>4 DEF Lasting, HasData
<1>6. ASSUME NEW v \in ConnType, NEW e, NEW w, e.rproc \in ReadProcs,
             Tuned(mode, v, e, o, o.rx, w)
      PROVE  Tuned(mode, v, e, x, x.rx, w)
  <2>1. Linked(mode, v, e.mask, o, o.rx) => Linked(mode, v, e.mask, x, x.rx)
    BY <1>1, <1>2, <1>4, LinkedDeliver
  <2> QED BY <1>1, <1>4, <1>6, <2>1, InUse
<1> QED BY <1>1, <1>5, <1>6, OutsidePace DEF o

LEMMA FinishPace ==
  ASSUME LoopInv, PaceInv, NEW fd \in Fds, Finish(fd)
  PROVE  PaceInv'
<1> DEFINE o == g.sock[fd]
           x == [o EXCEPT !.fin = TRUE]
<1>1. /\ o.st = "up" /\ o.ends /\ o.todo = <<>> /\ Network(fd, x) /\ o \in SockType
      /\ mode \in ModeType
  BY SocketOf, ModesAre DEF LoopInv, Phases, Finish
<1> HIDE DEF o
<1>2. /\ x \in SockType /\ x.st = "up" /\ x.rx = o.rx /\ x.fin = TRUE
      /\ x.todo = o.todo /\ x.got = o.got /\ x.ends = o.ends /\ x.owe = o.owe
  BY <1>1 DEF SockType
<1> HIDE DEF x
<1>3. Lasting(o, x)
  BY <1>1, <1>2 DEF Lasting, HasData
<1>4. ASSUME NEW v \in ConnType, NEW e, NEW w, e.rproc \in ReadProcs,
             Tuned(mode, v, e, o, o.rx, w)
      PROVE  Tuned(mode, v, e, x, x.rx, w)
  <2>1. Linked(mode, v, e.mask, o, o.rx) => Linked(mode, v, e.mask, x, x.rx)
    BY <1>1, <1>2, LinkedFinish
  <2> QED BY <1>1, <1>2, <1>4, <2>1, InUse
<1> QED BY <1>1, <1>3, <1>4, OutsidePace DEF o

LEMMA FailPace ==
  ASSUME LoopInv, PaceInv, NEW fd \in Fds, Fail(fd)
  PROVE  PaceInv'
<1> DEFINE o == g.sock[fd]
           x == [Closed EXCEPT !.st = "failed"]
<1>1. mode.faults /\ o.st \in {"connecting", "up"} /\ Network(fd, x)
  BY DEF Fail, Faulty
<1>2. /\ x \in SockType /\ x.st = "failed" /\ x.rx = <<>> /\ x.fin = FALSE /\ x.owe = 0
      /\ x.got = 0 /\ x.todo = <<>> /\ x.ends = FALSE
  <2>1. <<>> \in Seq(Bytes)
    OBVIOUS
  <2>2. Closed \in SockType
    BY <2>1 DEF SockType, Closed
  <2> QED BY <2>2 DEF SockType, Closed
<1> HIDE DEF x, o
<1>3. Lasting(o, x)
  BY <1>1, <1>2 DEF Lasting, HasData
<1>4. ASSUME NEW v \in ConnType, NEW e, NEW w, e.rproc \in ReadProcs,
             Tuned(mode, v, e, o, o.rx, w)
      PROVE  Tuned(mode, v, e, x, x.rx, w)
  BY <1>1, <1>2, <1>4 DEF Tuned, Opening, Using
<1> QED BY <1>1, <1>3, <1>4, OutsidePace DEF o

LEMMA HangupPace ==
  ASSUME LoopInv, PaceInv, NEW fd \in Fds, Hangup(fd)
  PROVE  PaceInv'
<1> DEFINE o == g.sock[fd]
           x == [o EXCEPT !.fin = TRUE, !.owe = 0, !.todo = <<>>]
<1>1. /\ o.st = "up" /\ mode.faults /\ Network(fd, x) /\ o \in SockType
      /\ <<>> \in Seq(Bytes) /\ 0 \in Int /\ mode \in ModeType
  BY SocketOf, ModesAre DEF LoopInv, Phases, Hangup, Faulty
<1> HIDE DEF o
<1>2. /\ x \in SockType /\ x.st = "up" /\ x.rx = o.rx /\ x.fin = TRUE
      /\ x.todo = <<>> /\ x.got = o.got /\ x.ends = o.ends /\ x.owe = 0
  BY <1>1 DEF SockType
<1> HIDE DEF x
<1>3. Lasting(o, x)
  BY <1>1, <1>2 DEF Lasting, HasData
<1>4. ASSUME NEW v \in ConnType, NEW e, NEW w, e.rproc \in ReadProcs,
             Tuned(mode, v, e, o, o.rx, w)
      PROVE  Tuned(mode, v, e, x, x.rx, w)
  <2>1. Linked(mode, v, e.mask, o, o.rx) => Linked(mode, v, e.mask, x, x.rx)
    BY <1>1, <1>2, LinkedHangup
  <2>2. Opening(mode, e, o, o.rx, w) => Opening(mode, e, x, x.rx, w)
    BY <1>1, <1>2 DEF Opening
  <2>3. Using(mode, v, e, o, o.rx, w) => Using(mode, v, e, x, x.rx, w)
    BY <1>1, <1>2, <2>1 DEF Using
  <2> QED BY <1>2, <1>4, <2>2, <2>3 DEF Tuned
<1> QED BY <1>1, <1>3, <1>4, OutsidePace DEF o

LEMMA GarblePace ==
  ASSUME LoopInv, PaceInv, NEW fd \in Fds, Garble(fd)
  PROVE  PaceInv'
<1> DEFINE o == g.sock[fd]
           x == [o EXCEPT !.rx = @ \o <<"x">>, !.owe = 0, !.ends = TRUE]
<1>1. /\ o.st = "up" /\ ~o.fin /\ o.owe > 0 /\ o.todo = <<>> /\ mode.faults
      /\ Network(fd, x) /\ 0 \in Int
  BY DEF Garble, Faulty
<1>2. /\ o \in SockType /\ o.rx \in Seq(Bytes) /\ <<"x">> \in Seq(Bytes) /\ o.owe \in Int
      /\ mode \in ModeType
  BY SocketOf, ModesAre DEF LoopInv, Phases, Bytes
<1>3. o.rx \o <<"x">> \in Seq(Bytes) /\ o.rx \o <<"x">> # <<>>
  BY <1>2
<1>4. /\ x \in SockType /\ x.st = "up" /\ x.rx = o.rx \o <<"x">> /\ x.fin = o.fin
      /\ x.todo = o.todo /\ x.got = o.got /\ x.ends = TRUE /\ x.owe = 0
  <2> DEFINE rx == o.rx \o <<"x">>
  <2>1. x = [o EXCEPT !.rx = rx, !.owe = 0, !.ends = TRUE] /\ rx \in Seq(Bytes)
    BY <1>3
  <2>2. rx = o.rx \o <<"x">>
    OBVIOUS
  <2> HIDE DEF o, x, rx
  <2> QED BY <1>1, <1>2, <2>1, <2>2 DEF SockType
<1> HIDE DEF x, o
<1>5. Lasting(o, x)
  BY <1>1, <1>3, <1>4 DEF Lasting, HasData
<1>6. ASSUME NEW v \in ConnType, NEW e, NEW w, e.rproc \in ReadProcs,
             Tuned(mode, v, e, o, o.rx, w)
      PROVE  Tuned(mode, v, e, x, x.rx, w)
  <2>1. Linked(mode, v, e.mask, o, o.rx) => Linked(mode, v, e.mask, x, x.rx)
    BY <1>1, <1>2, <1>4, LinkedGarble
  <2>2. o.owe # 0
    BY <1>1, <1>2
  <2> QED BY <1>1, <1>4, <1>6, <2>1, <2>2, InUse
<1> QED BY <1>1, <1>5, <1>6, OutsidePace DEF o

LEMMA PaceStep ==
  ASSUME LoopInv, PaceInv, [Next]_vars
  PROVE  PaceInv'
<1>1. CASE Make
  BY <1>1, MakePace
<1>2. CASE Enter
  BY <1>2, EnterPace
<1>3. CASE Poll
  <2>1. UNCHANGED <<mode, g, part, ran>>
    BY <1>3 DEF Poll
  <2> QED BY <2>1, PaceNext DEF PaceInv, Rounds
<1>4. CASE DispatchReadable
  BY <1>4, ReadablePace
<1>5. CASE ReadMore
  BY <1>5, MorePace
<1>6. CASE DispatchWritable
  BY <1>6, WritablePace
<1>7. CASE TimeEvents
  BY <1>7, TimePace
<1>8. CASE Outside
  <2> SUFFICES ASSUME NEW fd \in Fds,
                      \/ Establish(fd) \/ Deliver(fd) \/ Finish(fd)
                      \/ Fail(fd) \/ Hangup(fd) \/ Garble(fd)
                      \/ \E kind \in {"k", "c", "z"} : Answer(fd, kind)
               PROVE  PaceInv'
    BY <1>8 DEF Outside
  <2> QED BY EstablishPace, DeliverPace, FinishPace, FailPace, HangupPace, GarblePace,
             AnswerPace
<1>9. CASE UNCHANGED vars
  <2>1. UNCHANGED <<mode, g, part, ran>>
    BY <1>9 DEF vars
  <2> QED BY <2>1, PaceNext DEF PaceInv, Rounds
<1> QED BY <1>1, <1>2, <1>3, <1>4, <1>5, <1>6, <1>7, <1>8, <1>9 DEF Next, Loop

(* The inductive invariant: between two callbacks every connection of a    *)
(* thread of wrk is in step with its server, be it new, written, waited    *)
(* for, delayed, read or replaced (wrk.c:236-448).                         *)
THEOREM PaceInvariant ==
  ASSUME NoTimerLost
  PROVE  Spec => []PaceInv
<1>1. Init => PaceInv
  BY PaceInit
<1>2. LoopInv /\ PaceInv /\ [Next]_vars => PaceInv'
  BY PaceStep
<1> QED BY <1>1, <1>2, LoopInvariant, PTL DEF Spec

(* A connection that has a socket, by what comes next for it.              *)
LEMMA LiveIs ==
  ASSUME LoopInv, PaceInv, ReplacedInTime, NEW c \in Live
  PROVE  /\ g.conn[c] \in ConnType /\ Own(c) \in SockType /\ Own(c).st # "closed"
         /\ R \in Event(c).mask
         /\ \/ Opening(mode, Event(c), Own(c), Own(c).rx, Waits(g.timers, c))
            \/ Event(c).rproc = "socket_readable"
               /\ Using(mode, g.conn[c], Event(c), Own(c), Own(c).rx, Waits(g.timers, c))
         /\ Event(c).rproc = "socket_readable" =>
               Using(mode, g.conn[c], Event(c), Own(c), Own(c).rx, Waits(g.timers, c))
<1>1. mode \in ModeType /\ Fine(mode, g) /\ c \in mode.conns \ g.lost
  BY ModesAre DEF LoopInv, Phases, Live
<1>2. /\ g.conn[c] \in ConnType /\ Own(c) \in SockType /\ Own(c).st # "closed"
      /\ g.conn[c].fd \in Fds
  BY <1>1, FineTypes DEF Own
<1>3. R \in Event(c).mask
  BY <1>1, <1>2 DEF Fine, Sane, Owned, Own, Event
<1>4. Event(c).rproc \in ReadProcs
  <2> DEFINE k == g.conn[c].fd
  <2> HIDE DEF k
  <2>1. k \in Fds /\ R \in g.events[k].mask
    BY <1>2, <1>3 DEF Event, k
  <2>2. g.events[k].rproc \in ReadProcs
    BY <1>1, <2>1, OwnerOf
  <2> QED BY <2>2 DEF Event, k
<1>5. Paced(g, c, Own(c).rx)
  BY <1>1 DEF PaceInv, Read, Own
<1>6. /\ Event(c).rproc = "socket_connected" =>
           Opening(mode, Event(c), Own(c), Own(c).rx, Waits(g.timers, c))
      /\ Event(c).rproc = "socket_readable" =>
           Using(mode, g.conn[c], Event(c), Own(c), Own(c).rx, Waits(g.timers, c))
  BY <1>1, <1>5, PacedIs DEF Own, Event
<1> QED BY <1>2, <1>3, <1>4, <1>6 DEF ReadProcs

(* Where no last response is, every response that is due can be told.      *)
LEMMA TallyWhole ==
  ASSUME NEW q \in Seq(Bytes)
  PROVE  /\ Ends(q) \in Nat /\ Ends(q) <= Tally(q, Marks)
         /\ ~(Tally(q, Closing) > 0) => Ends(q) = Tally(q, Marks)
         /\ q = <<>> => Tally(q, Marks) = 0
<1>1. Ends(q) = Tally(q, Whole)
  BY DEF Ends, Tally, Whole
<1>2. Whole \subseteq Marks
  BY DEF Whole, Marks
<1>3. /\ Tally(q, Marks) \in Nat /\ Tally(q, Whole) \in Nat /\ Tally(q, Whole) <= Tally(q, Marks)
      /\ \A i \in DOMAIN q : q[i] \in Closing => Tally(q, Closing) > 0
  BY <1>2, TallyType
<1>4. ASSUME ~(Tally(q, Closing) > 0)
      PROVE  Tally(q, Whole) = Tally(q, Marks)
  <2>1. \A i \in DOMAIN q : q[i] \in Marks <=> q[i] \in Whole
    BY <1>3, <1>4 DEF Marks, Closing, Whole
  <2>2. {i \in DOMAIN q : q[i] \in Marks} = {i \in DOMAIN q : q[i] \in Whole}
    BY <2>1
  <2> QED BY <2>2 DEF Tally
<1> QED BY <1>1, <1>3, <1>4, TallyEmpty

(* Requests and responses stay in step: whatever wrk has written, read,    *)
(* delayed or replaced, at every step what a server still has to answer    *)
(* and wrk to read of a connection is what is pending (wrk.c:342-349,      *)
(* 393-399, 422-448).                                                      *)
THEOREM InStepSafe ==
  ASSUME NoTimerLost
  PROVE  Spec => []InStep
<1>1. LoopInv /\ PaceInv => InStep
  <2> SUFFICES ASSUME LoopInv, PaceInv, ReplacedInTime, NEW c \in Live, Connected(c)
               PROVE  LET s == Own(c)
                          n == IF W \in Event(c).mask THEN 0 ELSE g.conn[c].pending
                      IN  /\ s.got = g.conn[c].written
                          /\ Outstanding(s) <= n
                          /\ Outstanding(s) = n \/ s.ends \/ s.fin
    BY DEF InStep
  <2> DEFINE o == Own(c)
             v == g.conn[c]
             e == Event(c)
             n == IF W \in e.mask THEN 0 ELSE v.pending
  <2>1. v \in ConnType /\ o \in SockType /\ Linked(mode, v, e.mask, o, o.rx)
    BY LiveIs DEF Connected, Using
  <2> HIDE DEF o, v, e
  <2>2. /\ o.rx \in Seq(Bytes) /\ o.todo \in Seq(Bytes) /\ o.owe \in Int /\ o.owe >= 0
        /\ v.pending \in Int /\ n \in Int
    BY <2>1 DEF SockType, ConnType, Linked, Owing
  <2>3. /\ Due(v, o, o.rx) \in Nat
        /\ o.owe + Tally(o.rx, Marks) + Tally(o.todo, Marks) <= Due(v, o, o.rx)
    BY <2>1, <2>2, DueType
  <2>4. /\ Ends(o.rx) \in Nat /\ Ends(o.rx) <= Tally(o.rx, Marks)
        /\ ~(Tally(o.rx, Closing) > 0) => Ends(o.rx) = Tally(o.rx, Marks)
        /\ Ends(o.todo) \in Nat /\ Ends(o.todo) <= Tally(o.todo, Marks)
        /\ ~(Tally(o.todo, Closing) > 0) => Ends(o.todo) = Tally(o.todo, Marks)
        /\ Tally(o.rx, Marks) \in Nat /\ Tally(o.todo, Marks) \in Nat
    BY <2>2, TallyWhole, TallyType
  <2>5. Outstanding(o) <= Due(v, o, o.rx) /\ Outstanding(o) \in Nat
    BY <2>2, <2>3, <2>4 DEF Outstanding
  <2>6. Due(v, o, o.rx) <= n /\ (W \in e.mask \/ v.pending = Due(v, o, o.rx) \/ o.ends \/ o.fin)
    BY <2>1 DEF Linked, Owing
  <2> HIDE DEF n
  <2>7. Outstanding(o) <= n
    BY <2>2, <2>3, <2>5, <2>6
  <2>8. ASSUME ~o.ends, ~o.fin
        PROVE  Outstanding(o) = n
    <3>1. CASE W \in e.mask
      BY <2>5, <2>7, <3>1 DEF n
    <3>2. CASE W \notin e.mask
      <4>1. ~Final(v, o, o.rx)
        BY <2>1, <2>8 DEF Linked, Ending
      <4>2. Due(v, o, o.rx) = o.owe + Tally(o.rx, Marks) + Tally(o.todo, Marks) + 0
        BY <4>1 DEF Final, Due
      <4>3. Outstanding(o) = o.owe + Tally(o.rx, Marks) + Tally(o.todo, Marks)
        BY <2>4, <4>1 DEF Final, Outstanding
      <4>4. n = Due(v, o, o.rx)
        BY <2>6, <2>8, <3>2 DEF n
      <4> QED BY <2>2, <2>4, <4>2, <4>3, <4>4
    <3> QED BY <3>1, <3>2
  <2>9. o.got = v.written
    BY <2>1 DEF Linked, Written
  <2> QED BY <2>7, <2>8, <2>9 DEF n, o, v, e
<1> QED BY <1>1, LoopInvariant, PaceInvariant, PTL

(* No connection waits for nothing: at every step one of them that has a   *)
(* socket is being connected, has something to write, is delayed, or there *)
(* is a response or an end for it to read (wrk.c:236-448).                 *)
THEOREM NeverIdleSafe ==
  ASSUME NoTimerLost
  PROVE  Spec => []NeverIdle
<1>1. LoopInv /\ PaceInv => NeverIdle
  <2> SUFFICES ASSUME LoopInv, PaceInv, ReplacedInTime, NEW c \in Live, W \notin Event(c).mask
               PROVE  \/ \E i \in DOMAIN g.timers :
                           g.timers[i].proc = "delay_request" /\ g.timers[i].data = c
                      \/ /\ R \in Event(c).mask
                         /\ \/ Own(c).st = "failed" \/ Own(c).fin \/ Own(c).ends
                            \/ Own(c).owe > 0 \/ Own(c).rx \o Own(c).todo # <<>>
    BY DEF NeverIdle
  <2> DEFINE o == Own(c)
             v == g.conn[c]
             e == Event(c)
  <2>1. /\ v \in ConnType /\ o \in SockType /\ o.st # "closed" /\ R \in e.mask
        /\ Using(mode, v, e, o, o.rx, Waits(g.timers, c))
    BY LiveIs DEF Opening
  <2>2. CASE Waits(g.timers, c)
    BY <2>2 DEF Waits
  <2>3. CASE ~Waits(g.timers, c)
    <3> HIDE DEF o, v, e
    <3> SUFFICES ASSUME o.st # "failed", ~o.fin, ~o.ends, ~(o.owe > 0)
                 PROVE  o.rx \o o.todo # <<>>
      BY <2>1 DEF o, e
    <3>1. o.st = "up" /\ W \notin e.mask /\ ~v.delayed
      BY <2>1, <2>3 DEF Using, SockType, e
    <3>2. Linked(mode, v, e.mask, o, o.rx)
      BY <2>1, <3>1 DEF Using
    <3>3. /\ v.pending > 0 /\ v.pending = Due(v, o, o.rx) /\ o.owe >= 0
          /\ ~Final(v, o, o.rx)
      BY <3>1, <3>2 DEF Linked, Written, Owing, Ending
    <3>4. o.rx \in Seq(Bytes) /\ o.todo \in Seq(Bytes) /\ o.owe \in Int
      BY <2>1 DEF SockType
    <3>5. Due(v, o, o.rx) = o.owe + Tally(o.rx, Marks) + Tally(o.todo, Marks) + 0
      BY <3>3 DEF Final, Due
    <3>6. /\ o.rx = <<>> => Tally(o.rx, Marks) = 0
          /\ o.todo = <<>> => Tally(o.todo, Marks) = 0
      BY <3>4, TallyWhole
    <3>7. o.rx # <<>> \/ o.todo # <<>>
      <4> DEFINE x == Tally(o.rx, Marks)
                 y == Tally(o.todo, Marks)
      <4>1. x # 0 \/ y # 0
        <5> HIDE DEF x, y
        <5>1. o.owe = 0
          BY <3>3, <3>4
        <5>2. o.owe + x + y + 0 > 0
          BY <3>3, <3>5 DEF x, y
        <5> QED BY <5>1, <5>2
      <4> QED BY <3>6, <4>1
    <3> DEFINE a == o.rx
               b == o.todo
    <3> HIDE DEF a, b
    <3>8. a \in Seq(Bytes) /\ b \in Seq(Bytes) /\ (a # <<>> \/ b # <<>>)
      BY <3>4, <3>7 DEF a, b
    <3>9. a \o b # <<>>
      BY <3>8
    <3> QED BY <3>9 DEF a, b
  <2> QED BY <2>2, <2>3
<1> QED BY <1>1, LoopInvariant, PaceInvariant, PTL
=============================================================================
