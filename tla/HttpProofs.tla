----------------------------- MODULE HttpProofs -----------------------------
(***************************************************************************)
(* Proofs about a worker and its clients, for any number of connections,   *)
(* any clients, and any sizes of buffers and files.                        *)
(***************************************************************************)
EXTENDS HttpServe, SequenceTheorems, TLAPS

USE HttpAssumption, ServeAssumption DEF HttpAssumption, ServeAssumption

-----------------------------------------------------------------------------
(* Helpers of the model.                                                   *)

LEMMA MinTwo ==
  ASSUME NEW a \in Int, NEW b \in Int
  PROVE  Min({a, b}) = IF a <= b THEN a ELSE b
BY DEF Min

LEMMA MinThree ==
  ASSUME NEW a \in Int, NEW b \in Int, NEW d \in Int
  PROVE  /\ Min({a, b, d}) \in {a, b, d}
         /\ Min({a, b, d}) <= a /\ Min({a, b, d}) <= b /\ Min({a, b, d}) <= d
BY DEF Min

(* The front of a sequence.                                                *)
LEMMA Front ==
  ASSUME NEW S, NEW s \in Seq(S), NEW n \in 0 .. Len(s)
  PROVE  /\ SubSeq(s, 1, n) \in Seq(S)
         /\ Len(SubSeq(s, 1, n)) = n
         /\ \A i \in 1 .. n : SubSeq(s, 1, n)[i] = s[i]
OBVIOUS

LEMMA Rest ==
  ASSUME NEW S, NEW s \in Seq(S), NEW n \in 0 .. Len(s)
  PROVE  /\ SubSeq(s, n + 1, Len(s)) \in Seq(S)
         /\ Len(SubSeq(s, n + 1, Len(s))) = Len(s) - n
         /\ \A i \in 1 .. Len(s) - n : SubSeq(s, n + 1, Len(s))[i] = s[i + n]
OBVIOUS

LEMMA Joined ==
  ASSUME NEW S, NEW s \in Seq(S), NEW t \in Seq(S)
  PROVE  /\ s \o t \in Seq(S) /\ Len(s \o t) = Len(s) + Len(t)
         /\ \A i \in 1 .. Len(s) : (s \o t)[i] = s[i]
         /\ \A i \in 1 .. Len(t) : (s \o t)[Len(s) + i] = t[i]
<1>1. /\ s \o t \in Seq(S) /\ Len(s \o t) = Len(s) + Len(t)
      /\ Len(s) \in Nat /\ Len(t) \in Nat
  OBVIOUS
<1>2. \A i \in 1 .. Len(s) : (s \o t)[i] = s[i]
  OBVIOUS
<1>3. \A i \in 1 .. Len(t) : (s \o t)[Len(s) + i] = t[i]
  OBVIOUS
<1> QED BY <1>1, <1>2, <1>3
-----------------------------------------------------------------------------
(* What the responses look like: two units, the first of which starts the  *)
(* response.                                                               *)
Responses == {Bad} \cup {Missing(ka) : ka \in BOOLEAN} \cup {Ok(ka) : ka \in BOOLEAN}

LEMMA ResponseIs ==
  ASSUME NEW r \in Responses
  PROVE  /\ r \in Seq(ResponseUnit) /\ Len(r) = 2
         /\ IsStart(r[1]) /\ ~IsStart(r[2])
<1>1. More \in ResponseUnit /\ More.status = 0
  BY DEF More, ResponseUnit
<1>2. ASSUME NEW u \in ResponseUnit, u.status # 0, r = <<u, More>>
      PROVE  /\ r \in Seq(ResponseUnit) /\ Len(r) = 2
             /\ IsStart(r[1]) /\ ~IsStart(r[2])
  BY <1>1, <1>2 DEF IsStart
<1>3. ASSUME NEW st \in {200, 400, 404}, NEW ka \in BOOLEAN, NEW len \in 0 .. 1 + FileLen,
             r = <<Start(st, ka, len), More>>
      PROVE  /\ r \in Seq(ResponseUnit) /\ Len(r) = 2
             /\ IsStart(r[1]) /\ ~IsStart(r[2])
  <2>1. Start(st, ka, len) \in ResponseUnit /\ Start(st, ka, len).status # 0
    BY DEF Start, ResponseUnit
  <2> QED BY <1>2, <1>3, <2>1
<1>4. 1 \in 0 .. 1 + FileLen /\ 1 + FileLen \in 0 .. 1 + FileLen
  OBVIOUS
<1>5. CASE r = Bad
  <2>1. PICK ka \in BOOLEAN : r = <<Start(400, ka, 1), More>>
    BY <1>5 DEF Bad
  <2> QED BY <1>3, <1>4, <2>1
<1>6. ASSUME NEW ka \in BOOLEAN, r = Missing(ka)
      PROVE  /\ r \in Seq(ResponseUnit) /\ Len(r) = 2
             /\ IsStart(r[1]) /\ ~IsStart(r[2])
  BY <1>3, <1>4, <1>6 DEF Missing
<1>7. ASSUME NEW ka \in BOOLEAN, r = Ok(ka)
      PROVE  /\ r \in Seq(ResponseUnit) /\ Len(r) = 2
             /\ IsStart(r[1]) /\ ~IsStart(r[2])
  BY <1>3, <1>4, <1>7 DEF Ok
<1> QED BY <1>5, <1>6, <1>7 DEF Responses
-----------------------------------------------------------------------------
(* The branches of handle_read, by what becomes of the connection: it is   *)
(* dropped without an answer, waits for more bytes, is closed behind the   *)
(* answer r to a request k, or gets its file.                              *)
Dropped(c) ==
  /\ live' = live \ {c} /\ UNCHANGED <<wrote, job, faults>>
  /\ UNCHANGED <<stream, rbuf>> \/ Read(c)
Waits(c) == Request(c, "more") /\ UNCHANGED <<live, wrote, job, faults>>
Suits(k, r) ==
  \/ k = "post" /\ r = Bad /\ UNCHANGED faults
  \/ k = "missing" /\ r = Missing(TRUE) /\ UNCHANGED faults
  \/ k \in {"get", "close"} /\ r = Missing(k = "get") /\ Fault
  \/ k \in {"get", "close"} /\ r = Ok(k = "get") /\ UNCHANGED faults
Refused(c, k, r) ==
  /\ Request(c, k) /\ Suits(k, r) /\ Write(c, r)
  /\ live' = live \ {c} /\ UNCHANGED job
Served(c, k) ==
  /\ k \in {"get", "close"} /\ Request(c, k)
  /\ Write(c, Ok(k = "get")) /\ Written(c, Ok(k = "get")) = 2
  /\ job' = [conn |-> c, ka |-> k = "get", remain |-> FileLen, file |-> FileLen]
  /\ UNCHANGED <<live, faults>>

LEMMA SuitsIs ==
  ASSUME NEW k, NEW r, Suits(k, r)
  PROVE  r \in Responses /\ k \in AllKinds /\ k # "more"
BY DEF Suits, Responses, AllKinds

LEMMA ReadCases ==
  ASSUME HandleRead
  PROVE  /\ job = NoJob /\ UNCHANGED <<mode, clientVars, rcvd, stale>>
         /\ \E e \in batch :
              /\ ~e.hup /\ batch' = batch \ {e}
              /\ \/ Dropped(e.conn) \/ Waits(e.conn)
                 \/ \E k, r : Refused(e.conn, k, r)
                 \/ \E k : Served(e.conn, k)
<1>1. PICK e \in batch :
        /\ ~e.hup /\ batch' = batch \ {e}
        /\ \/ ReadFails(e.conn) \/ TooLong(e.conn) \/ NeedMore(e.conn)
           \/ NotGet(e.conn) \/ NotFound(e.conn) \/ Get(e.conn)
  BY DEF HandleRead, Handled
<1>2. CASE ReadFails(e.conn) \/ TooLong(e.conn)
  BY <1>1, <1>2 DEF HandleRead, ReadFails, TooLong, Dropped, ConnClose
<1>3. CASE NeedMore(e.conn)
  BY <1>1, <1>3 DEF HandleRead, NeedMore, Waits
<1>4. CASE NotGet(e.conn)
  <2>1. Refused(e.conn, "post", Bad)
    BY <1>4 DEF NotGet, Refused, Suits, ConnClose
  <2> QED BY <1>1, <2>1 DEF HandleRead
<1>5. CASE NotFound(e.conn)
  <2>1. \E k, r : Refused(e.conn, k, r)
    BY <1>5 DEF NotFound, Refused, Suits, ConnClose
  <2> QED BY <1>1, <2>1 DEF HandleRead
<1>6. CASE Get(e.conn)
  <2>1. PICK k \in {"get", "close"} :
          /\ Request(e.conn, k) /\ Write(e.conn, Ok(k = "get"))
          /\ IF HeaderSent(e.conn, Ok(k = "get"))
             THEN /\ job' = [conn |-> e.conn, ka |-> k = "get", remain |-> FileLen,
                             file |-> FileLen]
                  /\ UNCHANGED live
             ELSE ConnClose(e.conn) /\ UNCHANGED job
    BY <1>6 DEF Get
  <2>2. UNCHANGED faults
    BY <1>6 DEF Get
  <2>3. CASE HeaderSent(e.conn, Ok(k = "get"))
    <3>1. Len(Ok(k = "get")) = 2
      BY DEF Ok
    <3>2. Served(e.conn, k)
      BY <2>1, <2>2, <2>3, <3>1 DEF Served, HeaderSent
    <3> QED BY <1>1, <3>2 DEF HandleRead
  <2>4. CASE ~HeaderSent(e.conn, Ok(k = "get"))
    <3>1. Refused(e.conn, k, Ok(k = "get"))
      BY <2>1, <2>2, <2>4 DEF Refused, Suits, ConnClose
    <3> QED BY <1>1, <3>1 DEF HandleRead
  <2> QED BY <2>3, <2>4
<1> QED BY <1>1, <1>2, <1>3, <1>4, <1>5, <1>6
-----------------------------------------------------------------------------
(* A client never reads what was not written, and no more is written than  *)
(* the send buffer takes.                                                  *)
Bounded ==
  \A c \in Conns : rcvd[c] <= Len(wrote[c]) /\ Len(wrote[c]) - rcvd[c] <= SndBuf

(* What a read leaves.                                                     *)
LEMMA ReadIs ==
  ASSUME TypeOK, NEW c \in Conns, Read(c)
  PROVE  /\ stream' \in [Conns -> Seq(Unit)] /\ rbuf' \in [Conns -> Seq(Unit)]
         /\ Taken(c) \in 1 .. Len(stream[c]) /\ Taken(c) <= RecvBuf - Len(rbuf[c]) - 1
         /\ Buffer(c) = rbuf[c] \o SubSeq(stream[c], 1, Taken(c))
         /\ Buffer(c) \in Seq(Unit)
         /\ Len(Buffer(c)) = Len(rbuf[c]) + Taken(c)
         /\ rbuf'[c] = Buffer(c)
         /\ stream'[c] = SubSeq(stream[c], Taken(c) + 1, Len(stream[c]))
         /\ \A d \in Conns \ {c} : rbuf'[d] = rbuf[d] /\ stream'[d] = stream[d]
<1>1. /\ stream \in [Conns -> Seq(Unit)] /\ rbuf \in [Conns -> Seq(Unit)]
      /\ stream[c] \in Seq(Unit) /\ rbuf[c] \in Seq(Unit)
  BY DEF TypeOK
<1>2. /\ Taken(c) > 0
      /\ stream' = [stream EXCEPT ![c] = SubSeq(@, Taken(c) + 1, Len(@))]
      /\ rbuf' = [rbuf EXCEPT ![c] = Buffer(c)]
  BY DEF Read
<1>3. /\ Len(stream[c]) \in Nat /\ RecvBuf - Len(rbuf[c]) - 1 \in Int
      /\ Taken(c) = Min({Len(stream[c]), RecvBuf - Len(rbuf[c]) - 1})
  BY <1>1 DEF Taken
<1>4. Taken(c) \in 1 .. Len(stream[c]) /\ Taken(c) <= RecvBuf - Len(rbuf[c]) - 1
  <2> HIDE DEF Taken
  <2> QED BY <1>2, <1>3, MinTwo
<1>5. Buffer(c) = rbuf[c] \o SubSeq(stream[c], 1, Taken(c))
  BY DEF Buffer
<1>6. /\ SubSeq(stream[c], 1, Taken(c)) \in Seq(Unit)
      /\ Len(SubSeq(stream[c], 1, Taken(c))) = Taken(c)
  BY <1>1, <1>4, Front
<1>7. Buffer(c) \in Seq(Unit) /\ Len(Buffer(c)) = Len(rbuf[c]) + Taken(c)
  BY <1>1, <1>5, <1>6
<1>8. SubSeq(stream[c], Taken(c) + 1, Len(stream[c])) \in Seq(Unit)
  BY <1>1, <1>4, Rest
<1> HIDE DEF Taken, Buffer
<1> QED BY <1>1, <1>2, <1>4, <1>5, <1>7, <1>8

(* What a write of a response leaves.                                      *)
LEMMA WriteIs ==
  ASSUME TypeOK, Bounded, NEW c \in Conns, NEW r \in Responses, Write(c, r)
  PROVE  /\ wrote' \in [Conns -> Seq(ResponseUnit)]
         /\ Written(c, r) \in 0 .. 2 /\ Written(c, r) <= SndBuf - (Len(wrote[c]) - rcvd[c])
         /\ Len(wrote'[c]) = Len(wrote[c]) + Written(c, r)
         /\ \A i \in 1 .. Len(wrote[c]) : wrote'[c][i] = wrote[c][i]
         /\ \A i \in 1 .. Written(c, r) : wrote'[c][Len(wrote[c]) + i] = r[i]
         /\ \A d \in Conns \ {c} : wrote'[d] = wrote[d]
<1>1. r \in Seq(ResponseUnit) /\ Len(r) = 2
  BY ResponseIs
<1>2. /\ wrote \in [Conns -> Seq(ResponseUnit)] /\ wrote[c] \in Seq(ResponseUnit)
      /\ Len(wrote[c]) \in Nat /\ rcvd[c] \in Nat
  BY DEF TypeOK
<1>3. Free(c) = SndBuf - (Len(wrote[c]) - rcvd[c]) /\ Free(c) \in Nat
  BY <1>2 DEF Bounded, Free
<1>4. Written(c, r) \in 0 .. 2 /\ Written(c, r) <= Free(c)
  <2>1. /\ Len(r) \in Int /\ Free(c) \in Int /\ Len(r) = 2
        /\ Written(c, r) = IF gone[c] = "closed" THEN 0 ELSE Min({Len(r), Free(c)})
    BY <1>1, <1>3 DEF Written
  <2>2. Min({Len(r), Free(c)}) = IF Len(r) <= Free(c) THEN Len(r) ELSE Free(c)
    BY <2>1, MinTwo
  <2> HIDE DEF Written, Free
  <2> QED BY <1>3, <2>1, <2>2
<1>5. wrote' = [wrote EXCEPT ![c] = @ \o SubSeq(r, 1, Written(c, r))]
  BY DEF Write
<1> HIDE DEF Written
<1>6. /\ SubSeq(r, 1, Written(c, r)) \in Seq(ResponseUnit)
      /\ Len(SubSeq(r, 1, Written(c, r))) = Written(c, r)
      /\ \A i \in 1 .. Written(c, r) : SubSeq(r, 1, Written(c, r))[i] = r[i]
  BY <1>1, <1>4, Front
<1> DEFINE front == SubSeq(r, 1, Written(c, r))
<1> HIDE DEF front
<1>7. wrote'[c] = wrote[c] \o front /\ \A d \in Conns \ {c} : wrote'[d] = wrote[d]
  BY <1>2, <1>5 DEF front
<1>8. /\ wrote[c] \o front \in Seq(ResponseUnit)
      /\ Len(wrote[c] \o front) = Len(wrote[c]) + Written(c, r)
      /\ \A i \in 1 .. Len(wrote[c]) : (wrote[c] \o front)[i] = wrote[c][i]
      /\ \A i \in 1 .. Written(c, r) : (wrote[c] \o front)[Len(wrote[c]) + i] = r[i]
  BY <1>2, <1>6, Joined DEF front
<1>9. wrote' \in [Conns -> Seq(ResponseUnit)]
  BY <1>2, <1>5, <1>8 DEF front
<1> QED BY <1>3, <1>4, <1>7, <1>8, <1>9

(* Where responses start after a write, and after a chunk of the file.     *)
LEMMA WriteStarts ==
  ASSUME TypeOK, Bounded, NEW c \in Conns, NEW r \in Responses, Write(c, r)
  PROVE  /\ Starts(wrote'[c]) = Starts(wrote[c]) \cup
                (IF Written(c, r) = 0 THEN {} ELSE {Len(wrote[c]) + 1})
         /\ Starts(wrote[c]) \subseteq 1 .. Len(wrote[c])
         /\ \A i \in Starts(wrote[c]) : wrote'[c][i] = wrote[c][i]
         /\ Written(c, r) # 0 => wrote'[c][Len(wrote[c]) + 1] = r[1]
         /\ \A d \in Conns \ {c} : wrote'[d] = wrote[d]
<1> DEFINE m == Written(c, r)
           w == wrote[c]
<1>1. /\ wrote'[c] \in Seq(ResponseUnit) /\ w \in Seq(ResponseUnit)
      /\ m \in 0 .. 2 /\ Len(wrote'[c]) = Len(w) + m
      /\ \A i \in 1 .. Len(w) : wrote'[c][i] = w[i]
      /\ \A i \in 1 .. m : wrote'[c][Len(w) + i] = r[i]
      /\ \A d \in Conns \ {c} : wrote'[d] = wrote[d]
  BY WriteIs DEF TypeOK
<1>2. IsStart(r[1]) /\ ~IsStart(r[2])
  BY ResponseIs
<1> HIDE DEF m, w
<1>3. \A i \in 1 .. Len(w) + m : i \in 1 .. Len(w) \/ (i = Len(w) + 1 /\ m # 0)
                                  \/ (i = Len(w) + 2 /\ m = 2)
  BY <1>1
<1>4. DOMAIN w = 1 .. Len(w) /\ DOMAIN wrote'[c] = 1 .. Len(w) + m
  BY <1>1
<1>5. m # 0 => wrote'[c][Len(w) + 1] = r[1] /\ Len(w) + 1 \in 1 .. Len(w) + m
  BY <1>1
<1>6. m = 2 => wrote'[c][Len(w) + 2] = r[2]
  BY <1>1
<1>7. 1 .. Len(w) \subseteq 1 .. Len(w) + m
  BY <1>1
<1>8. Starts(wrote'[c]) = Starts(w) \cup (IF m = 0 THEN {} ELSE {Len(w) + 1})
  <2>1. ASSUME NEW i \in Starts(wrote'[c])
        PROVE  i \in Starts(w) \cup (IF m = 0 THEN {} ELSE {Len(w) + 1})
    BY <1>1, <1>2, <1>3, <1>4, <1>5, <1>6 DEF Starts
  <2>2. ASSUME NEW i \in Starts(w) \cup (IF m = 0 THEN {} ELSE {Len(w) + 1})
        PROVE  i \in Starts(wrote'[c])
    BY <1>1, <1>2, <1>4, <1>5, <1>7 DEF Starts
  <2> QED BY <2>1, <2>2
<1> QED BY <1>1, <1>4, <1>5, <1>8 DEF Starts, m, w

(* What a chunk of the file leaves.                                        *)
LEMMA ChunkIs ==
  ASSUME TypeOK, Bounded, SendFile
  PROVE  /\ job \in Job /\ gone[job.conn] # "closed"
         /\ job' \in Job /\ job'.conn = job.conn /\ job'.ka = job.ka
         /\ \E n \in 1 .. job.remain :
              /\ n <= SndBuf - (Len(wrote[job.conn]) - rcvd[job.conn])
              /\ job'.remain = job.remain - n
              /\ Len(wrote'[job.conn]) = Len(wrote[job.conn]) + n
         /\ wrote' \in [Conns -> Seq(ResponseUnit)]
         /\ Starts(wrote'[job.conn]) = Starts(wrote[job.conn])
         /\ \A i \in Starts(wrote[job.conn]) :
              wrote'[job.conn][i] = wrote[job.conn][i]
         /\ \A d \in Conns \ {job.conn} : wrote'[d] = wrote[d]
<1>1. job \in Job /\ gone[job.conn] # "closed"
  BY DEF SendFile, TypeOK
<1> DEFINE c == job.conn
<1>2. /\ c \in Conns /\ job.remain \in Nat /\ job.file \in Nat
      /\ wrote[c] \in Seq(ResponseUnit) /\ Len(wrote[c]) \in Nat /\ rcvd[c] \in Nat
      /\ wrote \in [Conns -> Seq(ResponseUnit)]
  BY <1>1 DEF Job, TypeOK
<1>3. PICK n \in Chunk :
        /\ wrote' = [wrote EXCEPT ![c] = @ \o [i \in 1 .. n |-> More]]
        /\ job' = [job EXCEPT !.remain = @ - n, !.file = @ - n]
  BY DEF SendFile
<1>4. n \in 1 .. job.remain /\ n <= job.file /\ n <= Free(c)
  <2>1. job.remain \in Int /\ job.file \in Int /\ Free(c) \in Int
    BY <1>2 DEF Free
  <2> HIDE DEF c, Free
  <2>2. LET least == Min({job.remain, job.file, Free(c)})
        IN  least \in Int /\ least <= job.remain /\ least <= job.file /\ least <= Free(c)
    BY <2>1, MinThree
  <2>3. n \in 1 .. Min({job.remain, job.file, Free(c)})
    BY <1>3 DEF Chunk, c
  <2> QED BY <1>2, <2>1, <2>2, <2>3
<1> DEFINE chunk == [i \in 1 .. n |-> More]
<1>5. /\ chunk \in Seq(ResponseUnit) /\ Len(chunk) = n
      /\ \A i \in 1 .. n : chunk[i] = More
  <2>1. More \in ResponseUnit
    BY DEF More, ResponseUnit
  <2> QED BY <1>2, <1>4, <2>1
<1> HIDE DEF chunk
<1>6. wrote'[c] = wrote[c] \o chunk /\ \A d \in Conns \ {c} : wrote'[d] = wrote[d]
  BY <1>2, <1>3 DEF chunk
<1>7. /\ wrote'[c] \in Seq(ResponseUnit) /\ Len(wrote'[c]) = Len(wrote[c]) + n
      /\ \A i \in 1 .. Len(wrote[c]) : wrote'[c][i] = wrote[c][i]
      /\ \A i \in 1 .. n : wrote'[c][Len(wrote[c]) + i] = More
  <2> DEFINE w == wrote[c]
  <2>1. w \in Seq(ResponseUnit)
    BY <1>2
  <2> HIDE DEF w
  <2>2. /\ w \o chunk \in Seq(ResponseUnit) /\ Len(w \o chunk) = Len(w) + n
        /\ \A i \in 1 .. Len(w) : (w \o chunk)[i] = w[i]
        /\ \A i \in 1 .. n : (w \o chunk)[Len(w) + i] = More
    <3>1. chunk \in Seq(ResponseUnit) /\ Len(chunk) = n
      BY <1>5
    <3>2. w \o chunk \in Seq(ResponseUnit) /\ Len(w \o chunk) = Len(w) + n
      BY <2>1, <3>1
    <3>3. \A i \in 1 .. Len(w) : (w \o chunk)[i] = w[i]
      BY <2>1, <3>1
    <3>4. ASSUME NEW i \in 1 .. n
          PROVE  (w \o chunk)[Len(w) + i] = More
      <4>1. (w \o chunk)[Len(w) + i] = chunk[i]
        BY <2>1, <3>1
      <4> QED BY <1>5, <4>1
    <3> QED BY <3>2, <3>3, <3>4
  <2> QED BY <1>6, <2>2 DEF w
<1>8. wrote' \in [Conns -> Seq(ResponseUnit)]
  BY <1>2, <1>3, <1>5, <1>6, <1>7 DEF chunk
<1> HIDE DEF c
<1>9. Starts(wrote'[c]) = Starts(wrote[c])
  <2>1. DOMAIN wrote[c] = 1 .. Len(wrote[c]) /\ DOMAIN wrote'[c] = 1 .. Len(wrote[c]) + n
    BY <1>2, <1>7
  <2>2. ~IsStart(More)
    BY DEF IsStart, More
  <2>3. ASSUME NEW i \in 1 .. Len(wrote[c]) + n
        PROVE  i \in 1 .. Len(wrote[c]) \/ wrote'[c][i] = More
    <3>1. CASE i > Len(wrote[c])
      <4>1. i - Len(wrote[c]) \in 1 .. n /\ i = Len(wrote[c]) + (i - Len(wrote[c]))
        BY <1>2, <1>4, <3>1
      <4> QED BY <1>7, <4>1
    <3> QED BY <1>2, <3>1
  <2>4. 1 .. Len(wrote[c]) \subseteq 1 .. Len(wrote[c]) + n
    BY <1>2, <1>4
  <2> QED BY <1>7, <2>1, <2>2, <2>3, <2>4 DEF Starts
<1>10. \A i \in Starts(wrote[c]) : wrote'[c][i] = wrote[c][i]
  BY <1>2, <1>7 DEF Starts
<1>11. job' = [conn |-> job.conn, ka |-> job.ka, remain |-> job.remain - n,
               file |-> job.file - n]
  BY <1>1, <1>3 DEF Job
<1>12. job' \in Job
  <2>1. /\ job.remain \in 0 .. FileLen /\ job.file \in 0 .. FileLen
        /\ job.conn \in Conns /\ job.ka \in BOOLEAN
    BY <1>1 DEF Job
  <2>2. job.remain - n \in 0 .. FileLen /\ job.file - n \in 0 .. FileLen
    BY <1>4, <2>1
  <2> QED BY <1>11, <2>1, <2>2 DEF Job
<1> QED BY <1>1, <1>4, <1>6, <1>7, <1>8, <1>9, <1>10, <1>11, <1>12 DEF c, Free
LEMMA TruncateIs ==
  ASSUME TypeOK, Truncate
  PROVE  job' \in Job /\ job'.conn = job.conn /\ job'.ka = job.ka /\ job'.remain = job.remain
<1>1. job \in Job
  BY DEF Truncate, TypeOK
<1>2. PICK n \in 0 .. job.file - 1 : job' = [job EXCEPT !.file = n]
  BY DEF Truncate
<1>3. n \in 0 .. FileLen
  BY <1>1, <1>2 DEF Job
<1> QED BY <1>1, <1>2, <1>3 DEF Job

LEMMA ServedIs ==
  ASSUME NEW c \in Conns, NEW k, Served(c, k)
  PROVE  job' \in Job /\ job'.conn = c /\ job'.ka = (k = "get") /\ job'.remain = FileLen
<1>1. job' = [conn |-> c, ka |-> k = "get", remain |-> FileLen, file |-> FileLen]
  BY DEF Served
<1>2. FileLen \in 0 .. FileLen /\ (k = "get") \in BOOLEAN
  OBVIOUS
<1> QED BY <1>1, <1>2 DEF Job
-----------------------------------------------------------------------------
(* The types, and the bounds they need: the inductive core.                *)
LEMMA TypeInit == Init => TypeOK /\ Bounded
<1> SUFFICES ASSUME Init PROVE TypeOK /\ Bounded
  OBVIOUS
<1>1. mode \in Mode
  BY DEF Init
<1>2. mode.conns \subseteq Conns
  BY <1>1 DEF Mode
<1>3. TypeOK
  BY <1>1, <1>2 DEF Init, TypeOK
<1>4. Bounded
  BY DEF Init, Bounded
<1> QED BY <1>3, <1>4

LEMMA TypeStep == TypeOK /\ Bounded /\ [Next]_vars => TypeOK' /\ Bounded'
<1> SUFFICES ASSUME TypeOK, Bounded, [Next]_vars PROVE TypeOK' /\ Bounded'
  OBVIOUS
<1>1. CASE UNCHANGED vars
  BY <1>1 DEF vars, clientVars, connVars, TypeOK, Bounded
<1>2. CASE Poll
  <2>1. batch' \subseteq [conn : Conns, hup : BOOLEAN]
    <3>1. ASSUME NEW b \in batch'
          PROVE  b \in [conn : Conns, hup : BOOLEAN]
      <4>1. PICK d \in live : b = [conn |-> d, hup |-> gone[d] # "no"]
        BY <1>2 DEF Poll
      <4>2. d \in Conns /\ (gone[d] # "no") \in BOOLEAN
        BY DEF TypeOK
      <4> QED BY <4>1, <4>2
    <3> QED BY <3>1
  <2> QED BY <1>2, <2>1 DEF Poll, clientVars, connVars, TypeOK, Bounded
<1>3. CASE HandleHup
  BY <1>3 DEF HandleHup, ConnClose, Handled, clientVars, TypeOK, Bounded
<1>4. CASE HandleRead
  <2>1. PICK e \in batch :
          /\ batch' = batch \ {e}
          /\ \/ Dropped(e.conn) \/ Waits(e.conn)
             \/ \E k, r : Refused(e.conn, k, r)
             \/ \E k : Served(e.conn, k)
    BY <1>4, ReadCases
  <2>2. UNCHANGED <<mode, asked, sent, gone, rcvd, stale>> /\ job = NoJob
    BY <1>4, ReadCases DEF clientVars
  <2> DEFINE c == e.conn
  <2>3. c \in Conns /\ batch' \subseteq [conn : Conns, hup : BOOLEAN]
    BY <2>1 DEF TypeOK
  <2>4. \/ UNCHANGED <<stream, rbuf>>
        \/ stream' \in [Conns -> Seq(Unit)] /\ rbuf' \in [Conns -> Seq(Unit)]
    <3>1. UNCHANGED <<stream, rbuf>> \/ Read(c)
      BY <2>1 DEF Dropped, Waits, Refused, Served, Request
    <3> QED BY <2>3, <3>1, ReadIs
  <2>5. live' \subseteq Conns /\ job' \in Job \cup {NoJob} /\ faults' \in 0 .. MaxFaults
    <3>1. live' \subseteq Conns
      BY <2>1 DEF Dropped, Waits, Refused, Served, TypeOK
    <3>2. job' \in Job \cup {NoJob}
      <4>1. ASSUME NEW k, Served(c, k)
            PROVE  job' \in Job
        BY <2>3, <4>1, ServedIs
      <4>2. Dropped(c) \/ Waits(c) \/ (\E k, r : Refused(c, k, r)) => UNCHANGED job
        BY DEF Dropped, Waits, Refused
      <4> QED BY <2>1, <2>2, <4>1, <4>2
    <3>3. faults' \in 0 .. MaxFaults
      <4>1. UNCHANGED faults \/ Fault
        BY <2>1 DEF Dropped, Waits, Refused, Suits, Served
      <4> QED BY <4>1 DEF Fault, TypeOK
    <3> QED BY <3>1, <3>2, <3>3
  <2>6. CASE UNCHANGED wrote
    BY <2>2, <2>3, <2>4, <2>5, <2>6 DEF TypeOK, Bounded
  <2>7. ASSUME NEW r \in Responses, Write(c, r)
        PROVE  TypeOK' /\ Bounded'
    <3>1. /\ wrote' \in [Conns -> Seq(ResponseUnit)]
          /\ Written(c, r) \in 0 .. 2 /\ Written(c, r) <= SndBuf - (Len(wrote[c]) - rcvd[c])
          /\ Len(wrote'[c]) = Len(wrote[c]) + Written(c, r)
          /\ \A d \in Conns \ {c} : wrote'[d] = wrote[d]
      BY <2>3, <2>7, WriteIs
    <3>2. TypeOK'
      BY <2>2, <2>3, <2>4, <2>5, <3>1 DEF TypeOK
    <3> HIDE DEF Written, c
    <3>3. rcvd[c] \in Nat /\ Len(wrote[c]) \in Nat /\ rcvd[c] <= Len(wrote[c])
      BY <2>3 DEF TypeOK, Bounded
    <3>4. rcvd'[c] <= Len(wrote'[c]) /\ Len(wrote'[c]) - rcvd'[c] <= SndBuf
      BY <2>2, <3>1, <3>3
    <3>5. \A d \in Conns \ {c} :
            rcvd'[d] <= Len(wrote'[d]) /\ Len(wrote'[d]) - rcvd'[d] <= SndBuf
      BY <2>2, <3>1 DEF Bounded
    <3> QED BY <3>2, <3>4, <3>5 DEF Bounded
  <2>8. UNCHANGED wrote \/ \E r \in Responses : Write(c, r)
    <3>1. ASSUME NEW k, Served(c, k)
          PROVE  \E r \in Responses : Write(c, r)
      BY <3>1 DEF Served, Responses
    <3>2. ASSUME NEW k, NEW r, Refused(c, k, r)
          PROVE  \E q \in Responses : Write(c, q)
      BY <3>2, SuitsIs DEF Refused
    <3>3. Dropped(c) \/ Waits(c) => UNCHANGED wrote
      BY DEF Dropped, Waits
    <3> QED BY <2>1, <3>1, <3>2, <3>3
  <2> QED BY <2>6, <2>7, <2>8
<1>5. CASE SendFile
  <2>1. /\ job \in Job /\ job' \in Job
        /\ \E n \in 1 .. job.remain :
              /\ n <= SndBuf - (Len(wrote[job.conn]) - rcvd[job.conn])
              /\ Len(wrote'[job.conn]) = Len(wrote[job.conn]) + n
        /\ wrote' \in [Conns -> Seq(ResponseUnit)]
        /\ \A d \in Conns \ {job.conn} : wrote'[d] = wrote[d]
    BY <1>5, ChunkIs
  <2>2. PICK n \in 1 .. job.remain :
              /\ n <= SndBuf - (Len(wrote[job.conn]) - rcvd[job.conn])
              /\ Len(wrote'[job.conn]) = Len(wrote[job.conn]) + n
    BY <2>1
  <2>3. UNCHANGED <<mode, clientVars, stream, rcvd, connVars, batch, faults>>
    BY <1>5 DEF SendFile
  <2>5. TypeOK'
    BY <2>1, <2>3 DEF clientVars, connVars, TypeOK
  <2> DEFINE c == job.conn
  <2>6. c \in Conns
    BY <2>1 DEF Job
  <2>7. rcvd[c] \in Nat /\ Len(wrote[c]) \in Nat /\ rcvd[c] <= Len(wrote[c])
    BY <2>6 DEF TypeOK, Bounded
  <2>8. n \in Nat /\ n <= SndBuf - (Len(wrote[c]) - rcvd[c]) /\ Len(wrote'[c]) = Len(wrote[c]) + n
    <3>1. job.remain \in Nat
      BY <2>1 DEF Job
    <3> QED BY <2>2, <3>1
  <2>9. \A d \in Conns \ {c} : wrote'[d] = wrote[d]
    BY <2>1
  <2> HIDE DEF c
  <2>10. rcvd[c] <= Len(wrote'[c]) /\ Len(wrote'[c]) - rcvd[c] <= SndBuf
    BY <2>7, <2>8
  <2>11. Bounded'
    BY <2>3, <2>9, <2>10 DEF Bounded
  <2> QED BY <2>5, <2>11
<1>6. CASE SendFails
  BY <1>6 DEF SendFails, ConnClose, clientVars, TypeOK, Bounded
<1>7. CASE Finish
  <2>1. job \in Job /\ job.conn \in Conns
    BY <1>7 DEF Finish, TypeOK, Job
  <2>2. rbuf' \in [Conns -> Seq(Unit)] /\ stale' \in [Conns -> BOOLEAN]
    BY <1>7, <2>1 DEF Finish, Remains, TypeOK
  <2>3. live' \subseteq Conns /\ job' = NoJob
    BY <1>7 DEF Finish, ConnClose, TypeOK
  <2> QED BY <1>7, <2>2, <2>3 DEF Finish, clientVars, TypeOK, Bounded
<1>8. CASE Truncate
  <2>1. job' \in Job
    BY <1>8, TruncateIs
  <2>2. UNCHANGED <<mode, clientVars, stream, rcvd, connVars, wrote, batch>>
    BY <1>8 DEF Truncate
  <2>3. faults' \in 0 .. MaxFaults
    BY <1>8 DEF Truncate, Fault, TypeOK
  <2> QED BY <2>1, <2>2, <2>3 DEF clientVars, connVars, TypeOK, Bounded
<1>9. ASSUME NEW c \in Conns, Send(c)
      PROVE  TypeOK' /\ Bounded'
  <2>1. PICK u \in Unit :
          /\ u[1] \in mode.kinds
          /\ stream' = [stream EXCEPT ![c] = Append(@, u)]
          /\ sent' = [sent EXCEPT ![c] = IF Last(u) THEN <<>> ELSE u]
          /\ asked' = [asked EXCEPT ![c] = IF Last(u) THEN Append(@, u[1]) ELSE @]
    BY <1>9 DEF Send
  <2>2. u[1] \in AllKinds
    BY DEF Unit
  <2>3. stream' \in [Conns -> Seq(Unit)]
    BY <2>1 DEF TypeOK
  <2>4. sent' \in [Conns -> {<<>>} \cup Unit]
    BY <2>1 DEF TypeOK
  <2>5. asked' \in [Conns -> Seq(AllKinds)]
    BY <2>1, <2>2 DEF TypeOK
  <2> QED BY <1>9, <2>3, <2>4, <2>5 DEF Send, connVars, TypeOK, Bounded
<1>10. ASSUME NEW c \in Conns, Receive(c)
       PROVE  TypeOK' /\ Bounded'
  <2>1. wrote[c] \in Seq(ResponseUnit) /\ Len(wrote[c]) \in Nat
    BY DEF TypeOK
  <2>2. rcvd' = [rcvd EXCEPT ![c] = Len(wrote[c])] /\ UNCHANGED wrote
    BY <1>10 DEF Receive
  <2>3. TypeOK'
    BY <1>10, <2>1, <2>2 DEF Receive, clientVars, connVars, TypeOK
  <2>4. Bounded'
    BY <2>1, <2>2 DEF TypeOK, Bounded
  <2> QED BY <2>3, <2>4
<1>11. ASSUME NEW c \in Conns, Leave(c)
       PROVE  TypeOK' /\ Bounded'
  BY <1>11 DEF Leave, Fault, connVars, TypeOK, Bounded
<1>12. mode.conns \subseteq Conns
  BY DEF TypeOK, Mode
<1> QED BY <1>1, <1>2, <1>3, <1>4, <1>5, <1>6, <1>7, <1>8, <1>9, <1>10, <1>11, <1>12
        DEF Next, WorkerStep
-----------------------------------------------------------------------------
(* The connections.  The batch has one event of each, and the connection a *)
(* file is being sent on is open.                                          *)
LiveConns == live \subseteq mode.conns
BatchOnce == \A e, f \in batch : e.conn = f.conn => e = f
JobLive   == job # NoJob => job.conn \in live
ConnInv   == LiveConns /\ BatchOnce /\ JobLive /\ EventsLive

LEMMA ConnInit == Init => ConnInv
BY DEF Init, ConnInv, LiveConns, BatchOnce, JobLive, EventsLive

LEMMA ConnStep == TypeOK /\ Bounded /\ ConnInv /\ [Next]_vars => ConnInv'
<1> SUFFICES ASSUME TypeOK, Bounded, ConnInv, [Next]_vars PROVE ConnInv'
  OBVIOUS
<1> USE DEF ConnInv, LiveConns, BatchOnce, JobLive, EventsLive, Sending
<1>1. CASE UNCHANGED vars
  BY <1>1 DEF vars, clientVars, connVars
<1>2. CASE Poll
  <2>1. \A b \in batch' : b.conn \in live /\ b = [conn |-> b.conn, hup |-> gone[b.conn] # "no"]
    BY <1>2 DEF Poll
  <2> QED BY <1>2, <2>1 DEF Poll, clientVars, connVars
<1>3. CASE HandleHup
  <2>1. PICK e \in batch : live' = live \ {e.conn} /\ batch' = batch \ {e}
    BY <1>3 DEF HandleHup, ConnClose, Handled
  <2>2. job = NoJob /\ UNCHANGED <<mode, job>>
    BY <1>3 DEF HandleHup
  <2> QED BY <2>1, <2>2
<1>4. CASE HandleRead
  <2>1. PICK e \in batch :
          /\ batch' = batch \ {e}
          /\ \/ Dropped(e.conn) \/ Waits(e.conn)
             \/ \E k, r : Refused(e.conn, k, r)
             \/ \E k : Served(e.conn, k)
    BY <1>4, ReadCases
  <2>2. job = NoJob /\ UNCHANGED mode
    BY <1>4, ReadCases
  <2>3. live' = live \ {e.conn} \/ live' = live
    BY <2>1 DEF Dropped, Waits, Refused, Served
  <2>4. job' = NoJob \/ (job' # NoJob /\ job'.conn = e.conn /\ live' = live)
    <3>1. Dropped(e.conn) \/ Waits(e.conn) \/ (\E k, r : Refused(e.conn, k, r)) => job' = NoJob
      BY <2>2 DEF Dropped, Waits, Refused
    <3>2. ASSUME NEW k, Served(e.conn, k)
          PROVE  job' = NoJob \/ (job'.conn = e.conn /\ live' = live)
      BY <3>2, ServedIs DEF Served, TypeOK
    <3> QED BY <2>1, <3>1, <3>2
  <2> QED BY <2>1, <2>2, <2>3, <2>4
<1>5. CASE SendFile
  BY <1>5, ChunkIs DEF SendFile, connVars
<1>6. CASE SendFails
  BY <1>6 DEF SendFails, ConnClose, clientVars
<1>7. CASE Finish
  <2>1. job # NoJob /\ job' = NoJob /\ UNCHANGED <<mode, batch>>
        /\ (live' = live \/ live' = live \ {job.conn})
    BY <1>7 DEF Finish, ConnClose
  <2> QED BY <2>1
<1>8. CASE Truncate
  BY <1>8, TruncateIs DEF Truncate, connVars
<1>9. ASSUME NEW c \in Conns, Send(c) \/ Receive(c) \/ Leave(c)
      PROVE  ConnInv'
  BY <1>9 DEF Send, Receive, Leave, connVars, clientVars
<1>10. mode.conns \subseteq Conns
  BY DEF TypeOK, Mode
<1> QED BY <1>1, <1>2, <1>3, <1>4, <1>5, <1>6, <1>7, <1>8, <1>9, <1>10 DEF Next, WorkerStep
-----------------------------------------------------------------------------
(* The buffer.  Only a connection that is kept has to have room, and full  *)
(* buffers are refused before anything else is made of them.               *)
LEMMA BufferInit == Init => BufferBound
<1> SUFFICES ASSUME Init PROVE BufferBound
  OBVIOUS
<1>1. live \subseteq Conns
  BY DEF Init, Mode
<1>2. \A c \in Conns : rbuf[c] = <<>>
  BY DEF Init
<1>3. Len(<<>>) < RecvBuf - 1
  OBVIOUS
<1> QED BY <1>1, <1>2, <1>3 DEF BufferBound

LEMMA BufferStep ==
  TypeOK /\ Bounded /\ ConnInv /\ BufferBound /\ [Next]_vars => BufferBound'
<1> SUFFICES ASSUME TypeOK, Bounded, ConnInv, BufferBound, [Next]_vars PROVE BufferBound'
  OBVIOUS
<1>1. CASE UNCHANGED <<live, rbuf>>
  BY <1>1 DEF BufferBound
<1>2. CASE HandleHup
  BY <1>2 DEF HandleHup, ConnClose, BufferBound
<1>3. CASE HandleRead
  <2>1. PICK e \in batch :
          \/ Dropped(e.conn) \/ Waits(e.conn)
          \/ \E k, r : Refused(e.conn, k, r)
          \/ \E k : Served(e.conn, k)
    BY <1>3, ReadCases
  <2> DEFINE c == e.conn
  <2>2. c \in Conns /\ live \subseteq Conns
    BY <2>1 DEF TypeOK
  <2>3. UNCHANGED rbuf \/ Read(c)
    BY <2>1 DEF Dropped, Waits, Refused, Served, Request
  <2>4. \A d \in Conns \ {c} : rbuf'[d] = rbuf[d]
    BY <2>2, <2>3, ReadIs
  <2>5. CASE live' = live \ {c}
    BY <2>2, <2>4, <2>5 DEF BufferBound
  <2>6. CASE live' = live /\ \E k : Request(c, k)
    <3>1. Read(c) /\ ~Full(Buffer(c))
      BY <2>6 DEF Request
    <3>2. rbuf'[c] = Buffer(c) /\ Buffer(c) \in Seq(Unit)
      BY <2>2, <3>1, ReadIs
    <3> HIDE DEF c
    <3>3. Len(rbuf'[c]) < RecvBuf - 1
      BY <3>1, <3>2 DEF Full
    <3> QED BY <2>2, <2>4, <2>6, <3>3 DEF BufferBound
  <2> QED BY <2>1, <2>5, <2>6 DEF Dropped, Waits, Refused, Served
<1>4. CASE SendFails
  BY <1>4 DEF SendFails, ConnClose, BufferBound
<1>5. CASE Finish
  <2>1. job.conn \in Conns /\ live \subseteq Conns
    BY <1>5 DEF Finish, TypeOK, Job
  <2>2. \A d \in Conns : rbuf'[d] = IF d = job.conn THEN <<>> ELSE rbuf[d]
    BY <1>5, <2>1 DEF Finish, Remains, TypeOK
  <2>3. live' \subseteq live
    BY <1>5 DEF Finish, ConnClose
  <2>4. Len(<<>>) < RecvBuf - 1
    OBVIOUS
  <2> QED BY <2>1, <2>2, <2>3, <2>4 DEF BufferBound
<1>6. Poll \/ SendFile \/ Truncate \/ (\E c \in Conns : Send(c) \/ Receive(c) \/ Leave(c))
        => UNCHANGED <<live, rbuf>>
  BY DEF Poll, SendFile, Truncate, Send, Receive, Leave, connVars
<1>7. mode.conns \subseteq Conns
  BY DEF TypeOK, Mode
<1> QED BY <1>1, <1>2, <1>3, <1>4, <1>5, <1>6, <1>7 DEF Next, WorkerStep, vars, connVars
-----------------------------------------------------------------------------
(* The responses.  On an open connection nothing is missing of any, except *)
(* of the one whose file is being sent: of that, what job says remains.    *)
Apart(w) == \A i, j \in Starts(w) : i < j => i + w[i].len < j
Whole(w) == \A i \in Starts(w) : i + w[i].len <= Len(w)
Cut(w)   == \E l \in Starts(w) :
              /\ \A i \in Starts(w) : i <= l
              /\ l + w[l].len = Len(w) + job.remain
FramingOf(c) ==
  /\ Apart(wrote[c])
  /\ c \in live /\ ~Sending(c) => Whole(wrote[c])
  /\ Sending(c) => Cut(wrote[c])
Framing == \A c \in Conns : FramingOf(c)

(* The facts about positions that make the arithmetic below go through.    *)
LEMMA StartTypes ==
  ASSUME NEW w \in Seq(ResponseUnit), NEW i \in Starts(w)
  PROVE  i \in 1 .. Len(w) /\ w[i] \in ResponseUnit /\ w[i].len \in 0 .. FileLen + 1
<1>1. i \in 1 .. Len(w)
  BY DEF Starts
<1>2. w[i] \in ResponseUnit
  BY <1>1
<1> QED BY <1>1, <1>2 DEF ResponseUnit

LEMMA FramingInit == Init => Framing
BY DEF Init, Framing, FramingOf, Apart, Whole, Starts, Sending

(* A response follows whole ones.                                          *)
LEMMA FramingWrite ==
  ASSUME TypeOK, Bounded, NEW c \in Conns, NEW r \in Responses, Write(c, r),
         Apart(wrote[c]), Whole(wrote[c])
  PROVE  /\ Apart(wrote'[c])
         /\ Written(c, r) = 2 =>
              LET l == Len(wrote[c]) + 1
              IN  /\ l \in Starts(wrote'[c]) /\ wrote'[c][l] = r[1]
                  /\ \A i \in Starts(wrote'[c]) : i <= l
                  /\ Len(wrote'[c]) = l + 1
<1> DEFINE w == wrote[c]
           v == wrote'[c]
           l == Len(w) + 1
<1>1. /\ Starts(v) = Starts(w) \cup (IF Written(c, r) = 0 THEN {} ELSE {l})
      /\ \A i \in Starts(w) : v[i] = w[i]
      /\ Written(c, r) # 0 => v[l] = r[1]
  BY WriteStarts
<1>2. w \in Seq(ResponseUnit) /\ Len(v) = Len(w) + Written(c, r) /\ Written(c, r) \in 0 .. 2
  BY WriteIs DEF TypeOK
<1>3. Apart(w) /\ Whole(w)
  OBVIOUS
<1> HIDE DEF w, v
<1>4. \A i \in Starts(w) : i \in Int /\ i <= Len(w) /\ w[i].len \in Int
  BY <1>2, StartTypes
<1>5. Apart(v)
  <2> SUFFICES ASSUME NEW i \in Starts(v), NEW j \in Starts(v), i < j
               PROVE  i + v[i].len < j
    BY DEF Apart
  <2>1. CASE i \in Starts(w) /\ j \in Starts(w)
    BY <1>1, <1>3, <2>1 DEF Apart
  <2>2. CASE i \in Starts(w) /\ j = l
    <3>1. i + w[i].len <= Len(w) /\ v[i] = w[i]
      BY <1>1, <1>3, <2>2 DEF Whole
    <3>2. i \in Int /\ w[i].len \in Int /\ Len(w) \in Int /\ j = Len(w) + 1
      <4>1. i \in Starts(w) /\ j = l
        BY <2>2
      <4>2. i \in Int /\ w[i].len \in Int
        BY <1>4, <4>1
      <4>3. Len(w) \in Int
        BY <1>2
      <4> QED BY <4>1, <4>2, <4>3
    <3> QED BY <3>1, <3>2
  <2>3. CASE i = l
    <3>1. j \in Starts(w) \/ j = l
      BY <1>1
    <3> QED BY <1>2, <1>4, <2>3, <3>1
  <2> QED BY <1>1, <2>1, <2>2, <2>3
<1>6. ASSUME Written(c, r) = 2
      PROVE  /\ l \in Starts(v) /\ v[l] = r[1]
             /\ \A i \in Starts(v) : i <= l
             /\ Len(v) = l + 1
  <2>1. l \in Starts(v) /\ v[l] = r[1] /\ Starts(v) = Starts(w) \cup {l}
    BY <1>1, <1>6
  <2>2. \A i \in Starts(v) : i <= l
    BY <1>2, <1>4, <2>1
  <2>3. Len(v) = l + 1
    BY <1>2, <1>6
  <2> QED BY <2>1, <2>2, <2>3
<1> QED BY <1>5, <1>6 DEF w, v

LEMMA FramingStep ==
  TypeOK /\ Bounded /\ ConnInv /\ Framing /\ [Next]_vars => Framing'
<1> SUFFICES ASSUME TypeOK, Bounded, ConnInv, Framing, [Next]_vars PROVE Framing'
  OBVIOUS
<1> USE DEF Sending
<1>1. CASE UNCHANGED <<wrote, live, job>>
  BY <1>1 DEF Framing, FramingOf, Apart, Whole, Cut
<1>2. CASE HandleHup
  BY <1>2 DEF HandleHup, ConnClose, Framing, FramingOf, Cut
<1>3. CASE HandleRead
  <2>1. PICK e \in batch :
          \/ Dropped(e.conn) \/ Waits(e.conn)
          \/ \E k, r : Refused(e.conn, k, r)
          \/ \E k : Served(e.conn, k)
    BY <1>3, ReadCases
  <2>2. job = NoJob
    BY <1>3, ReadCases
  <2> DEFINE c == e.conn
  <2>3. c \in live /\ c \in Conns
    BY <2>1 DEF ConnInv, EventsLive, TypeOK
  <2>4. Apart(wrote[c]) /\ Whole(wrote[c])
    BY <2>2, <2>3 DEF Framing, FramingOf
  <2>5. CASE Dropped(c) \/ Waits(c)
    BY <2>2, <2>5 DEF Dropped, Waits, Framing, FramingOf, Cut
  <2>6. ASSUME NEW k, NEW r, Refused(c, k, r)
        PROVE  Framing'
    <3>1. r \in Responses /\ Write(c, r) /\ live' = live \ {c} /\ UNCHANGED job
      BY <2>6, SuitsIs DEF Refused
    <3>2. Apart(wrote'[c]) /\ \A d \in Conns \ {c} : wrote'[d] = wrote[d]
      BY <2>3, <2>4, <3>1, FramingWrite, WriteIs
    <3> QED BY <2>2, <3>1, <3>2 DEF Framing, FramingOf
  <2>7. ASSUME NEW k, Served(c, k)
        PROVE  Framing'
    <3> DEFINE r == Ok(k = "get")
    <3>1. /\ r \in Responses /\ Write(c, r) /\ UNCHANGED live /\ Written(c, r) = 2
          /\ job'.remain = FileLen /\ job'.conn = c
      BY <2>3, <2>7, ServedIs DEF Served, Responses
    <3>2. \A d \in Conns \ {c} : wrote'[d] = wrote[d]
      BY <2>3, <3>1, WriteIs
    <3>3. r[1].len = 1 + FileLen
      BY DEF Ok, Start
    <3> HIDE DEF r
    <3> DEFINE l == Len(wrote[c]) + 1
    <3>4. /\ Apart(wrote'[c]) /\ l \in Starts(wrote'[c]) /\ wrote'[c][l] = r[1]
          /\ \A i \in Starts(wrote'[c]) : i <= l
          /\ Len(wrote'[c]) = l + 1
      BY <2>3, <2>4, <3>1, FramingWrite
    <3>5. l + wrote'[c][l].len = Len(wrote'[c]) + job'.remain
      <4>1. l \in Int
        BY <2>3 DEF TypeOK
      <4> HIDE DEF l, c
      <4> QED BY <3>1, <3>3, <3>4, <4>1
    <3>6. Cut(wrote[c])'
      <4> HIDE DEF l, c
      <4> QED BY <3>4, <3>5 DEF Cut, c
    <3>7. job' # NoJob
      BY <2>3, <2>7, ServedIs
    <3>8. FramingOf(c)'
      BY <3>1, <3>4, <3>6, <3>7 DEF FramingOf
    <3>9. ASSUME NEW d \in Conns \ {c} PROVE FramingOf(d)'
      BY <2>2, <3>1, <3>2 DEF Framing, FramingOf
    <3> QED BY <3>8, <3>9 DEF Framing
  <2> QED BY <2>1, <2>5, <2>6, <2>7
<1>4. CASE SendFile
  <2>0. PICK c \in Conns : c = job.conn
    BY <1>4, ChunkIs DEF Job
  <2>1. /\ job \in Job /\ job' \in Job /\ job'.conn = c
        /\ \E n \in 1 .. job.remain :
              /\ job'.remain = job.remain - n
              /\ Len(wrote'[c]) = Len(wrote[c]) + n
        /\ Starts(wrote'[c]) = Starts(wrote[c])
        /\ \A i \in Starts(wrote[c]) : wrote'[c][i] = wrote[c][i]
        /\ \A d \in Conns \ {c} : wrote'[d] = wrote[d]
    BY <1>4, <2>0, ChunkIs
  <2>2. PICK n \in 1 .. job.remain :
              /\ job'.remain = job.remain - n
              /\ Len(wrote'[c]) = Len(wrote[c]) + n
    BY <2>1
  <2>3. c \in Conns /\ n \in Int /\ job.remain \in Int
    BY <2>1 DEF Job
  <2>4. wrote[c] \in Seq(ResponseUnit) /\ Len(wrote[c]) \in Int
    BY <2>3 DEF TypeOK
  <2>5. job # NoJob /\ job' # NoJob /\ UNCHANGED live
    BY <1>4, <2>1 DEF SendFile, connVars
  <2>6. Apart(wrote[c]) /\ Cut(wrote[c])
    BY <2>0, <2>5 DEF Framing, FramingOf
  <2>7. FramingOf(c)'
    <3>1. Apart(wrote'[c])
      BY <2>1, <2>6 DEF Apart
    <3>2. Cut(wrote[c])'
      <4>1. PICK l \in Starts(wrote[c]) :
              /\ \A i \in Starts(wrote[c]) : i <= l
              /\ l + wrote[c][l].len = Len(wrote[c]) + job.remain
        BY <2>6 DEF Cut
      <4>2. l + wrote'[c][l].len = Len(wrote'[c]) + job'.remain
        <5>1. l \in Int /\ wrote[c][l].len \in Int
          BY <2>4, <4>1, StartTypes
        <5>2. wrote'[c][l].len = wrote[c][l].len
          BY <2>1, <4>1
        <5> QED BY <2>2, <2>3, <2>4, <4>1, <5>1, <5>2
      <4> QED BY <2>1, <4>1, <4>2 DEF Cut
    <3> QED BY <2>1, <2>5, <3>1, <3>2 DEF FramingOf
  <2>8. ASSUME NEW d \in Conns \ {c} PROVE FramingOf(d)'
    BY <2>0, <2>1, <2>5 DEF Framing, FramingOf
  <2> QED BY <2>7, <2>8 DEF Framing
<1>5. CASE SendFails
  BY <1>5 DEF SendFails, ConnClose, Framing, FramingOf
<1>6. CASE Finish
  <2>1. /\ job # NoJob /\ job.remain = 0 /\ job' = NoJob /\ UNCHANGED wrote
        /\ live' \subseteq live
    BY <1>6 DEF Finish, ConnClose
  <2>2. PICK c \in Conns : c = job.conn
    BY <2>1 DEF TypeOK, Job
  <2>3. wrote[c] \in Seq(ResponseUnit)
    BY <2>2 DEF TypeOK
  <2>4. Apart(wrote[c]) /\ Cut(wrote[c])
    BY <2>1, <2>2 DEF Framing, FramingOf
  <2>5. Whole(wrote[c])
    <3> DEFINE w == wrote[c]
    <3>1. PICK l \in Starts(w) : (\A i \in Starts(w) : i <= l) /\ l + w[l].len = Len(w) + 0
      BY <2>1, <2>4 DEF Cut
    <3> HIDE DEF w
    <3>2. w \in Seq(ResponseUnit) /\ Apart(w)
      BY <2>3, <2>4 DEF w
    <3> SUFFICES ASSUME NEW i \in Starts(w) PROVE i + w[i].len <= Len(w)
      BY DEF Whole, w
    <3>3. /\ i \in Int /\ w[i].len \in Int /\ l \in Int /\ w[l].len \in Int
          /\ i <= l /\ l <= Len(w) /\ Len(w) \in Int
      BY <3>1, <3>2, StartTypes
    <3>4. CASE i = l
      BY <3>1, <3>3, <3>4
    <3>5. CASE i # l
      <4>1. i < l
        BY <3>3, <3>5
      <4>2. i + w[i].len < l
        BY <3>2, <4>1 DEF Apart
      <4> QED BY <3>3, <4>2
    <3> QED BY <3>4, <3>5
  <2>6. FramingOf(c)'
    BY <2>1, <2>4, <2>5 DEF FramingOf
  <2>7. ASSUME NEW d \in Conns \ {c} PROVE FramingOf(d)'
    BY <2>1, <2>2 DEF Framing, FramingOf
  <2> QED BY <2>6, <2>7 DEF Framing
<1>7. CASE Truncate
  <2>1. job # NoJob /\ UNCHANGED <<wrote, live>>
    BY <1>7 DEF Truncate, connVars
  <2>2. job' \in Job /\ job'.conn = job.conn /\ job'.remain = job.remain
    BY <1>7, TruncateIs
  <2> QED BY <2>1, <2>2 DEF Framing, FramingOf, Cut
<1>8. Poll \/ (\E c \in Conns : Send(c) \/ Receive(c) \/ Leave(c)) => UNCHANGED <<wrote, live, job>>
  BY DEF Poll, Send, Receive, Leave, connVars
<1>9. mode.conns \subseteq Conns
  BY DEF TypeOK, Mode
<1> QED BY <1>1, <1>2, <1>3, <1>4, <1>5, <1>6, <1>7, <1>8, <1>9
        DEF Next, WorkerStep, vars, connVars
-----------------------------------------------------------------------------
(* "Connection: close".                                                    *)
LEMMA CloseInit == Init => CloseHonoured
<1> SUFFICES ASSUME Init PROVE CloseHonoured
  OBVIOUS
<1>1. \A c \in live : Starts(wrote[c]) = {}
  BY DEF Init, Mode, Starts
<1> QED BY <1>1 DEF CloseHonoured

LEMMA CloseStep ==
  TypeOK /\ Bounded /\ ConnInv /\ CloseHonoured /\ [Next]_vars => CloseHonoured'
<1> SUFFICES ASSUME TypeOK, Bounded, ConnInv, CloseHonoured, [Next]_vars PROVE CloseHonoured'
  OBVIOUS
<1> USE DEF Sending
<1>1. CASE UNCHANGED <<wrote, live, job>>
  BY <1>1 DEF CloseHonoured
<1>2. CASE HandleHup
  BY <1>2 DEF HandleHup, ConnClose, CloseHonoured
<1>3. CASE HandleRead
  <2>1. PICK e \in batch :
          \/ Dropped(e.conn) \/ Waits(e.conn)
          \/ \E k, r : Refused(e.conn, k, r)
          \/ \E k : Served(e.conn, k)
    BY <1>3, ReadCases
  <2>2. job = NoJob
    BY <1>3, ReadCases
  <2> DEFINE c == e.conn
  <2>3. c \in live /\ c \in Conns /\ live \subseteq Conns
    BY <2>1 DEF ConnInv, EventsLive, TypeOK
  <2>4. CASE Dropped(c) \/ Waits(c)
    BY <2>2, <2>4 DEF Dropped, Waits, CloseHonoured
  <2>5. ASSUME NEW k, NEW r, Refused(c, k, r)
        PROVE  CloseHonoured'
    <3>1. r \in Responses /\ Write(c, r) /\ live' = live \ {c} /\ UNCHANGED job
      BY <2>5, SuitsIs DEF Refused
    <3>2. \A d \in Conns \ {c} : wrote'[d] = wrote[d]
      BY <2>3, <3>1, WriteIs
    <3> QED BY <2>2, <2>3, <3>1, <3>2 DEF CloseHonoured
  <2>6. ASSUME NEW k, Served(c, k)
        PROVE  CloseHonoured'
    <3> DEFINE r == Ok(k = "get")
               l == Len(wrote[c]) + 1
    <3>1. r \in Responses /\ Write(c, r) /\ UNCHANGED live /\ Written(c, r) = 2
      BY <2>6 DEF Served, Responses
    <3>2. job' # NoJob /\ job'.conn = c /\ job'.ka = (k = "get")
      BY <2>3, <2>6, ServedIs
    <3>3. r[1].ka = (k = "get")
      BY DEF Ok, Start
    <3> HIDE DEF r
    <3>4. /\ Starts(wrote'[c]) = Starts(wrote[c]) \cup {l}
          /\ \A i \in Starts(wrote[c]) : wrote'[c][i] = wrote[c][i]
          /\ wrote'[c][l] = r[1]
          /\ \A d \in Conns \ {c} : wrote'[d] = wrote[d]
      <4>1. /\ Starts(wrote'[c]) = Starts(wrote[c]) \cup
                    (IF Written(c, r) = 0 THEN {} ELSE {l})
            /\ \A i \in Starts(wrote[c]) : wrote'[c][i] = wrote[c][i]
            /\ Written(c, r) # 0 => wrote'[c][l] = r[1]
            /\ \A d \in Conns \ {c} : wrote'[d] = wrote[d]
        BY <2>3, <3>1, WriteStarts
      <4>2. Written(c, r) # 0
        BY <3>1
      <4> QED BY <4>1, <4>2
    <3> HIDE DEF l, c
    <3>5. \A i \in Starts(wrote[c]) : wrote[c][i].ka
      BY <2>2, <2>3 DEF CloseHonoured
    <3>6. \A i \in Starts(wrote'[c]) : ~wrote'[c][i].ka => ~job'.ka
      BY <3>2, <3>3, <3>4, <3>5
    <3> QED BY <2>2, <2>3, <3>1, <3>2, <3>4, <3>6 DEF CloseHonoured
  <2> QED BY <2>1, <2>4, <2>5, <2>6
<1>4. CASE SendFile
  <2>1. PICK c \in Conns : c = job.conn
    BY <1>4, ChunkIs DEF Job
  <2>2. /\ job' \in Job /\ job'.conn = c /\ job'.ka = job.ka
        /\ Starts(wrote'[c]) = Starts(wrote[c])
        /\ \A i \in Starts(wrote[c]) : wrote'[c][i] = wrote[c][i]
        /\ \A d \in Conns \ {c} : wrote'[d] = wrote[d]
    BY <1>4, <2>1, ChunkIs
  <2>3. UNCHANGED live /\ job # NoJob /\ job' # NoJob /\ live \subseteq Conns
    BY <1>4, <2>2 DEF SendFile, connVars, TypeOK
  <2> QED BY <2>1, <2>2, <2>3 DEF CloseHonoured
<1>5. CASE SendFails
  BY <1>5 DEF SendFails, ConnClose, CloseHonoured
<1>6. CASE Finish
  <2>1. /\ job # NoJob /\ job' = NoJob /\ UNCHANGED wrote
        /\ IF job.ka THEN UNCHANGED live ELSE live' = live \ {job.conn}
    BY <1>6 DEF Finish, Kept, ConnClose
  <2> QED BY <2>1 DEF CloseHonoured
<1>7. CASE Truncate
  <2>1. job # NoJob /\ UNCHANGED <<wrote, live>>
    BY <1>7 DEF Truncate, connVars
  <2>2. job' \in Job /\ job'.conn = job.conn /\ job'.ka = job.ka
    BY <1>7, TruncateIs
  <2> QED BY <2>1, <2>2 DEF CloseHonoured
<1>8. Poll \/ (\E c \in Conns : Send(c) \/ Receive(c) \/ Leave(c)) => UNCHANGED <<wrote, live, job>>
  BY DEF Poll, Send, Receive, Leave, connVars
<1>9. mode.conns \subseteq Conns
  BY DEF TypeOK, Mode
<1> QED BY <1>1, <1>2, <1>3, <1>4, <1>5, <1>6, <1>7, <1>8, <1>9
        DEF Next, WorkerStep, vars, connVars
-----------------------------------------------------------------------------
(* The inductive invariant.                                                *)
IInv == TypeOK /\ Bounded /\ ConnInv /\ BufferBound /\ Framing /\ CloseHonoured

LEMMA Inductive == Spec => []IInv
<1>1. Init => IInv
  BY TypeInit, ConnInit, BufferInit, FramingInit, CloseInit DEF IInv
<1>2. IInv /\ [Next]_vars => IInv'
  BY TypeStep, ConnStep, BufferStep, FramingStep, CloseStep DEF IInv
<1> QED BY <1>1, <1>2, PTL DEF Spec

(* Every variable keeps its type, whatever the clients do.                 *)
THEOREM TypeCorrect == Spec => []TypeOK
BY Inductive, PTL DEF IInv

(* A connection that is kept has room in its buffer, so that the count     *)
(* handle_read gives read() is never 0 and never wraps around.             *)
THEOREM BufferBoundSafe == Spec => []BufferBound
BY Inductive, PTL DEF IInv

(* An event of the batch is never of a connection that handle_read or the  *)
(* HUP branch closed before, nor of the one being sent on.                 *)
THEOREM EventsLiveSafe == Spec => []EventsLive
BY Inductive, PTL DEF IInv, ConnInv

(* A connection carries whole responses, one behind the other; only one    *)
(* whose connection is closed or whose file is being sent may be cut.      *)
THEOREM FramedSafe == Spec => []Framed
<1>1. IInv => Framed
  <2> SUFFICES ASSUME IInv, NEW c \in Conns
               PROVE  /\ \A i, j \in Starts(wrote[c]) : i < j => i + wrote[c][i].len < j
                      /\ Starts(wrote[c]) # Complete(wrote[c]) => c \notin live \/ Sending(c)
    BY DEF Framed
  <2>1. FramingOf(c)
    BY DEF IInv, Framing
  <2> QED BY <2>1 DEF FramingOf, Apart, Whole, Complete
<1> QED BY <1>1, Inductive, PTL

(* A response that announces "Connection: close" is the last one of its    *)
(* connection, and the connection does not outlive it.                     *)
THEOREM CloseHonouredSafe == Spec => []CloseHonoured
BY Inductive, PTL DEF IInv
=============================================================================
