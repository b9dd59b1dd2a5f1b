--------------------------- MODULE HttpRefinement ---------------------------
(***************************************************************************)
(* Proofs that a worker answers what it was asked: that it implements      *)
(* HttpDialogue, and that with clients that wait for each answer the n-th  *)
(* response answers the n-th request.                                      *)
(***************************************************************************)
EXTENDS HttpProofs, FiniteSetTheorems

USE HttpAssumption, ServeAssumption DEF HttpAssumption, ServeAssumption

-----------------------------------------------------------------------------
(* What the worker has not parsed of a connection: it is about to drop     *)
(* what is left in the buffer of the one it is sending on.                 *)
Waiting(c) == IF Sending(c) THEN stream[c] ELSE rbuf[c] \o stream[c]

SameHeads(c) ==
  /\ Starts(wrote[c]) \subseteq Starts(wrote'[c])
  /\ \A i \in Starts(wrote[c]) : wrote'[c][i] = wrote[c][i]

(* What a step can do to one connection: nothing a client could tell,      *)
(* except to close it; a client sends a unit; a response is begun.         *)
Quiet(c) ==
  /\ asked'[c] = asked[c] /\ sent'[c] = sent[c]
  /\ SameHeads(c) /\ Starts(wrote'[c]) = Starts(wrote[c])
  /\ c \in live' => c \in live /\ Waiting(c)' = Waiting(c)

Asks(c) ==
  /\ c \in live /\ c \in live' /\ wrote'[c] = wrote[c]
  /\ \E u \in Unit :
       /\ u[1] \in mode.kinds
       /\ \/ sent[c] = <<>> /\ First(u) /\ Len(asked[c]) - Answers(c) < mode.pipeline
          \/ sent[c] # <<>> /\ u = <<sent[c][1], sent[c][2] + 1>>
       /\ Waiting(c)' = Append(Waiting(c), u)
       /\ sent'[c] = IF Last(u) THEN <<>> ELSE u
       /\ asked'[c] = IF Last(u) THEN Append(asked[c], u[1]) ELSE asked[c]

Begins(c) ==
  /\ asked'[c] = asked[c] /\ sent'[c] = sent[c]
  /\ c \in live
  /\ \E k, r, b, t :
       /\ Suits(k, r) /\ k \in Parsed(b, stale[c])
       /\ b \in Seq(Unit) /\ t \in Seq(Unit) /\ Waiting(c) = b \o t
       /\ c \in live' => Waiting(c)' = t
       /\ wrote'[c][Len(wrote[c]) + 1] = r[1]
       /\ Starts(wrote'[c]) = Starts(wrote[c]) \cup {Len(wrote[c]) + 1}
       /\ SameHeads(c)

(* A read moves bytes from the kernel to the buffer and loses none.        *)
LEMMA ReadKeeps ==
  ASSUME NEW b \in Seq(Unit), NEW s \in Seq(Unit), NEW n \in 0 .. Len(s)
  PROVE  (b \o SubSeq(s, 1, n)) \o SubSeq(s, n + 1, Len(s)) = b \o s
<1> DEFINE front == SubSeq(s, 1, n)
           rest  == SubSeq(s, n + 1, Len(s))
<1>1. front \in Seq(Unit) /\ rest \in Seq(Unit)
  BY Front, Rest
<1>2. front \o rest = s
  <2>1. /\ 1 \in 1 .. Len(s) + 1 /\ n \in 1 - 1 .. Len(s) /\ Len(s) \in n .. Len(s)
    OBVIOUS
  <2>2. front \o rest = SubSeq(s, 1, Len(s))
    BY <2>1, ConcatAdjacentSubSeq
  <2> QED BY <2>2, SubSeqFull
<1> HIDE DEF front, rest
<1>3. (b \o front) \o rest = b \o (front \o rest)
  BY <1>1, ConcatAssociative
<1> QED BY <1>2, <1>3 DEF front, rest

LEMMA ReadWaiting ==
  ASSUME TypeOK, job = NoJob, NEW c \in Conns, Read(c)
  PROVE  /\ Waiting(c) = Buffer(c) \o stream'[c]
         /\ Buffer(c) \in Seq(Unit) /\ stream'[c] \in Seq(Unit)
         /\ rbuf'[c] = Buffer(c)
         /\ \A d \in Conns \ {c} : rbuf'[d] = rbuf[d] /\ stream'[d] = stream[d]
<1>1. /\ Taken(c) \in 1 .. Len(stream[c])
      /\ Buffer(c) = rbuf[c] \o SubSeq(stream[c], 1, Taken(c))
      /\ Buffer(c) \in Seq(Unit) /\ rbuf'[c] = Buffer(c)
      /\ stream' \in [Conns -> Seq(Unit)]
      /\ stream'[c] = SubSeq(stream[c], Taken(c) + 1, Len(stream[c]))
      /\ \A d \in Conns \ {c} : rbuf'[d] = rbuf[d] /\ stream'[d] = stream[d]
  BY ReadIs
<1>2. rbuf[c] \in Seq(Unit) /\ stream[c] \in Seq(Unit) /\ stream'[c] \in Seq(Unit)
  BY <1>1 DEF TypeOK
<1>3. Waiting(c) = rbuf[c] \o stream[c]
  BY DEF Waiting, Sending
<1> HIDE DEF Taken, Buffer
<1>4. Buffer(c) \o stream'[c] = rbuf[c] \o stream[c]
  <2>1. Taken(c) \in 0 .. Len(stream[c])
    BY <1>1, <1>2
  <2> DEFINE b == rbuf[c]
             w == stream[c]
  <2>2. (b \o SubSeq(w, 1, Taken(c))) \o SubSeq(w, Taken(c) + 1, Len(w)) = b \o w
    BY <1>2, <2>1, ReadKeeps
  <2> QED BY <1>1, <2>2
<1> QED BY <1>1, <1>2, <1>3, <1>4

(* A step that leaves alone what Quiet is about, or closes connections.    *)
LEMMA QuietStep ==
  ASSUME NEW c \in Conns,
         UNCHANGED <<asked, sent, wrote, stream>>, live' \subseteq live,
         c \in live' => rbuf'[c] = rbuf[c] /\ (Sending(c) <=> Sending(c)')
  PROVE  Quiet(c)
BY DEF Quiet, SameHeads, Waiting

LEMMA ReadMoves ==
  ASSUME IInv, HandleRead, NEW c \in Conns
  PROVE  Quiet(c) \/ Begins(c)
<1>1. PICK e \in batch :
        \/ Dropped(e.conn) \/ Waits(e.conn)
        \/ \E k, r : Refused(e.conn, k, r)
        \/ \E k : Served(e.conn, k)
  BY ReadCases
<1>2. job = NoJob /\ UNCHANGED <<asked, sent>>
  BY ReadCases DEF clientVars
<1> DEFINE d == e.conn
<1>3. TypeOK /\ Bounded /\ d \in live /\ d \in Conns /\ live \subseteq Conns
  BY <1>1 DEF IInv, ConnInv, EventsLive, TypeOK
<1>4. CASE c # d
  <2>1. rbuf'[c] = rbuf[c] /\ stream'[c] = stream[c]
    <3>1. UNCHANGED <<stream, rbuf>> \/ Read(d)
      BY <1>1 DEF Dropped, Waits, Refused, Served, Request
    <3> QED BY <1>3, <1>4, <3>1, ReadIs
  <2>2. wrote'[c] = wrote[c] /\ (c \in live' => c \in live)
    <3>1. UNCHANGED wrote \/ \E r \in Responses : Write(d, r)
      BY <1>1, SuitsIs DEF Dropped, Waits, Refused, Served, Responses
    <3>2. live' \subseteq live
      BY <1>1 DEF Dropped, Waits, Refused, Served
    <3> QED BY <1>3, <1>4, <3>1, <3>2, WriteIs
  <2>3. ~Sending(c) /\ ~Sending(c)'
    <3>1. job' = NoJob \/ job'.conn = d
      <4>1. ASSUME NEW k, Served(d, k) PROVE job'.conn = d
        BY <1>3, <4>1, ServedIs
      <4> QED BY <1>1, <1>2, <4>1 DEF Dropped, Waits, Refused
    <3> QED BY <1>2, <1>4, <3>1 DEF Sending
  <2> QED BY <1>2, <2>1, <2>2, <2>3 DEF Quiet, SameHeads, Waiting
<1>5. CASE c = d /\ Dropped(c)
  BY <1>2, <1>5 DEF Dropped, Quiet, SameHeads
<1>6. CASE c = d /\ Waits(c)
  <2>1. Read(c) /\ UNCHANGED <<live, wrote, job>>
    BY <1>6 DEF Waits, Request
  <2>2. Waiting(c) = rbuf'[c] \o stream'[c]
    BY <1>2, <1>3, <2>1, ReadWaiting
  <2> QED BY <1>2, <1>3, <1>6, <2>1, <2>2 DEF Quiet, SameHeads, Waiting, Sending
<1>7. ASSUME NEW k, NEW r, c = d, Request(c, k), Suits(k, r), Write(c, r),
             c \in live' => Written(c, r) = 2 /\ Sending(c)'
      PROVE  Quiet(c) \/ Begins(c)
  <2>1. r \in Responses
    BY <1>7, SuitsIs
  <2>2. /\ Starts(wrote'[c]) = Starts(wrote[c]) \cup
                (IF Written(c, r) = 0 THEN {} ELSE {Len(wrote[c]) + 1})
        /\ \A i \in Starts(wrote[c]) : wrote'[c][i] = wrote[c][i]
        /\ Written(c, r) # 0 => wrote'[c][Len(wrote[c]) + 1] = r[1]
    BY <1>3, <1>7, <2>1, WriteStarts
  <2>3. SameHeads(c)
    BY <2>2 DEF SameHeads
  <2>4. CASE Written(c, r) = 0
    <3>1. c \notin live' /\ Starts(wrote'[c]) = Starts(wrote[c])
      BY <1>7, <2>2, <2>4
    <3> QED BY <1>2, <2>3, <3>1 DEF Quiet
  <2>5. CASE Written(c, r) # 0
    <3>1. /\ Waiting(c) = Buffer(c) \o stream'[c]
          /\ Buffer(c) \in Seq(Unit) /\ stream'[c] \in Seq(Unit)
      BY <1>2, <1>3, <1>7, ReadWaiting DEF Request
    <3>2. k \in Parsed(Buffer(c), stale[c])
      BY <1>7 DEF Request
    <3>3. c \in live' => Waiting(c)' = stream'[c]
      BY <1>7 DEF Waiting
    <3>4. /\ Starts(wrote'[c]) = Starts(wrote[c]) \cup {Len(wrote[c]) + 1}
          /\ wrote'[c][Len(wrote[c]) + 1] = r[1]
      BY <2>2, <2>5
    <3> HIDE DEF Buffer
    <3>5. Begins(c)
      BY <1>2, <1>3, <1>7, <2>3, <3>1, <3>2, <3>3, <3>4 DEF Begins
    <3> QED BY <3>5
  <2> QED BY <2>4, <2>5
<1>8. ASSUME NEW k, NEW r, c = d, Refused(c, k, r)
      PROVE  Quiet(c) \/ Begins(c)
  <2>1. Request(c, k) /\ Suits(k, r) /\ Write(c, r) /\ c \notin live'
    BY <1>8 DEF Refused
  <2> QED BY <1>7, <1>8, <2>1
<1>9. ASSUME NEW k, c = d, Served(c, k)
      PROVE  Quiet(c) \/ Begins(c)
  <2>1. /\ Request(c, k) /\ Suits(k, Ok(k = "get")) /\ Write(c, Ok(k = "get"))
        /\ Written(c, Ok(k = "get")) = 2
    BY <1>9 DEF Served, Suits
  <2>2. Sending(c)'
    BY <1>9, ServedIs DEF Sending
  <2> QED BY <1>7, <1>9, <2>1, <2>2
<1> QED BY <1>1, <1>4, <1>5, <1>6, <1>8, <1>9

LEMMA SendMoves ==
  ASSUME IInv, NEW d \in Conns, Send(d), NEW c \in Conns
  PROVE  Quiet(c) \/ Asks(c)
<1>1. d \in live /\ UNCHANGED <<mode, live, rbuf, wrote, job>>
  BY DEF Send, connVars
<1>2. PICK u \in Unit :
           /\ u[1] \in mode.kinds
           /\ \/ sent[d] = <<>> /\ First(u) /\ Len(asked[d]) - Answers(d) < mode.pipeline
              \/ sent[d] # <<>> /\ u = <<sent[d][1], sent[d][2] + 1>>
           /\ stream' = [stream EXCEPT ![d] = Append(@, u)]
           /\ sent' = [sent EXCEPT ![d] = IF Last(u) THEN <<>> ELSE u]
           /\ asked' = [asked EXCEPT ![d] = IF Last(u) THEN Append(@, u[1]) ELSE @]
  BY DEF Send
<1>3. /\ stream \in [Conns -> Seq(Unit)] /\ sent \in [Conns -> {<<>>} \cup Unit]
      /\ asked \in [Conns -> Seq(AllKinds)] /\ rbuf[d] \in Seq(Unit)
  BY DEF IInv, TypeOK
<1>4. CASE c # d
  <2>1. stream'[c] = stream[c] /\ sent'[c] = sent[c] /\ asked'[c] = asked[c]
    BY <1>2, <1>3, <1>4
  <2> QED BY <1>1, <2>1 DEF Quiet, SameHeads, Waiting, Sending
<1>5. CASE c = d
  <2>1. /\ stream'[c] = Append(stream[c], u)
        /\ sent'[c] = IF Last(u) THEN <<>> ELSE u
        /\ asked'[c] = IF Last(u) THEN Append(asked[c], u[1]) ELSE asked[c]
    BY <1>2, <1>3, <1>5
  <2>2. rbuf[c] \o Append(stream[c], u) = Append(rbuf[c] \o stream[c], u)
    <3>1. stream[c] \in Seq(Unit) /\ rbuf[c] \in Seq(Unit) /\ <<u>> \in Seq(Unit)
      BY <1>3, <1>5
    <3>2. rbuf[c] \o stream[c] \in Seq(Unit)
      BY <3>1
    <3> DEFINE b == rbuf[c]
               w == stream[c]
               one == <<u>>
    <3> HIDE DEF b, w, one
    <3>3. Append(w, u) = w \o one /\ Append(b \o w, u) = (b \o w) \o one
      BY <3>1, <3>2, AppendIsConcat DEF b, w, one
    <3>4. b \in Seq(Unit) /\ w \in Seq(Unit) /\ one \in Seq(Unit)
      BY <3>1 DEF b, w, one
    <3>5. (b \o w) \o one = b \o (w \o one)
      BY <3>4, ConcatAssociative
    <3> QED BY <3>3, <3>5 DEF b, w
  <2>3. Waiting(c)' = Append(Waiting(c), u)
    BY <1>1, <2>1, <2>2 DEF Waiting, Sending
  <2> QED BY <1>1, <1>2, <1>5, <2>1, <2>3 DEF Asks
<1> QED BY <1>4, <1>5

LEMMA Moves ==
  ASSUME IInv, [Next]_vars, NEW c \in Conns
  PROVE  Quiet(c) \/ Asks(c) \/ Begins(c)
<1>0. TypeOK /\ Bounded
  BY DEF IInv
<1>1. CASE UNCHANGED vars
  BY <1>1, QuietStep DEF vars, clientVars, connVars, Sending
<1>2. CASE Poll
  BY <1>2, QuietStep DEF Poll, clientVars, connVars, Sending
<1>3. CASE HandleHup
  BY <1>3, QuietStep DEF HandleHup, ConnClose, clientVars, Sending
<1>4. CASE HandleRead
  BY <1>4, ReadMoves
<1>5. CASE SendFile
  <2>1. /\ job \in Job /\ job' \in Job /\ job'.conn = job.conn
        /\ Starts(wrote'[job.conn]) = Starts(wrote[job.conn])
        /\ \A i \in Starts(wrote[job.conn]) : wrote'[job.conn][i] = wrote[job.conn][i]
        /\ \A d \in Conns \ {job.conn} : wrote'[d] = wrote[d]
    BY <1>0, <1>5, ChunkIs
  <2>2. Starts(wrote'[c]) = Starts(wrote[c]) /\ SameHeads(c)
    BY <2>1 DEF SameHeads
  <2>3. UNCHANGED <<asked, sent, stream, rbuf, live>> /\ (Sending(c) <=> Sending(c)')
    BY <1>5, <2>1 DEF SendFile, clientVars, connVars, Sending
  <2> QED BY <2>2, <2>3 DEF Quiet, Waiting
<1>6. CASE SendFails
  <2>1. UNCHANGED <<asked, sent, wrote, stream, rbuf>> /\ live' = live \ {job.conn} /\ job' = NoJob
    BY <1>6 DEF SendFails, ConnClose, clientVars
  <2> QED BY <2>1, QuietStep DEF Sending
<1>7. CASE Finish
  <2>1. /\ UNCHANGED <<asked, sent, wrote, stream>> /\ live' \subseteq live /\ job' = NoJob
        /\ job # NoJob /\ rbuf' = [rbuf EXCEPT ![job.conn] = <<>>]
    BY <1>7 DEF Finish, Remains, ConnClose, clientVars
  <2>2. rbuf'[c] = IF Sending(c) THEN <<>> ELSE rbuf[c]
    BY <1>0, <2>1 DEF TypeOK, Sending
  <2>3. ~Sending(c)'
    BY <2>1 DEF Sending
  <2>4. <<>> \o stream[c] = stream[c]
    BY <1>0, ConcatEmptySeq DEF TypeOK
  <2>5. Waiting(c)' = rbuf'[c] \o stream[c]
    BY <2>1, <2>3 DEF Waiting
  <2>6. Waiting(c)' = Waiting(c)
    BY <2>2, <2>4, <2>5 DEF Waiting
  <2> QED BY <2>1, <2>6 DEF Quiet, SameHeads
<1>8. CASE Truncate
  <2>1. UNCHANGED <<asked, sent, wrote, stream, rbuf, live>> /\ job # NoJob
    BY <1>8 DEF Truncate, clientVars, connVars
  <2>2. job' \in Job /\ job'.conn = job.conn
    BY <1>0, <1>8, TruncateIs
  <2> QED BY <2>1, <2>2, QuietStep DEF Sending
<1>9. ASSUME NEW d \in Conns, Send(d) PROVE Quiet(c) \/ Asks(c)
  BY <1>9, SendMoves
<1>10. ASSUME NEW d \in Conns, Receive(d) \/ Leave(d) PROVE Quiet(c)
  BY <1>10, QuietStep DEF Receive, Leave, clientVars, connVars, Sending
<1>11. mode.conns \subseteq Conns
  BY <1>0 DEF TypeOK, Mode
<1> QED BY <1>1, <1>2, <1>3, <1>4, <1>5, <1>6, <1>7, <1>8, <1>9, <1>10, <1>11 DEF Next, WorkerStep
-----------------------------------------------------------------------------
(* Counting.  The units that end a request are the requests that have      *)
(* arrived in full.                                                        *)
Marks(s) == {i \in DOMAIN s : Last(s[i])}

LEMMA MarksFinite ==
  ASSUME NEW s \in Seq(Unit)
  PROVE  Marks(s) \subseteq 1 .. Len(s) /\ IsFiniteSet(Marks(s)) /\ Cardinality(Marks(s)) \in Nat
<1>1. IsFiniteSet(1 .. Len(s))
  BY FS_Interval
<1>2. Marks(s) \in SUBSET (1 .. Len(s))
  BY DEF Marks
<1>3. IsFiniteSet(Marks(s))
  BY <1>1, <1>2, FS_Subset
<1> QED BY <1>2, <1>3, FS_CardinalityType

LEMMA StartsFinite ==
  ASSUME NEW w \in Seq(ResponseUnit)
  PROVE  /\ Starts(w) \subseteq 1 .. Len(w) /\ IsFiniteSet(Starts(w))
         /\ Cardinality(Starts(w)) \in Nat
<1>1. IsFiniteSet(1 .. Len(w))
  BY FS_Interval
<1>2. Starts(w) \in SUBSET (1 .. Len(w))
  BY DEF Starts
<1>3. IsFiniteSet(Starts(w))
  BY <1>1, <1>2, FS_Subset
<1> QED BY <1>2, <1>3, FS_CardinalityType

LEMMA MarksAppend ==
  ASSUME NEW s \in Seq(Unit), NEW u \in Unit
  PROVE  Cardinality(Marks(Append(s, u))) = Cardinality(Marks(s)) + (IF Last(u) THEN 1 ELSE 0)
<1>1. /\ DOMAIN Append(s, u) = 1 .. Len(s) + 1 /\ DOMAIN s = 1 .. Len(s)
      /\ Append(s, u)[Len(s) + 1] = u
      /\ \A i \in 1 .. Len(s) : Append(s, u)[i] = s[i]
  BY AppendProperties
<1>2. Marks(Append(s, u)) = IF Last(u) THEN Marks(s) \cup {Len(s) + 1} ELSE Marks(s)
  <2>1. 1 .. Len(s) + 1 = (1 .. Len(s)) \cup {Len(s) + 1}
    OBVIOUS
  <2> QED BY <1>1, <2>1 DEF Marks
<1>3. Len(s) + 1 \notin Marks(s)
  BY MarksFinite
<1>4. IsFiniteSet(Marks(s)) /\ Cardinality(Marks(s)) \in Nat
  BY MarksFinite
<1>5. Cardinality(Marks(s) \cup {Len(s) + 1}) = Cardinality(Marks(s)) + 1
  BY <1>3, <1>4, FS_AddElement
<1> QED BY <1>2, <1>4, <1>5

(* Dropping a front that holds a request leaves a request less.            *)
LEMMA MarksDrop ==
  ASSUME NEW b \in Seq(Unit), NEW t \in Seq(Unit), Marks(b) # {}
  PROVE  Cardinality(Marks(t)) + 1 <= Cardinality(Marks(b \o t))
<1> DEFINE p == b \o t
<1>1. /\ p \in Seq(Unit) /\ Len(p) = Len(b) + Len(t)
      /\ DOMAIN p = 1 .. Len(b) + Len(t) /\ DOMAIN t = 1 .. Len(t) /\ DOMAIN b = 1 .. Len(b)
  OBVIOUS
<1>2. \A i \in 1 .. Len(b) : p[i] = b[i]
  OBVIOUS
<1>3. \A i \in 1 .. Len(t) : p[Len(b) + i] = t[i]
  OBVIOUS
<1> HIDE DEF p
<1> DEFINE late == {i \in Marks(p) : i > Len(b)}
           f == [i \in Marks(t) |-> Len(b) + i]
<1>4. Marks(t) \subseteq 1 .. Len(t) /\ Marks(p) \subseteq 1 .. Len(b) + Len(t)
  BY <1>1 DEF Marks
<1>5. f \in Bijection(Marks(t), late)
  <2>1. ASSUME NEW i \in Marks(t) PROVE Len(b) + i \in late
    BY <1>1, <1>3, <1>4 DEF Marks
  <2>2. ASSUME NEW j \in late PROVE j - Len(b) \in Marks(t) /\ Len(b) + (j - Len(b)) = j
    <3>1. j \in 1 .. Len(b) + Len(t) /\ j > Len(b) /\ Last(p[j])
      BY <1>4 DEF Marks
    <3>2. j - Len(b) \in 1 .. Len(t) /\ Len(b) + (j - Len(b)) = j
      BY <3>1
    <3> QED BY <1>1, <1>3, <3>1, <3>2 DEF Marks
  <2> HIDE DEF late
  <2>3. f \in [Marks(t) -> late]
    BY <2>1
  <2>4. \A x, y \in Marks(t) : f[x] = f[y] => x = y
    BY <1>4
  <2>5. \A j \in late : \E x \in Marks(t) : f[x] = j
    BY <2>2
  <2> HIDE DEF f
  <2> QED BY <2>3, <2>4, <2>5 DEF Bijection, Injection, Surjection, IsInjective
<1>6. PICK m \in Marks(b) : m \in Marks(p) /\ m \notin late
  <2>1. PICK m \in Marks(b) : TRUE
    OBVIOUS
  <2>2. m \in 1 .. Len(b)
    BY <1>1 DEF Marks
  <2> QED BY <1>1, <1>2, <2>2 DEF Marks
<1>7. Cardinality(late) = Cardinality(Marks(t)) /\ IsFiniteSet(late)
  BY <1>5, MarksFinite, FS_Bijection DEF ExistsBijection
<1>8. Cardinality(late \cup {m}) = Cardinality(late) + 1
  BY <1>6, <1>7, FS_AddElement
<1>9. Cardinality(late \cup {m}) <= Cardinality(Marks(p))
  BY <1>1, <1>6, MarksFinite, FS_Subset
<1> QED BY <1>7, <1>8, <1>9 DEF p

(* A parse that yields more than "more bytes" has found the end of headers.*)
LEMMA ParsedEnds ==
  ASSUME NEW b, NEW st, NEW k \in Parsed(b, st), k # "more"
  PROVE  Marks(b) # {}
<1>1. HeaderEnd(b) # 0
  BY DEF Parsed
<1> QED BY <1>1 DEF HeaderEnd, Marks
-----------------------------------------------------------------------------
(* The responses begun and the requests waiting are no more than were      *)
(* asked.                                                                  *)
BalanceOf(c) ==
  Cardinality(Starts(wrote[c])) + (IF c \in live THEN Cardinality(Marks(Waiting(c))) ELSE 0)
    <= Len(asked[c])
Balance == \A c \in Conns : BalanceOf(c)

LEMMA BalanceInit == Init => Balance
<1> SUFFICES ASSUME Init, NEW c \in Conns PROVE BalanceOf(c)
  BY DEF Balance
<1>1. Starts(wrote[c]) = {} /\ Len(asked[c]) = 0
  BY DEF Init, Starts
<1>2. Waiting(c) = <<>>
  BY DEF Init, Waiting, Sending
<1>3. Marks(Waiting(c)) = {}
  BY <1>2 DEF Marks
<1> QED BY <1>1, <1>3, FS_EmptySet DEF BalanceOf

LEMMA WaitingType ==
  ASSUME TypeOK, NEW c \in Conns
  PROVE  Waiting(c) \in Seq(Unit) /\ asked[c] \in Seq(AllKinds) /\ wrote[c] \in Seq(ResponseUnit)
BY DEF TypeOK, Waiting

LEMMA BalanceStep == IInv /\ IInv' /\ Balance /\ [Next]_vars => Balance'
<1> SUFFICES ASSUME IInv, IInv', Balance, [Next]_vars, NEW c \in Conns PROVE BalanceOf(c)'
  BY DEF Balance
<1>1. /\ Waiting(c) \in Seq(Unit) /\ Waiting(c)' \in Seq(Unit)
      /\ wrote[c] \in Seq(ResponseUnit) /\ asked[c] \in Seq(AllKinds)
      /\ TypeOK
  <2>1. TypeOK /\ TypeOK'
    BY DEF IInv
  <2>2. Waiting(c)' \in Seq(Unit)
    BY <2>1 DEF TypeOK, Waiting
  <2> QED BY <2>1, <2>2, WaitingType
<1>2. /\ Cardinality(Marks(Waiting(c))) \in Nat /\ Cardinality(Marks(Waiting(c)')) \in Nat
      /\ Cardinality(Starts(wrote[c])) \in Nat /\ Len(asked[c]) \in Nat
  BY <1>1, MarksFinite, StartsFinite
<1>3. BalanceOf(c)
  BY DEF Balance
<1>4. CASE Quiet(c)
  BY <1>2, <1>3, <1>4 DEF Quiet, BalanceOf
<1>5. CASE Asks(c)
  <2>1. PICK u \in Unit :
          /\ u[1] \in mode.kinds
          /\ Waiting(c)' = Append(Waiting(c), u)
          /\ asked'[c] = IF Last(u) THEN Append(asked[c], u[1]) ELSE asked[c]
    BY <1>5 DEF Asks
  <2>2. /\ Cardinality(Marks(Waiting(c)')) =
             Cardinality(Marks(Waiting(c))) + (IF Last(u) THEN 1 ELSE 0)
    BY <1>1, <2>1, MarksAppend
  <2>3. Len(asked'[c]) = Len(asked[c]) + (IF Last(u) THEN 1 ELSE 0)
    <3>1. u[1] \in AllKinds
      BY DEF Unit
    <3>2. Len(Append(asked[c], u[1])) = Len(asked[c]) + 1
      BY <1>1, <3>1, AppendProperties
    <3>3. CASE Last(u)
      BY <2>1, <3>2, <3>3
    <3>4. CASE ~Last(u)
      BY <1>2, <2>1, <3>4
    <3> QED BY <3>3, <3>4
  <2>4. c \in live /\ c \in live' /\ wrote'[c] = wrote[c]
    BY <1>5 DEF Asks
  <2> HIDE DEF Waiting
  <2>5. Cardinality(Starts(wrote[c])) + Cardinality(Marks(Waiting(c))) <= Len(asked[c])
    BY <1>3, <2>4 DEF BalanceOf
  <2>6. Cardinality(Starts(wrote'[c])) + Cardinality(Marks(Waiting(c)')) <= Len(asked'[c])
    <3> DEFINE one == IF Last(u) THEN 1 ELSE 0
    <3>1. one \in Int
      OBVIOUS
    <3>2. /\ Cardinality(Marks(Waiting(c)')) = Cardinality(Marks(Waiting(c))) + one
          /\ Len(asked'[c]) = Len(asked[c]) + one
      BY <2>2, <2>3
    <3> HIDE DEF one
    <3> QED BY <1>2, <2>4, <2>5, <3>1, <3>2
  <2> QED BY <2>4, <2>6 DEF BalanceOf
<1>6. CASE Begins(c)
  <2>1. PICK k, r, b, t :
       /\ Suits(k, r) /\ k \in Parsed(b, stale[c])
       /\ b \in Seq(Unit) /\ t \in Seq(Unit) /\ Waiting(c) = b \o t
       /\ c \in live' => Waiting(c)' = t
       /\ Starts(wrote'[c]) = Starts(wrote[c]) \cup {Len(wrote[c]) + 1}
    BY <1>6 DEF Begins
  <2>2. asked'[c] = asked[c] /\ c \in live
    BY <1>6 DEF Begins
  <2>3. Marks(b) # {}
    BY <2>1, SuitsIs, ParsedEnds
  <2>4. Cardinality(Marks(t)) + 1 <= Cardinality(Marks(Waiting(c))) /\ Cardinality(Marks(t)) \in Nat
    BY <2>1, <2>3, MarksDrop, MarksFinite
  <2>5. Cardinality(Starts(wrote'[c])) = Cardinality(Starts(wrote[c])) + 1
    <3>1. Len(wrote[c]) + 1 \notin Starts(wrote[c]) /\ IsFiniteSet(Starts(wrote[c]))
      BY <1>1, StartsFinite
    <3> QED BY <2>1, <3>1, FS_AddElement
  <2> HIDE DEF Waiting
  <2> QED BY <1>2, <1>3, <2>1, <2>2, <2>4, <2>5 DEF BalanceOf
<1> QED BY <1>4, <1>5, <1>6, Moves

LEMMA Balanced == Spec => []Balance
<1>1. Init => Balance
  BY BalanceInit
<1>2. IInv /\ IInv' /\ Balance /\ [Next]_vars => Balance'
  BY BalanceStep
<1> QED BY <1>1, <1>2, Inductive, PTL DEF Spec
-----------------------------------------------------------------------------
(* The steps of the dialogue, in terms of the worker's state.              *)
Done(c) == Cardinality(Complete(wrote[c]))

LEMMA AskMaps ==
  ASSUME NEW c \in Conns, c \in live, UNCHANGED <<mode, live>>,
         \A d \in Conns : Done(d)' = Done(d),
         \A d \in Conns \ {c} : asked'[d] = asked[d],
         Len(asked'[c]) = Len(asked[c]) + 1
  PROVE  Dialogue!Ask(c)
BY DEF Dialogue!Ask, Done

LEMMA AnswerMaps ==
  ASSUME NEW c \in Conns, c \in live, UNCHANGED <<mode, asked>>, LiveConns,
         live' = live \/ live' = live \ {c},
         \A d \in Conns \ {c} : Done(d)' = Done(d),
         Done(c)' = Done(c) + 1, Done(c) < Len(asked[c])
  PROVE  Dialogue!Answer(c)
<1>1. mode.conns \ live' \in {mode.conns \ live, (mode.conns \ live) \cup {c}}
  BY DEF LiveConns
<1> QED BY <1>1 DEF Dialogue!Answer, Done

LEMMA CloseMaps ==
  ASSUME NEW c \in Conns, c \in live, UNCHANGED <<mode, asked>>, LiveConns,
         live' = live \ {c}, \A d \in Conns : Done(d)' = Done(d)
  PROVE  Dialogue!Close(c)
<1>1. mode.conns \ live' = (mode.conns \ live) \cup {c}
  BY DEF LiveConns
<1> QED BY <1>1 DEF Dialogue!Close, Done

(* A response of two units is complete once both are written, unless a     *)
(* file is to follow.                                                      *)
LEMMA WriteCompletes ==
  ASSUME TypeOK, Bounded, NEW c \in Conns, NEW r \in Responses, Write(c, r),
         Whole(wrote[c])
  PROVE  /\ Complete(wrote[c]) = Starts(wrote[c])
         /\ \/ Complete(wrote'[c]) = Starts(wrote[c])
            \/ Complete(wrote'[c]) = Starts(wrote[c]) \cup {Len(wrote[c]) + 1}
         /\ r[1].len # 1 => Complete(wrote'[c]) = Starts(wrote[c])
<1> DEFINE w == wrote[c]
           v == wrote'[c]
           l == Len(w) + 1
<1>1. /\ Starts(v) = Starts(w) \cup (IF Written(c, r) = 0 THEN {} ELSE {l})
      /\ \A i \in Starts(w) : v[i] = w[i]
      /\ Written(c, r) # 0 => v[l] = r[1]
  BY WriteStarts
<1>2. w \in Seq(ResponseUnit) /\ Len(v) = Len(w) + Written(c, r) /\ Written(c, r) \in 0 .. 2
  BY WriteIs DEF TypeOK
<1>3. Whole(w)
  OBVIOUS
<1>4. r[1].len \in Nat /\ r[1].len >= 1
  <2>1. CASE r = Bad
    BY <2>1 DEF Bad, Start
  <2>2. ASSUME NEW ka \in BOOLEAN, r = Missing(ka) PROVE r[1].len = 1
    BY <2>2 DEF Missing, Start
  <2>3. ASSUME NEW ka \in BOOLEAN, r = Ok(ka) PROVE r[1].len = 1 + FileLen
    BY <2>3 DEF Ok, Start
  <2> QED BY <2>1, <2>2, <2>3 DEF Responses
<1> HIDE DEF w, v
<1>5. \A i \in Starts(w) : i \in Int /\ i <= Len(w) /\ w[i].len \in Int
  BY <1>2, StartTypes
<1>6. Complete(w) = Starts(w)
  BY <1>3 DEF Complete, Whole
<1>7. \A i \in Starts(w) : i \in Complete(v)
  <2> SUFFICES ASSUME NEW i \in Starts(w) PROVE i + v[i].len <= Len(v)
    BY <1>1 DEF Complete
  <2>1. i + w[i].len <= Len(w) /\ v[i] = w[i]
    BY <1>1, <1>3 DEF Whole
  <2> QED BY <1>2, <1>5, <2>1
<1>8. \A i \in Complete(v) : i \in Starts(w) \/ (i = l /\ r[1].len = 1)
  <2> SUFFICES ASSUME NEW i \in Complete(v), i \notin Starts(w)
               PROVE  i = l /\ r[1].len = 1
    OBVIOUS
  <2>1. i \in Starts(v) /\ i + v[i].len <= Len(v)
    BY DEF Complete
  <2>2. i = l /\ Written(c, r) # 0
    BY <1>1, <2>1
  <2>3. l + r[1].len <= Len(w) + Written(c, r)
    BY <1>1, <1>2, <2>1, <2>2
  <2>4. Len(w) \in Int /\ l = Len(w) + 1
    BY <1>2
  <2> HIDE DEF l
  <2> QED BY <1>2, <1>4, <2>2, <2>3, <2>4
<1>9. Complete(v) = Starts(w) \/ Complete(v) = Starts(w) \cup {l}
  BY <1>7, <1>8
<1>10. r[1].len # 1 => Complete(v) = Starts(w)
  BY <1>7, <1>8
<1> QED BY <1>6, <1>9, <1>10 DEF w, v

(* A chunk completes the response being sent or none.                      *)
LEMMA ChunkCompletes ==
  ASSUME TypeOK, Bounded, Framing, SendFile
  PROVE  LET w == wrote[job.conn]
             v == wrote'[job.conn]
         IN  Complete(v) = Complete(w)
             \/ \E l \in Starts(w) \ Complete(w) : Complete(v) = Complete(w) \cup {l}
<1>1. PICK c \in Conns : c = job.conn
  BY ChunkIs DEF Job
<1>2. PICK n \in 1 .. job.remain : Len(wrote'[c]) = Len(wrote[c]) + n
  BY <1>1, ChunkIs
<1>3. /\ job \in Job /\ job # NoJob
      /\ Starts(wrote'[c]) = Starts(wrote[c])
      /\ \A i \in Starts(wrote[c]) : wrote'[c][i] = wrote[c][i]
  BY <1>1, ChunkIs DEF SendFile
<1>4. Apart(wrote[c]) /\ Cut(wrote[c])
  BY <1>1, <1>3 DEF Framing, FramingOf, Sending
<1>5. wrote[c] \in Seq(ResponseUnit)
  BY DEF TypeOK
<1> DEFINE w == wrote[c]
           v == wrote'[c]
<1>6. n \in Int /\ n > 0
  BY <1>3 DEF Job
<1>7. PICK l \in Starts(w) : \A i \in Starts(w) : i <= l
  BY <1>4 DEF Cut
<1>8. /\ Apart(w) /\ w \in Seq(ResponseUnit) /\ Len(v) = Len(w) + n
      /\ Starts(v) = Starts(w) /\ \A i \in Starts(w) : v[i] = w[i]
  BY <1>2, <1>3, <1>4, <1>5
<1> HIDE DEF w, v
<1>9. \A i \in Starts(w) : i \in Int /\ i <= Len(w) /\ w[i].len \in Int
  BY <1>8, StartTypes
<1>10. ASSUME NEW i \in Starts(w), i # l PROVE i \in Complete(w) /\ i \in Complete(v)
  <2>1. i < l /\ i \in Int /\ l \in Int /\ l <= Len(w) /\ w[i].len \in Int
    BY <1>7, <1>9, <1>10
  <2>2. i + w[i].len < l
    BY <1>8, <2>1 DEF Apart
  <2>3. i + w[i].len <= Len(w) /\ i + v[i].len <= Len(v)
    BY <1>6, <1>8, <2>1, <2>2
  <2> QED BY <1>8, <2>3 DEF Complete
<1>11. l \in Complete(w) => l \in Complete(v)
  <2> SUFFICES ASSUME l + w[l].len <= Len(w) PROVE l + v[l].len <= Len(v)
    BY <1>8 DEF Complete
  <2>1. l \in Int /\ w[l].len \in Int /\ v[l] = w[l]
    BY <1>8, <1>9
  <2> QED BY <1>6, <1>8, <2>1
<1>12. Complete(w) \subseteq Starts(w) /\ Complete(v) \subseteq Starts(w)
  BY <1>8 DEF Complete
<1>13. CASE l \in Complete(v) /\ l \notin Complete(w)
  <2>1. Complete(v) = Complete(w) \cup {l}
    BY <1>10, <1>12, <1>13
  <2> QED BY <1>1, <1>13, <2>1 DEF w, v
<1>14. CASE l \in Complete(w) \/ l \notin Complete(v)
  <2>1. Complete(v) = Complete(w)
    BY <1>10, <1>11, <1>12, <1>14
  <2> QED BY <1>1, <2>1 DEF w, v
<1> QED BY <1>13, <1>14

LEMMA DoneMore ==
  ASSUME TypeOK, NEW c \in Conns, NEW l,
         l \notin Complete(wrote[c]), Complete(wrote'[c]) = Complete(wrote[c]) \cup {l}
  PROVE  Done(c)' = Done(c) + 1
<1>1. wrote[c] \in Seq(ResponseUnit) /\ Complete(wrote[c]) \in SUBSET Starts(wrote[c])
  BY DEF TypeOK, Complete
<1>2. IsFiniteSet(Complete(wrote[c]))
  BY <1>1, StartsFinite, FS_Subset
<1> QED BY <1>2, FS_AddElement DEF Done

DialogueStep ==
  \/ Dialogue!Next
  \/ UNCHANGED <<mode, live>> /\ \A c \in Conns : Len(asked'[c]) = Len(asked[c]) /\ Done(c)' = Done(c)

LEMMA ReadRefines ==
  ASSUME IInv, Balance, HandleRead
  PROVE  DialogueStep
<1>0. TypeOK /\ Bounded /\ LiveConns
  BY DEF IInv, ConnInv
<1>1. PICK e \in batch :
        \/ Dropped(e.conn) \/ Waits(e.conn)
        \/ \E k, r : Refused(e.conn, k, r)
        \/ \E k : Served(e.conn, k)
  BY ReadCases
<1>2. job = NoJob /\ UNCHANGED <<mode, asked>>
  BY ReadCases DEF clientVars
<1> DEFINE c == e.conn
<1>3. c \in live /\ c \in Conns
  BY <1>0, <1>1 DEF IInv, ConnInv, EventsLive, TypeOK
<1>4. Whole(wrote[c])
  BY <1>2, <1>3 DEF IInv, Framing, FramingOf, Sending
<1>5. CASE Dropped(c)
  <2>1. live' = live \ {c} /\ UNCHANGED wrote
    BY <1>5 DEF Dropped
  <2>2. Dialogue!Close(c)
    BY <1>0, <1>2, <1>3, <2>1, CloseMaps DEF Done
  <2> QED BY <1>3, <2>2 DEF DialogueStep, Dialogue!Next
<1>6. CASE Waits(c)
  BY <1>2, <1>6 DEF Waits, DialogueStep, Done
<1>7. ASSUME NEW k, NEW r, Refused(c, k, r)
      PROVE  DialogueStep
  <2>1. /\ Request(c, k) /\ Suits(k, r) /\ Write(c, r) /\ live' = live \ {c}
        /\ r \in Responses
    BY <1>7, SuitsIs DEF Refused
  <2>2. \A d \in Conns \ {c} : Done(d)' = Done(d)
    BY <1>0, <1>3, <2>1, WriteIs DEF Done
  <2>3. Complete(wrote[c]) = Starts(wrote[c])
    BY <1>0, <1>3, <1>4, <2>1, WriteCompletes
  <2>4. CASE Complete(wrote'[c]) = Starts(wrote[c])
    <3>1. Done(c)' = Done(c)
      BY <2>3, <2>4 DEF Done
    <3>2. Dialogue!Close(c)
      BY <1>0, <1>2, <1>3, <2>1, <2>2, <3>1, CloseMaps
    <3> QED BY <1>3, <3>2 DEF DialogueStep, Dialogue!Next
  <2>5. CASE Complete(wrote'[c]) = Starts(wrote[c]) \cup {Len(wrote[c]) + 1}
    <3>1. wrote[c] \in Seq(ResponseUnit) /\ asked[c] \in Seq(AllKinds)
      BY <1>0, <1>3 DEF TypeOK
    <3>2. Len(wrote[c]) + 1 \notin Complete(wrote[c])
      BY <2>3, <3>1, StartsFinite
    <3>3. Done(c)' = Done(c) + 1
      BY <1>0, <1>3, <2>3, <2>5, <3>2, DoneMore
    <3>4. Done(c) < Len(asked[c])
      <4>1. Read(c) /\ k \in Parsed(Buffer(c), stale[c]) /\ k # "more"
        BY <2>1, SuitsIs DEF Request
      <4>2. /\ Waiting(c) = Buffer(c) \o stream'[c]
            /\ Buffer(c) \in Seq(Unit) /\ stream'[c] \in Seq(Unit)
        BY <1>0, <1>2, <1>3, <4>1, ReadWaiting
      <4>3. Marks(Buffer(c)) # {}
        BY <4>1, ParsedEnds
      <4>4. Cardinality(Marks(stream'[c])) + 1 <= Cardinality(Marks(Waiting(c)))
        <5> HIDE DEF Buffer, Waiting, c
        <5> QED BY <4>2, <4>3, MarksDrop
      <4>5. /\ Cardinality(Marks(stream'[c])) \in Nat /\ Cardinality(Marks(Waiting(c))) \in Nat
            /\ Cardinality(Starts(wrote[c])) \in Nat /\ Len(asked[c]) \in Nat
        <5>1. Waiting(c) \in Seq(Unit)
          BY <1>0, <1>3, WaitingType
        <5>2. Cardinality(Marks(Waiting(c))) \in Nat /\ Cardinality(Marks(stream'[c])) \in Nat
          BY <4>2, <5>1, MarksFinite
        <5>3. Cardinality(Starts(wrote[c])) \in Nat
          BY <3>1, StartsFinite
        <5> QED BY <3>1, <5>2, <5>3
      <4>6. Cardinality(Starts(wrote[c])) + Cardinality(Marks(Waiting(c))) <= Len(asked[c])
        BY <1>3 DEF Balance, BalanceOf
      <4>7. Done(c) = Cardinality(Starts(wrote[c]))
        BY <2>3 DEF Done
      <4> HIDE DEF Buffer, Waiting, Done, c
      <4> QED BY <4>4, <4>5, <4>6, <4>7
    <3>5. Dialogue!Answer(c)
      BY <1>0, <1>2, <1>3, <2>1, <2>2, <3>3, <3>4, AnswerMaps
    <3> QED BY <1>3, <3>5 DEF DialogueStep, Dialogue!Next
  <2> QED BY <1>0, <1>3, <1>4, <2>1, <2>4, <2>5, WriteCompletes
<1>8. ASSUME NEW k, Served(c, k)
      PROVE  DialogueStep
  <2> DEFINE r == Ok(k = "get")
  <2>1. r \in Responses /\ Write(c, r) /\ UNCHANGED live
    BY <1>8 DEF Served, Responses
  <2>2. r[1].len # 1
    BY DEF Ok, Start
  <2> HIDE DEF r
  <2>3. Complete(wrote[c]) = Starts(wrote[c]) /\ Complete(wrote'[c]) = Starts(wrote[c])
    BY <1>0, <1>3, <1>4, <2>1, <2>2, WriteCompletes
  <2>4. \A d \in Conns \ {c} : wrote'[d] = wrote[d]
    BY <1>0, <1>3, <2>1, WriteIs
  <2> QED BY <1>2, <2>1, <2>3, <2>4 DEF DialogueStep, Done
<1> QED BY <1>1, <1>5, <1>6, <1>7, <1>8

LEMMA ChunkRefines ==
  ASSUME IInv, Balance, SendFile
  PROVE  DialogueStep
<1>0. TypeOK /\ Bounded /\ Framing /\ LiveConns
  BY DEF IInv, ConnInv
<1>1. PICK c \in Conns : c = job.conn
  BY <1>0, ChunkIs DEF Job
<1>2. UNCHANGED <<mode, asked, live>> /\ c \in live
  BY <1>1 DEF SendFile, clientVars, connVars, IInv, ConnInv, JobLive
<1>3. \A d \in Conns \ {c} : Done(d)' = Done(d)
  BY <1>0, <1>1, ChunkIs DEF Done
<1>4. CASE Complete(wrote'[c]) = Complete(wrote[c])
  <2>1. Done(c)' = Done(c)
    BY <1>4 DEF Done
  <2> QED BY <1>2, <1>3, <2>1 DEF DialogueStep
<1>5. ASSUME NEW l \in Starts(wrote[c]) \ Complete(wrote[c]),
             Complete(wrote'[c]) = Complete(wrote[c]) \cup {l}
      PROVE  DialogueStep
  <2>1. Done(c)' = Done(c) + 1
    BY <1>0, <1>5, DoneMore
  <2>2. wrote[c] \in Seq(ResponseUnit) /\ Waiting(c) \in Seq(Unit) /\ asked[c] \in Seq(AllKinds)
    BY <1>0, WaitingType
  <2>3. IsFiniteSet(Starts(wrote[c])) /\ Complete(wrote[c]) \in SUBSET Starts(wrote[c])
    BY <2>2, StartsFinite DEF Complete
  <2>4. Done(c) <= Cardinality(Starts(wrote[c])) /\ Done(c) # Cardinality(Starts(wrote[c]))
    BY <2>3, FS_Subset DEF Done
  <2>5. /\ Cardinality(Starts(wrote[c])) \in Nat /\ Done(c) \in Nat
        /\ Cardinality(Marks(Waiting(c))) \in Nat /\ Len(asked[c]) \in Nat
    BY <2>2, <2>3, StartsFinite, MarksFinite, FS_Subset, FS_CardinalityType DEF Done
  <2>6. Cardinality(Starts(wrote[c])) + Cardinality(Marks(Waiting(c))) <= Len(asked[c])
    BY <1>2 DEF Balance, BalanceOf
  <2>7. Done(c) < Len(asked[c])
    <3> HIDE DEF Done, Waiting
    <3> QED BY <2>4, <2>5, <2>6
  <2>8. Dialogue!Answer(c)
    BY <1>0, <1>2, <1>3, <2>1, <2>7, AnswerMaps
  <2> QED BY <2>8 DEF DialogueStep, Dialogue!Next
<1> QED BY <1>0, <1>1, <1>4, <1>5, ChunkCompletes

LEMMA StepRefines ==
  ASSUME IInv, Balance, [Next]_vars
  PROVE  DialogueStep
<1>0. TypeOK /\ LiveConns
  BY DEF IInv, ConnInv
<1>1. CASE UNCHANGED <<mode, live, asked, wrote>>
  BY <1>1 DEF DialogueStep, Done
<1>2. ASSUME NEW c \in Conns, c \in live, live' = live \ {c}, UNCHANGED <<mode, asked, wrote>>
      PROVE  DialogueStep
  <2>1. Dialogue!Close(c)
    BY <1>0, <1>2, CloseMaps DEF Done
  <2> QED BY <2>1 DEF DialogueStep, Dialogue!Next
<1>3. CASE HandleHup
  <2>1. PICK e \in batch : live' = live \ {e.conn}
    BY <1>3 DEF HandleHup, ConnClose
  <2>2. e.conn \in Conns /\ e.conn \in live
    BY <1>0, <2>1 DEF TypeOK, IInv, ConnInv, EventsLive
  <2>3. UNCHANGED <<mode, asked, wrote>>
    BY <1>3 DEF HandleHup, clientVars
  <2> QED BY <1>2, <2>1, <2>2, <2>3
<1>4. CASE SendFails
  <2>1. job.conn \in Conns /\ job.conn \in live
    BY <1>0, <1>4 DEF SendFails, TypeOK, Job, IInv, ConnInv, JobLive
  <2> QED BY <1>2, <1>4, <2>1 DEF SendFails, ConnClose, clientVars
<1>5. CASE Finish
  <2>1. job.conn \in Conns /\ job.conn \in live
    BY <1>0, <1>5 DEF Finish, TypeOK, Job, IInv, ConnInv, JobLive
  <2>2. UNCHANGED <<mode, asked, wrote>> /\ (live' = live \/ live' = live \ {job.conn})
    BY <1>5 DEF Finish, ConnClose, clientVars
  <2> QED BY <1>1, <1>2, <2>1, <2>2
<1>6. ASSUME NEW c \in Conns, Send(c)
      PROVE  DialogueStep
  <2>1. c \in live /\ UNCHANGED <<mode, live, wrote>>
    BY <1>6 DEF Send, connVars
  <2>2. PICK u \in Unit :
          asked' = [asked EXCEPT ![c] = IF Last(u) THEN Append(@, u[1]) ELSE @]
    BY <1>6 DEF Send
  <2>3. asked \in [Conns -> Seq(AllKinds)] /\ u[1] \in AllKinds
    BY <1>0 DEF TypeOK, Unit
  <2>4. CASE Last(u)
    <3>1. asked'[c] = Append(asked[c], u[1])
      BY <2>2, <2>3, <2>4
    <3>2. Len(asked'[c]) = Len(asked[c]) + 1
      BY <2>3, <3>1, AppendProperties
    <3>3. \A d \in Conns \ {c} : asked'[d] = asked[d]
      BY <2>2, <2>3
    <3>4. Dialogue!Ask(c)
      BY <2>1, <3>2, <3>3, AskMaps DEF Done
    <3> QED BY <3>4 DEF DialogueStep, Dialogue!Next
  <2>5. CASE ~Last(u)
    <3>1. asked' = asked
      BY <2>2, <2>3, <2>5
    <3> QED BY <1>1, <2>1, <3>1
  <2> QED BY <2>4, <2>5
<1>7. Poll \/ Truncate \/ (\E c \in Conns : Receive(c) \/ Leave(c))
        => UNCHANGED <<mode, live, asked, wrote>>
  BY DEF Poll, Truncate, Receive, Leave, clientVars, connVars
<1>8. mode.conns \subseteq Conns
  BY <1>0 DEF TypeOK, Mode
<1> QED BY <1>1, <1>3, <1>4, <1>5, <1>6, <1>7, <1>8, ReadRefines, ChunkRefines
        DEF Next, WorkerStep, vars, clientVars, connVars

(* The worker implements the dialogue: however requests are split and      *)
(* pipelined, whoever goes away and whatever fails, no more responses are  *)
(* given on a connection than requests were asked, one at a time, and none *)
(* after the connection is over.                                           *)
THEOREM DialogueRefinement == Spec => ImplementsDialogue
<1>1. Init => Dialogue!Init
  <2> SUFFICES ASSUME Init PROVE Dialogue!Init
    OBVIOUS
  <2>1. \A c \in Conns : Len(asked[c]) = 0 /\ Complete(wrote[c]) = {}
    BY DEF Init, Complete, Starts
  <2>2. mode.conns \ live = {}
    BY DEF Init
  <2> QED BY <2>1, <2>2, FS_EmptySet DEF Dialogue!Init
<1>2. IInv /\ Balance /\ [Next]_vars =>
        [Dialogue!Next]_<<[c \in Conns |-> Len(asked[c])],
                          [c \in Conns |-> Cardinality(Complete(wrote[c]))],
                          mode.conns \ live>>
  BY StepRefines DEF DialogueStep, Done
<1> QED BY <1>1, <1>2, Inductive, Balanced, PTL DEF Spec, ImplementsDialogue, Dialogue!Spec
-----------------------------------------------------------------------------
(* Clients that wait for each answer and send whole request lines: what    *)
(* waits is a front of one request, answered by none of the responses so   *)
(* far, and the next one is begun when the last is answered.               *)
Turns == mode.pipeline = 1 /\ "bad" \notin mode.kinds

FrontOf(p, k) == Len(p) \in 1 .. Units(k) /\ \A i \in 1 .. Len(p) : p[i] = <<k, i>>
TurnOf(c) ==
  LET p == Waiting(c)
      n == Cardinality(Starts(wrote[c]))
  IN  \/ p = <<>> /\ sent[c] = <<>> /\ n = Len(asked[c])
      \/ \E k \in mode.kinds :
           /\ FrontOf(p, k)
           /\ \/ Len(p) < Units(k) /\ sent[c] = <<k, Len(p)>> /\ n = Len(asked[c])
              \/ /\ Len(p) = Units(k) /\ sent[c] = <<>>
                 /\ n + 1 = Len(asked[c]) /\ asked[c][n + 1] = k
OneTurn == \A c \in live : TurnOf(c)

Rank(s, i) == Cardinality({j \in s : j <= i})
MatchOf(c) ==
  \A i \in Starts(wrote[c]) :
    /\ Rank(Starts(wrote[c]), i) <= Len(asked[c])
    /\ wrote[c][i].status \in Expected(asked[c][Rank(Starts(wrote[c]), i)])

TurnInv == Turns => OneTurn /\ \A c \in Conns : MatchOf(c)

LEMMA TurnInit == Init => TurnInv
<1> SUFFICES ASSUME Init PROVE OneTurn /\ \A c \in Conns : MatchOf(c)
  BY DEF TurnInv
<1>1. \A c \in Conns : /\ Starts(wrote[c]) = {} /\ asked[c] = <<>> /\ sent[c] = <<>>
                       /\ Waiting(c) = <<>>
  BY DEF Init, Starts, Waiting, Sending
<1>2. live \subseteq Conns
  BY DEF Init, Mode
<1> QED BY <1>1, <1>2, FS_EmptySet DEF OneTurn, TurnOf, MatchOf

(* No client has received more responses than were begun.                  *)
LEMMA AnswersBegun ==
  ASSUME TypeOK, Bounded, NEW c \in Conns
  PROVE  Answers(c) \in Nat /\ Answers(c) <= Cardinality(Starts(wrote[c]))
<1> DEFINE w == wrote[c]
           v == SubSeq(w, 1, rcvd[c])
<1>1. w \in Seq(ResponseUnit) /\ rcvd[c] \in 0 .. Len(w)
  BY DEF TypeOK, Bounded
<1>2. /\ v \in Seq(ResponseUnit) /\ Len(v) = rcvd[c]
      /\ \A i \in 1 .. rcvd[c] : v[i] = w[i]
  BY <1>1, Front
<1> HIDE DEF w, v
<1>3. Complete(v) \in SUBSET Starts(w)
  <2>1. 1 .. rcvd[c] \subseteq 1 .. Len(w) /\ DOMAIN v = 1 .. rcvd[c] /\ DOMAIN w = 1 .. Len(w)
    BY <1>1, <1>2
  <2> QED BY <1>2, <2>1 DEF Complete, Starts
<1>4. IsFiniteSet(Starts(w))
  BY <1>1, StartsFinite
<1>5. Cardinality(Complete(v)) \in Nat /\ Cardinality(Complete(v)) <= Cardinality(Starts(w))
  BY <1>3, <1>4, FS_Subset, FS_CardinalityType
<1> QED BY <1>5 DEF Answers, w, v

LEMMA FaultsFall ==
  ASSUME TypeOK, [Next]_vars
  PROVE  faults' \in Int /\ faults' <= faults /\ UNCHANGED mode
<1>1. UNCHANGED faults \/ Fault => faults' \in Int /\ faults' <= faults
  BY DEF TypeOK, Fault
<1>2. CASE HandleRead
  <2>1. UNCHANGED mode
    BY <1>2 DEF HandleRead
  <2>2. UNCHANGED faults \/ Fault
    BY <1>2, ReadCases DEF Dropped, Waits, Refused, Suits, Served
  <2> QED BY <1>1, <2>1, <2>2
<1>3. CASE ~HandleRead
  <2>1. UNCHANGED mode /\ (UNCHANGED faults \/ Fault)
    BY <1>3 DEF Next, WorkerStep, Poll, HandleHup, SendFile, SendFails, Finish, Truncate,
                Send, Receive, Leave, vars
  <2> QED BY <1>1, <2>1
<1> QED BY <1>2, <1>3

(* The statuses that answer a request of kind k when f faults are to come. *)
Due(k, f) ==
  IF k = "missing" THEN {404} ELSE IF k = "post" THEN {400}
  ELSE {200} \cup IF f < MaxFaults THEN {404} ELSE {}

LEMMA ExpectedIs == \A k : Expected(k) = Due(k, faults)
BY DEF Expected, Due

LEMMA DueGrows ==
  ASSUME TypeOK, [Next]_vars, NEW k
  PROVE  Due(k, faults) \subseteq Due(k, faults')
<1>1. faults' \in Int /\ faults' <= faults /\ faults \in 0 .. MaxFaults
  BY FaultsFall DEF TypeOK
<1>2. faults < MaxFaults => faults' < MaxFaults
  BY <1>1
<1> QED BY <1>2 DEF Due

(* The front of a request: it ends at its last unit and nowhere before.    *)
LEMMA UnitsIs ==
  ASSUME NEW k \in AllKinds
  PROVE  Units(k) \in Nat /\ Units(k) >= 2
BY DEF Units

LEMMA TurnAsks ==
  ASSUME TypeOK, Bounded, Turns, UNCHANGED mode, NEW c \in Conns, TurnOf(c), Asks(c)
  PROVE  TurnOf(c)'
<1> DEFINE p == Waiting(c)
           n == Cardinality(Starts(wrote[c]))
<1>1. p \in Seq(Unit) /\ asked[c] \in Seq(AllKinds) /\ n \in Nat
  BY WaitingType, StartsFinite
<1>2. PICK u \in Unit :
       /\ u[1] \in mode.kinds
       /\ \/ sent[c] = <<>> /\ First(u) /\ Len(asked[c]) - Answers(c) < mode.pipeline
          \/ sent[c] # <<>> /\ u = <<sent[c][1], sent[c][2] + 1>>
       /\ Waiting(c)' = Append(p, u)
       /\ sent'[c] = IF Last(u) THEN <<>> ELSE u
       /\ asked'[c] = IF Last(u) THEN Append(asked[c], u[1]) ELSE asked[c]
  BY DEF Asks
<1>3. wrote'[c] = wrote[c] /\ mode' = mode
  BY DEF Asks
<1>4. mode.kinds \subseteq AllKinds /\ mode.pipeline = 1
  BY DEF TypeOK, Mode, Turns
<1>5. Answers(c) \in Nat /\ Answers(c) <= n
  BY AnswersBegun
<1> HIDE DEF p, n
(* The unit that is sent is the next of the request that waits.            *)
<1>6. PICK k \in mode.kinds, m \in Nat :
        /\ u = <<k, m + 1>> /\ m = Len(p) /\ m < Units(k) /\ n = Len(asked[c])
        /\ \A i \in 1 .. m : p[i] = <<k, i>>
  <2>1. CASE p = <<>> /\ sent[c] = <<>> /\ n = Len(asked[c])
    <3>1. First(u)
      BY <1>2, <2>1
    <3>2. PICK k \in AllKinds, i \in 1 .. RecvBuf : u = <<k, i>>
      BY DEF Unit
    <3>3. u = <<k, 0 + 1>> /\ k \in mode.kinds /\ 0 < Units(k)
      BY <1>2, <3>1, <3>2, UnitsIs DEF First
    <3> QED BY <2>1, <3>3
  <2>2. ASSUME NEW k \in mode.kinds, FrontOf(p, k), Len(p) < Units(k),
               sent[c] = <<k, Len(p)>>, n = Len(asked[c])
        PROVE  \E j \in mode.kinds, m \in Nat :
                 /\ u = <<j, m + 1>> /\ m = Len(p) /\ m < Units(j) /\ n = Len(asked[c])
                 /\ \A i \in 1 .. m : p[i] = <<j, i>>
    <3>1. sent[c] # <<>> /\ sent[c][1] = k /\ sent[c][2] = Len(p)
      BY <2>2
    <3>2. u = <<k, Len(p) + 1>>
      BY <1>2, <3>1
    <3>3. Len(p) \in Nat /\ \A i \in 1 .. Len(p) : p[i] = <<k, i>>
      BY <1>1, <2>2 DEF FrontOf
    <3> QED BY <2>2, <3>2, <3>3
  <2>3. ASSUME NEW k \in mode.kinds, Len(p) = Units(k), sent[c] = <<>>, n + 1 = Len(asked[c])
        PROVE  FALSE
    <3>1. Len(asked[c]) - Answers(c) < 1
      BY <1>2, <1>4, <2>3
    <3> QED BY <1>1, <1>5, <2>3, <3>1
  <2> QED BY <2>1, <2>2, <2>3 DEF TurnOf, p, n
<1>7. Units(k) \in Nat /\ k \in AllKinds
  BY <1>4, UnitsIs
<1> DEFINE q == Append(p, u)
<1>8. /\ Len(q) = m + 1 /\ q[m + 1] = u
      /\ \A i \in 1 .. m : q[i] = p[i]
  BY <1>1, <1>6, AppendProperties
<1> HIDE DEF q
<1>9. FrontOf(q, k)
  <2>1. Len(q) \in 1 .. Units(k)
    BY <1>6, <1>7, <1>8
  <2>2. \A i \in 1 .. Len(q) : q[i] = <<k, i>>
    BY <1>6, <1>8
  <2> QED BY <2>1, <2>2 DEF FrontOf
<1>10. Last(u) <=> Len(q) = Units(k)
  BY <1>6, <1>8 DEF Last
<1>11. CASE Len(q) = Units(k)
  <2>1. sent'[c] = <<>> /\ asked'[c] = Append(asked[c], k)
    BY <1>2, <1>6, <1>10, <1>11
  <2>2. Len(asked'[c]) = n + 1 /\ asked'[c][n + 1] = k
    BY <1>1, <1>6, <1>7, <2>1, AppendProperties
  <2> QED BY <1>2, <1>3, <1>9, <1>11, <2>1, <2>2 DEF TurnOf, q, n
<1>12. CASE Len(q) # Units(k)
  <2>1. Len(q) < Units(k)
    BY <1>7, <1>9, <1>12 DEF FrontOf
  <2>2. sent'[c] = <<k, Len(q)>> /\ asked'[c] = asked[c]
    BY <1>2, <1>6, <1>8, <1>10, <1>12
  <2> QED BY <1>2, <1>3, <1>6, <1>9, <2>1, <2>2 DEF TurnOf, q, n
<1> QED BY <1>11, <1>12

(* Parsing the front of a request takes all of it and finds its kind.      *)
LEMMA TurnParse ==
  ASSUME NEW kinds \in SUBSET (AllKinds \ {"bad"}), NEW k \in kinds,
         NEW b \in Seq(Unit), NEW t \in Seq(Unit), FrontOf(b \o t, k),
         NEW st, NEW j \in Parsed(b, st), j # "more"
  PROVE  j = k /\ t = <<>> /\ Len(b \o t) = Units(k)
<1>1. Len(b \o t) = Len(b) + Len(t) /\ Len(b) \in Nat /\ Len(t) \in Nat
  OBVIOUS
<1>2. \A i \in 1 .. Len(b) : b[i] = <<k, i>>
  <2>1. \A i \in 1 .. Len(b) : (b \o t)[i] = b[i]
    OBVIOUS
  <2> QED BY <1>1, <2>1 DEF FrontOf
<1>3. Units(k) \in Nat /\ Len(b) + Len(t) <= Units(k)
  BY <1>1, UnitsIs DEF FrontOf
<1>4. PICK i \in 1 .. Len(b) : Last(b[i])
  <2>1. Marks(b) # {}
    BY ParsedEnds
  <2> QED BY <2>1 DEF Marks
<1>5. i = Units(k)
  BY <1>2, <1>4 DEF Last
<1>6. Len(b) = Units(k) /\ Len(t) = 0
  BY <1>1, <1>3, <1>5
<1>7. t = <<>>
  BY <1>6
<1>8. HeaderEnd(b) # 0
  BY DEF Parsed
<1>9. b[1] = <<k, 1>>
  BY <1>1, <1>2, <1>4
<1>10. First(b[1]) /\ b[1][1] = k /\ k # "bad"
  BY <1>9 DEF First
<1>11. j = k
  BY <1>8, <1>10 DEF Parsed
<1> QED BY <1>1, <1>6, <1>7, <1>11

LEMMA RankIs ==
  ASSUME NEW w \in Seq(ResponseUnit), NEW i \in Starts(w)
  PROVE  Rank(Starts(w), i) \in Nat /\ Rank(Starts(w), i) >= 1
<1> DEFINE s == {j \in Starts(w) : j <= i}
<1>1. s \in SUBSET Starts(w) /\ IsFiniteSet(Starts(w)) /\ i \in s
  BY StartsFinite
<1>2. IsFiniteSet(s) /\ Cardinality(s) \in Nat
  BY <1>1, FS_Subset, FS_CardinalityType
<1>3. Cardinality(s) # 0
  BY <1>1, <1>2, FS_EmptySet
<1> HIDE DEF s
<1>4. Cardinality(s) >= 1
  BY <1>2, <1>3
<1> QED BY <1>2, <1>4 DEF s, Rank

LEMMA TurnBegins ==
  ASSUME TypeOK, Bounded, Turns, UNCHANGED mode, NEW c \in Conns, TurnOf(c), MatchOf(c),
         Begins(c), \A k \in AllKinds : Due(k, faults) \subseteq Due(k, faults')
  PROVE  MatchOf(c)' /\ (c \in live' => TurnOf(c)')
<1> DEFINE p == Waiting(c)
           w == wrote[c]
           v == wrote'[c]
           l == Len(w) + 1
           n == Cardinality(Starts(w))
<1>1. p \in Seq(Unit) /\ asked[c] \in Seq(AllKinds) /\ w \in Seq(ResponseUnit) /\ n \in Nat
  BY WaitingType, StartsFinite
<1>2. PICK j, r, b, t :
       /\ Suits(j, r) /\ j \in Parsed(b, stale[c])
       /\ b \in Seq(Unit) /\ t \in Seq(Unit) /\ p = b \o t
       /\ c \in live' => Waiting(c)' = t
       /\ v[l] = r[1]
       /\ Starts(v) = Starts(w) \cup {l}
       /\ \A i \in Starts(w) : v[i] = w[i]
  BY DEF Begins, SameHeads
<1>3. asked'[c] = asked[c] /\ sent'[c] = sent[c]
  BY DEF Begins
<1>4. j # "more" /\ j \in AllKinds
  BY <1>2, SuitsIs
<1>5. mode.kinds \in SUBSET (AllKinds \ {"bad"})
  BY DEF TypeOK, Mode, Turns
<1> HIDE DEF p, w, v
<1>6. /\ j \in mode.kinds /\ t = <<>> /\ sent[c] = <<>>
      /\ n + 1 = Len(asked[c]) /\ asked[c][n + 1] = j
  <2>1. p # <<>>
    <3>1. Marks(b) # {}
      BY <1>2, <1>4, ParsedEnds
    <3>2. b # <<>>
      BY <3>1 DEF Marks
    <3> QED BY <1>2, <3>2
  <2>2. PICK k \in mode.kinds :
           /\ FrontOf(p, k)
           /\ \/ Len(p) < Units(k) /\ sent[c] = <<k, Len(p)>> /\ n = Len(asked[c])
              \/ /\ Len(p) = Units(k) /\ sent[c] = <<>>
                 /\ n + 1 = Len(asked[c]) /\ asked[c][n + 1] = k
    BY <2>1 DEF TurnOf, p, w
  <2>3. j = k /\ t = <<>> /\ Len(p) = Units(k)
    BY <1>2, <1>4, <1>5, <2>2, TurnParse
  <2>4. Units(k) \in Nat
    BY <1>5, UnitsIs
  <2> QED BY <2>2, <2>3, <2>4
<1>7. \A i \in Starts(w) : i \in Int /\ i <= Len(w)
  BY <1>1, StartTypes
<1>8. Cardinality(Starts(v)) = n + 1
  <2>1. l \notin Starts(w) /\ IsFiniteSet(Starts(w))
    BY <1>1, <1>7, StartsFinite
  <2> QED BY <1>2, <2>1, FS_AddElement
<1>9. c \in live' => TurnOf(c)'
  BY <1>2, <1>3, <1>6, <1>8 DEF TurnOf, v
<1>10. r[1].status \in Due(j, faults')
  <2>1. j = "post" \/ j = "missing" => r[1].status \in Due(j, faults')
    BY <1>2 DEF Suits, Bad, Missing, Start, Due
  <2>2. j \in {"get", "close"} => r[1].status = 200 \/ (r[1].status = 404 /\ Fault)
    BY <1>2 DEF Suits, Missing, Ok, Start
  <2>3. Fault => faults' < MaxFaults
    BY DEF Fault, TypeOK
  <2>4. j \in {"get", "close"} => r[1].status \in Due(j, faults')
    BY <2>2, <2>3 DEF Due
  <2> QED BY <1>2, <2>1, <2>4 DEF Suits
<1>11. ASSUME NEW i \in Starts(v)
       PROVE  /\ Rank(Starts(v), i) <= Len(asked[c])
              /\ v[i].status \in Due(asked[c][Rank(Starts(v), i)], faults')
  <2>1. CASE i = l
    <3>0. Len(w) \in Int
      BY <1>1
    <3>1. \A h \in Starts(v) : h <= i
      <4> SUFFICES ASSUME NEW h \in Starts(v) PROVE h <= Len(w) + 1
        BY <2>1
      <4>1. h \in Starts(w) \/ h = Len(w) + 1
        BY <1>2
      <4>2. h \in Starts(w) => h \in Int /\ h <= Len(w)
        BY <1>7
      <4> QED BY <3>0, <4>1, <4>2
    <3>2. {h \in Starts(v) : h <= i} = Starts(v)
      BY <3>1
    <3>3. Rank(Starts(v), i) = n + 1
      BY <1>8, <3>2 DEF Rank
    <3>4. n + 1 <= Len(asked[c])
      BY <1>1, <1>6
    <3> HIDE DEF n
    <3> QED BY <1>2, <1>6, <1>10, <2>1, <3>3, <3>4
  <2>2. CASE i \in Starts(w)
    <3>1. {h \in Starts(v) : h <= i} = {h \in Starts(w) : h <= i}
      BY <1>1, <1>2, <1>7, <2>2
    <3>2. Rank(Starts(v), i) = Rank(Starts(w), i)
      BY <3>1 DEF Rank
    <3> DEFINE m == Rank(Starts(w), i)
    <3>3. m <= Len(asked[c]) /\ w[i].status \in Due(asked[c][m], faults)
      BY <2>2, ExpectedIs DEF MatchOf, w
    <3>4. m \in Nat /\ m >= 1
      BY <1>1, <2>2, RankIs
    <3> HIDE DEF m
    <3>5. asked[c][m] \in AllKinds
      BY <1>1, <3>3, <3>4
    <3>6. v[i].status \in Due(asked[c][m], faults')
      BY <1>2, <2>2, <3>3, <3>5
    <3> QED BY <3>2, <3>3, <3>6 DEF m
  <2> QED BY <1>2, <2>1, <2>2
<1>12. MatchOf(c)'
  <2>1. \A k : Expected(k)' = Due(k, faults')
    BY DEF Expected, Due
  <2>2. \A i \in Starts(wrote'[c]) :
          /\ Rank(Starts(wrote'[c]), i) <= Len(asked'[c])
          /\ wrote'[c][i].status \in Due(asked'[c][Rank(Starts(wrote'[c]), i)], faults')
    BY <1>3, <1>11 DEF v
  <2> QED BY <2>2 DEF MatchOf, Expected, Due
<1> QED BY <1>9, <1>12

LEMMA TurnStep == IInv /\ TurnInv /\ [Next]_vars => TurnInv'
<1> SUFFICES ASSUME IInv, TurnInv, [Next]_vars, Turns'
             PROVE  OneTurn' /\ \A c \in Conns : MatchOf(c)'
  BY DEF TurnInv
<1>1. TypeOK /\ Bounded /\ live \subseteq Conns /\ UNCHANGED mode
  BY FaultsFall DEF IInv, TypeOK
<1>2. Turns /\ (\A c \in live : TurnOf(c)) /\ \A c \in Conns : MatchOf(c)
  BY <1>1 DEF Turns, TurnInv, OneTurn
<1>3. \A k \in AllKinds : Due(k, faults) \subseteq Due(k, faults')
  BY <1>1, DueGrows
<1>4. live' \subseteq Conns
  BY <1>1, TypeStep DEF TypeOK
<1>5. ASSUME NEW c \in Conns
      PROVE  MatchOf(c)' /\ (c \in live' => TurnOf(c)')
  <2> DEFINE w == wrote[c]
             m(i) == Rank(Starts(w), i)
  <2>1. w \in Seq(ResponseUnit) /\ asked[c] \in Seq(AllKinds)
    BY <1>1 DEF TypeOK
  <2>2. ASSUME NEW i \in Starts(w)
        PROVE  /\ m(i) \in 1 .. Len(asked[c])
               /\ w[i].status \in Due(asked[c][m(i)], faults')
    <3>1. m(i) <= Len(asked[c]) /\ w[i].status \in Due(asked[c][m(i)], faults)
      BY <1>2, <2>2, ExpectedIs DEF MatchOf
    <3>2. m(i) \in Nat /\ m(i) >= 1
      BY <2>1, <2>2, RankIs
    <3> HIDE DEF m
    <3>3. m(i) \in 1 .. Len(asked[c])
      BY <2>1, <3>1, <3>2
    <3>4. asked[c][m(i)] \in AllKinds
      BY <2>1, <3>3
    <3> QED BY <1>3, <3>1, <3>3, <3>4
  <2> HIDE DEF m
  <2>3. CASE Quiet(c)
    <3>1. /\ Starts(wrote'[c]) = Starts(w) /\ (\A i \in Starts(w) : wrote'[c][i] = w[i])
          /\ asked'[c] = asked[c] /\ sent'[c] = sent[c]
          /\ c \in live' => c \in live /\ Waiting(c)' = Waiting(c)
      BY <2>3 DEF Quiet, SameHeads
    <3>2. \A i \in Starts(wrote'[c]) :
            /\ Rank(Starts(wrote'[c]), i) <= Len(asked'[c])
            /\ wrote'[c][i].status \in Due(asked'[c][Rank(Starts(wrote'[c]), i)], faults')
      BY <2>1, <2>2, <3>1 DEF m
    <3>3. MatchOf(c)'
      BY <3>2 DEF MatchOf, Expected, Due
    <3>4. c \in live' => TurnOf(c)'
      BY <1>1, <1>2, <3>1 DEF TurnOf
    <3> QED BY <3>3, <3>4
  <2>4. CASE Asks(c)
    <3>1. c \in live /\ wrote'[c] = w
      BY <2>4 DEF Asks
    <3>2. TurnOf(c)'
      BY <1>1, <1>2, <2>4, <3>1, TurnAsks
    <3>3. PICK u \in Unit : asked'[c] = IF Last(u) THEN Append(asked[c], u[1]) ELSE asked[c]
      BY <2>4 DEF Asks
    <3>4. u[1] \in AllKinds
      BY DEF Unit
    <3>5. \A j \in 1 .. Len(asked[c]) : j <= Len(asked'[c]) /\ asked'[c][j] = asked[c][j]
      <4>1. CASE asked'[c] = asked[c]
        BY <2>1, <4>1
      <4>2. CASE asked'[c] = Append(asked[c], u[1])
        BY <2>1, <3>4, <4>2, AppendProperties
      <4> QED BY <3>3, <4>1, <4>2
    <3>6. \A i \in Starts(wrote'[c]) :
            /\ Rank(Starts(wrote'[c]), i) <= Len(asked'[c])
            /\ wrote'[c][i].status \in Due(asked'[c][Rank(Starts(wrote'[c]), i)], faults')
      BY <2>2, <3>1, <3>5 DEF m
    <3>7. MatchOf(c)'
      BY <3>6 DEF MatchOf, Expected, Due
    <3> QED BY <3>2, <3>7
  <2>5. CASE Begins(c)
    <3>1. c \in live
      BY <2>5 DEF Begins
    <3> QED BY <1>1, <1>2, <1>3, <2>5, <3>1, TurnBegins
  <2> QED BY <2>3, <2>4, <2>5, Moves
<1> QED BY <1>4, <1>5 DEF OneTurn

(* With clients that wait for each answer, every response answers the      *)
(* request it is the turn of: however a request is split over reads, it is *)
(* answered once, and nothing of one is left in the buffer for the next.   *)
THEOREM AnswersMatchSafe == Spec => []AnswersMatch
<1>1. Init => TurnInv
  BY TurnInit
<1>2. IInv /\ TurnInv /\ [Next]_vars => TurnInv'
  BY TurnStep
<1>3. TurnInv => AnswersMatch
  BY DEF TurnInv, Turns, MatchOf, AnswersMatch, Rank
<1> QED BY <1>1, <1>2, <1>3, Inductive, PTL DEF Spec
=============================================================================
