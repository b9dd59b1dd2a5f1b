----------------------------- MODULE HttpServe ------------------------------
(***************************************************************************)
(* One worker and the clients of its connections: handle_read and the      *)
(* event loop of src/worker.c with the responses of src/http/static.c.     *)
(* How connections reach the worker is Forge's matter; here they are open  *)
(* from the start.                                                         *)
(***************************************************************************)
EXTENDS HttpParse

CONSTANTS
  Conns,     \* the worker's connections
  Modes,     \* the populations of clients: the connections they make, the kinds of
             \* request they send, how many on one connection (reqs) and how many
             \* of them without an answer (pipeline)
  MaxReqs,   \* bound: requests on one connection
  SndBuf,    \* units a socket's send buffer holds
  MaxFaults, \* bound: clients going away, files truncated, failing opens
  Patient,   \* connections whose clients go on reading what they are sent
  NoJob      \* nothing is being sent

VARIABLES
  mode,   \* the clients there are
  asked,  \* history: the kinds of request each client has sent in full
  sent,   \* units of its current request each client has sent, and its kind
  gone,   \* "no", "half" (shut down for writing) or "closed"
  stream, \* bytes received by the kernel and not read by the worker
  rcvd,   \* units of wrote[c] the client has taken from the connection
  live,   \* connections the worker has not closed
  rbuf,   \* c->rbuf up to c->rlen
  stale,  \* whether c->rbuf holds bytes of a former request beyond c->rlen
  wrote,  \* history: units written to each connection
  batch,  \* events of the last epoll_wait to be handled: connection and HUP
  job,    \* the sendfile loop: connection, keep_alive, remain and file length
  faults  \* faults still to come

clientVars == <<asked, sent, gone>>
connVars   == <<live, rbuf, stale>>
vars == <<mode, clientVars, stream, rcvd, connVars, wrote, batch, job, faults>>

Job == [conn : Conns, ka : BOOLEAN, remain : 0 .. FileLen, file : 0 .. FileLen]
Mode == [conns : SUBSET Conns, kinds : SUBSET AllKinds, reqs : 0 .. MaxReqs,
         pipeline : Nat \ {0}]

ASSUME ServeAssumption ==
  /\ MaxReqs \in Nat /\ MaxFaults \in Nat /\ SndBuf \in Nat \ {0}
  /\ NoJob \notin Job /\ Patient \subseteq Conns
  /\ Modes \subseteq Mode

Init ==
  /\ mode \in Modes
  /\ asked = [c \in Conns |-> <<>>]
  /\ sent = [c \in Conns |-> <<>>]
  /\ gone = [c \in Conns |-> "no"]
  /\ stream = [c \in Conns |-> <<>>]
  /\ rcvd = [c \in Conns |-> 0]
  /\ live = mode.conns
  /\ rbuf = [c \in Conns |-> <<>>]
  /\ stale = [c \in Conns |-> FALSE]
  /\ wrote = [c \in Conns |-> <<>>]
  /\ batch = {} /\ job = NoJob /\ faults = MaxFaults

Fault == faults > 0 /\ faults' = faults - 1
-----------------------------------------------------------------------------
(***************************************************************************)
(* The clients.                                                            *)
(***************************************************************************)
Answers(c) == Cardinality(Complete(SubSeq(wrote[c], 1, rcvd[c])))

(* The next unit of the request being sent, or the first of a new one.     *)
Send(c) ==
  /\ c \in live /\ gone[c] = "no"
  /\ \E u \in Unit :
       /\ u[1] \in mode.kinds
       /\ \/ /\ sent[c] = <<>> /\ First(u)
             /\ Len(asked[c]) < mode.reqs
             /\ Len(asked[c]) - Answers(c) < mode.pipeline
          \/ /\ sent[c] # <<>> /\ u = <<sent[c][1], sent[c][2] + 1>>
       /\ stream' = [stream EXCEPT ![c] = Append(@, u)]
       /\ sent' = [sent EXCEPT ![c] = IF Last(u) THEN <<>> ELSE u]
       /\ asked' = [asked EXCEPT ![c] = IF Last(u) THEN Append(@, u[1]) ELSE @]
  /\ UNCHANGED <<mode, gone, rcvd, connVars, wrote, batch, job, faults>>

(* The client reads what has arrived. *)
Receive(c) ==
  /\ gone[c] # "closed" /\ rcvd[c] < Len(wrote[c])
  /\ rcvd' = [rcvd EXCEPT ![c] = Len(wrote[c])]
  /\ UNCHANGED <<mode, clientVars, stream, connVars, wrote, batch, job, faults>>

(* The client shuts down its sending side, or closes the connection.       *)
Leave(c) ==
  /\ gone[c] # "closed" /\ Fault
  /\ \E g \in {"half", "closed"} \ {gone[c]} : gone' = [gone EXCEPT ![c] = g]
  /\ UNCHANGED <<mode, asked, sent, stream, rcvd, connVars, wrote, batch, job>>
-----------------------------------------------------------------------------
(***************************************************************************)
(* The worker.                                                             *)
(***************************************************************************)
Sending(c) == job # NoJob /\ job.conn = c

(* Units the socket of c takes before it would block. *)
Free(c) == SndBuf - (Len(wrote[c]) - rcvd[c])

(* write(fd, resp): what fits, nothing once the client has closed.         *)
Written(c, resp) ==
  IF gone[c] = "closed" THEN 0 ELSE Min({Len(resp), Free(c)})
Write(c, resp) ==
  wrote' = [wrote EXCEPT ![c] = @ \o SubSeq(resp, 1, Written(c, resp))]

ConnClose(c) == live' = live \ {c}

HandledStays(e) == batch \* mutant: the event is handled again
Handled(e) == batch \ {e}

(* epoll_wait(ep, events, MAX_EVENTS, 0): every connection with bytes to   *)
(* read or a client that has shut down or gone, as it is at that time.     *)
Readable(c) == stream[c] # <<>> \/ gone[c] # "no"

Poll ==
  /\ batch = {} /\ job = NoJob
  /\ batch' = {[conn |-> c, hup |-> gone[c] # "no"] : c \in {d \in live : Readable(d)}}
  /\ batch' # {}
  /\ UNCHANGED <<mode, clientVars, stream, rcvd, connVars, wrote, job, faults>>

(* EPOLLHUP, EPOLLERR or EPOLLRDHUP: the connection is closed whatever     *)
(* there is to read.                                                       *)
HandleHup ==
  /\ job = NoJob
  /\ \E e \in batch : e.hup /\ ConnClose(e.conn) /\ batch' = Handled(e)
  /\ UNCHANGED <<mode, clientVars, stream, rcvd, rbuf, stale, wrote, job, faults>>

(* read(fd, rbuf + rlen, RECV_BUF - rlen - 1): how much it takes of the    *)
(* stream, and the buffer it leaves.                                       *)
Taken(c) == Min({Len(stream[c]), RecvBuf - Len(rbuf[c]) - 1})
Buffer(c) == rbuf[c] \o SubSeq(stream[c], 1, Taken(c))
Read(c) ==
  /\ Taken(c) > 0
  /\ stream' = [stream EXCEPT ![c] = SubSeq(@, Taken(c) + 1, Len(@))]
  /\ rbuf' = [rbuf EXCEPT ![c] = Buffer(c)]

FullLate(buf) == Len(buf) >= RecvBuf \* mutant: off by one
Full(buf) == Len(buf) >= RecvBuf - 1

(* The branches of handle_read; in each the connection c has an event.     *)

(* The connection was reset since epoll_wait, or read returns 0.           *)
ReadFails(c) ==
  /\ gone[c] = "closed" \/ Taken(c) = 0
  /\ ConnClose(c)
  /\ UNCHANGED <<stream, rbuf, wrote, job, faults>>

(* The buffer is full: closed, be there a complete request in it or not.   *)
TooLong(c) ==
  /\ Read(c) /\ Full(Buffer(c))
  /\ ConnClose(c)
  /\ UNCHANGED <<wrote, job, faults>>

(* The parse yields k. *)
Request(c, k) == Read(c) /\ ~Full(Buffer(c)) /\ k \in Parsed(Buffer(c), stale[c])

(* false: keep the buffer and wait for more. *)
NeedMore(c) ==
  /\ Request(c, "more")
  /\ UNCHANGED <<live, wrote, job, faults>>

(* Not a GET: 400, close. *)
NotGet(c) ==
  /\ Request(c, "post")
  /\ Write(c, Bad) /\ ConnClose(c)
  /\ UNCHANGED <<job, faults>>

(* A GET of a file that is not there or cannot be opened: 404, and -1 is   *)
(* returned, which closes the connection whatever keep_alive is.           *)
NotFound(c) ==
  /\ \/ Request(c, "missing") /\ Write(c, Missing(TRUE)) /\ UNCHANGED faults
     \/ \E k \in {"get", "close"} : Request(c, k) /\ Write(c, Missing(k = "get")) /\ Fault
  /\ ConnClose(c)
  /\ UNCHANGED job

(* A GET of a file: the header is written; if it does not fit, close.      *)
HeaderSentAssumed(c, resp) == TRUE \* mutant: result of write not compared
HeaderSent(c, resp) == Written(c, resp) = Len(resp)
Get(c) ==
  /\ \E k \in {"get", "close"} :
       /\ Request(c, k) /\ Write(c, Ok(k = "get"))
       /\ IF HeaderSent(c, Ok(k = "get"))
          THEN /\ job' = [conn |-> c, ka |-> k = "get", remain |-> FileLen, file |-> FileLen]
               /\ UNCHANGED live
          ELSE ConnClose(c) /\ UNCHANGED job
  /\ UNCHANGED faults

HandleRead ==
  /\ job = NoJob
  /\ \E e \in batch :
       /\ ~e.hup /\ batch' = Handled(e)
       /\ \/ ReadFails(e.conn) \/ TooLong(e.conn) \/ NeedMore(e.conn)
          \/ NotGet(e.conn) \/ NotFound(e.conn) \/ Get(e.conn)
  /\ UNCHANGED <<mode, clientVars, rcvd, stale>>

(* sendfile sends some of the file; it blocks when the send buffer is full *)
(* (EAGAIN: again at once) and sends nothing when the file has become      *)
(* shorter (0: again at once): the loop only goes round in both.           *)
ChunkOver == 1 .. Min({SndBuf, Free(job.conn)}) \* mutant: not limited to remain
Chunk == 1 .. Min({job.remain, job.file, Free(job.conn)})
SendFile ==
  /\ job # NoJob /\ gone[job.conn] # "closed"
  /\ \E n \in Chunk :
       /\ wrote' = [wrote EXCEPT ![job.conn] = @ \o [i \in 1 .. n |-> More]]
       /\ job' = [job EXCEPT !.remain = @ - n, !.file = @ - n]
  /\ UNCHANGED <<mode, clientVars, stream, rcvd, connVars, batch, faults>>

(* sendfile fails: the client has closed. *)
SendFails ==
  /\ job # NoJob /\ job.remain > 0 /\ gone[job.conn] = "closed"
  /\ ConnClose(job.conn) /\ job' = NoJob
  /\ UNCHANGED <<mode, clientVars, stream, rcvd, rbuf, stale, wrote, batch, faults>>

(* The file is sent.  Whatever follows the request in the buffer goes:     *)
(* c->rlen = 0.  The connection is kept if keep_alive.                     *)
RemainsAll(buf) == buf \* mutant: no reset
Remains(buf) == <<>>
KeptAlways(ka) == TRUE \* mutant: keep_alive not looked at
Kept(ka) == ka
Finish ==
  /\ job # NoJob /\ job.remain = 0
  /\ rbuf' = [rbuf EXCEPT ![job.conn] = Remains(@)]
  /\ stale' = [stale EXCEPT ![job.conn] = TRUE]
  /\ IF Kept(job.ka) THEN UNCHANGED live ELSE ConnClose(job.conn)
  /\ job' = NoJob
  /\ UNCHANGED <<mode, clientVars, stream, rcvd, wrote, batch, faults>>

(* Another process truncates the file between fstat and the last sendfile. *)
Truncate ==
  /\ job # NoJob /\ job.file > 0 /\ Fault
  /\ \E n \in 0 .. job.file - 1 : job' = [job EXCEPT !.file = n]
  /\ UNCHANGED <<mode, clientVars, stream, rcvd, connVars, wrote, batch>>

WorkerStep == Poll \/ HandleHup \/ HandleRead \/ SendFile \/ SendFails \/ Finish

Next ==
  \/ WorkerStep \/ Truncate
  \/ \E c \in mode.conns : Send(c) \/ Receive(c) \/ Leave(c)

Spec == Init /\ [][Next]_vars

(* The worker runs.  That clients read is an assumption on them.           *)
FairSpec ==
  Spec /\ WF_vars(WorkerStep) /\ \A c \in Patient : WF_vars(Receive(c))
-----------------------------------------------------------------------------
ResponseUnit == [status : {0, 200, 400, 404}, ka : BOOLEAN, len : 0 .. FileLen + 1]

TypeOK ==
  /\ mode \in Mode
  /\ asked \in [Conns -> Seq(AllKinds)]
  /\ sent \in [Conns -> {<<>>} \cup Unit]
  /\ gone \in [Conns -> {"no", "half", "closed"}]
  /\ stream \in [Conns -> Seq(Unit)]
  /\ rcvd \in [Conns -> Nat]
  /\ live \subseteq Conns
  /\ rbuf \in [Conns -> Seq(Unit)]
  /\ stale \in [Conns -> BOOLEAN]
  /\ wrote \in [Conns -> Seq(ResponseUnit)]
  /\ batch \subseteq [conn : Conns, hup : BOOLEAN]
  /\ job \in Job \cup {NoJob}
  /\ faults \in 0 .. MaxFaults

(* A connection that is kept has room in its buffer for one more byte than *)
(* the terminator read() leaves out: the count RECV_BUF - rlen - 1 neither *)
(* wraps around nor is 0, which read() would answer with 0 as if the       *)
(* client had gone (worker.c:67-70).                                       *)
BufferBound == \A c \in live : Len(rbuf[c]) < RecvBuf - 1

(* What a connection was sent reads as a sequence of responses of the      *)
(* announced lengths.  Only the last may be cut short, and then it is      *)
(* being sent or the connection is closed: no branch that gives up half    *)
(* way (short header, failing sendfile) goes on to another response        *)
(* (static.c:20-90, worker.c:78-99).                                       *)
Framed ==
  \A c \in Conns :
    /\ \A i, j \in Starts(wrote[c]) : i < j => i + wrote[c][i].len < j
    /\ Starts(wrote[c]) # Complete(wrote[c]) => c \notin live \/ Sending(c)

(* A response that announces "Connection: close" is the last one, and once *)
(* it has been sent the connection is closed (static.c:63-71, worker.c:80, *)
(* worker.c:99).                                                           *)
CloseHonoured ==
  \A c \in live : \A i \in Starts(wrote[c]) :
    ~wrote[c][i].ka => Sending(c) /\ ~job.ka

(* The worker has no event of a connection it has closed, and none of the  *)
(* one it is sending on: data.ptr of an event is not a freed connection.   *)
EventsLive == \A e \in batch : e.conn \in live /\ ~Sending(e.conn)

Expected(k) ==
  CASE k = "missing" -> {404}
    [] k = "post"    -> {400}
    [] OTHER         -> {200} \cup IF faults < MaxFaults THEN {404} ELSE {}

(* With clients that wait for each answer, the n-th response answers the   *)
(* n-th request: nothing of a former request is left in the buffer when    *)
(* the next one is parsed, and no request is answered twice.  (A request   *)
(* line that is too short is completed from what the buffer held before.)  *)
AnswersMatch ==
  mode.pipeline = 1 /\ "bad" \notin mode.kinds => \A c \in Conns : \A i \in Starts(wrote[c]) :
    LET n == Cardinality({j \in Starts(wrote[c]) : j <= i})
    IN  n <= Len(asked[c]) /\ wrote[c][i].status \in Expected(asked[c][n])

(* Whatever the clients send and however they split it, pipeline it or go  *)
(* away, the worker answers no more than it was asked (worker.c:65-100).   *)
Dialogue == INSTANCE HttpDialogue WITH
  asked <- [c \in Conns |-> Len(asked[c])],
  answered <- [c \in Conns |-> Cardinality(Complete(wrote[c]))],
  over <- mode.conns \ live

ImplementsDialogue == Dialogue!Spec

(* The sendfile loop goes round for ever. *)
Wedged == job # NoJob /\ job.file < job.remain

(* With clients that wait for each answer and read it, every request is    *)
(* answered, or the connection closed, unless a file becomes shorter while *)
(* it is sent (worker.c:65-100, static.c:76-85).                           *)
Answered ==
  \A c \in Patient : \A n \in 1 .. MaxReqs :
    (mode.pipeline = 1 /\ Len(asked[c]) = n)
      ~> (Cardinality(Complete(wrote[c])) >= n \/ c \notin live \/ Wedged)

(* "need more bytes" (worker.c:74): what is kept in a buffer is not a      *)
(* complete request yet.                                                   *)
KeptIncomplete == \A c \in live : HeaderEnd(rbuf[c]) = 0 \/ Sending(c)

(* "reset buffer for next request (keep-alive)" (worker.c:86), of an       *)
(* "HTTP/1.1 static web server" (README.md:3): the next request of a       *)
(* connection that is kept is answered even if it has arrived already.     *)
NextAnswered ==
  \A c \in Conns : \A n \in 1 .. MaxReqs :
    Len(asked[c]) = n ~> (Cardinality(Complete(wrote[c])) >= n \/ c \notin live)

(* "each worker runs a non-blocking epoll event loop" (README.md:10): a    *)
(* client that does not read its response does not keep the clients that   *)
(* do read from being answered.                                            *)
NonBlockingLoop ==
  \A c \in Patient : \A n \in 1 .. MaxReqs :
    Len(asked[c]) = n ~> (Cardinality(Complete(wrote[c])) >= n \/ c \notin live)

(* "Connection: %s", keep_alive ? "keep-alive" : "close" (static.c:26-28): *)
(* after a response that announces keep-alive the connection is kept.      *)
KeepAliveHonoured ==
  [][\A c \in live \ live' :
       LET s == wrote'[c]
       IN  \A i \in Complete(s) \ Complete(wrote[c]) : ~s[i].ka]_vars
=============================================================================
