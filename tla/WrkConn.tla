------------------------------ MODULE WrkConn ------------------------------
(***************************************************************************)
(* The connections of one thread of the load generator, on its event loop: *)
(* connect_socket, socket_connected, socket_writeable, socket_readable,    *)
(* response_complete, reconnect_socket and delay_request of                *)
(* tools/wrk/src/wrk.c with the plain sockets of net.c.                    *)
(*                                                                         *)
(* A handler is a function from the state g of the thread and the kernel   *)
(* to the set of states it can leave.  A request has ReqLen units and asks *)
(* for pipeline responses.  A response begins with a unit "b" and ends     *)
(* with "k" (the connection is kept), "c" (it is closed) or, if only the   *)
(* end of the connection ends it, goes on with "z"; "x" is no response.    *)
(***************************************************************************)
EXTENDS Ae, FiniteSets

CONSTANTS
  Conns,    \* the connections of the thread
  ReqLen,   \* units of a request
  RecvBuf,  \* RECVBUF, in units
  Modes,    \* the configurations: [conns, delay, pipeline, fails, faults]
  MaxTimers \* bound: faults occur while there are fewer timers

ModeType == [conns : SUBSET Conns, delay : BOOLEAN, pipeline : Nat \ {0},
             fails : BOOLEAN, faults : BOOLEAN]
ASSUME LoopAssumption ==
  /\ Fds \subseteq Nat /\ IsFiniteSet(Fds) /\ Modes \subseteq ModeType
  /\ ReqLen \in Nat \ {0} /\ RecvBuf \in Nat \ {0} /\ MaxTimers \in Nat
  /\ None \notin {"socket_connected", "socket_writeable", "socket_readable"}

VARIABLES
  mode,   \* the connections used, cfg.delay, cfg.pipeline; may connect fail at
          \* once, has the network faults
  g,      \* the thread and the kernel
  making, \* the connections that thread_main has still to make
  at,     \* thread_main: "start"; aeProcessEvents: "poll" or "files"
  fired,  \* the events still to be dispatched
  part,   \* of the first one: R, "more" (socket_readable goes round) or W
  rfired, \* of the first one: its readable callback has run
  ran     \* the callback that ran last, its connection, and the socket it found

vars == <<mode, g, making, at, fired, part, rfired, ran>>

Stdin == 0  \* where the fd of a connection that was never made points
Closed == [st |-> "closed", rx |-> <<>>, fin |-> FALSE, got |-> 0, owe |-> 0,
           todo |-> <<>>, ends |-> FALSE]
NewConn == [fd |-> Stdin, written |-> 0, pending |-> 0, delayed |-> FALSE, ps |-> "none"]
-----------------------------------------------------------------------------
Close(s, fd) == [s EXCEPT !.sock[fd] = Closed, !.polled[fd] = {}]

(* The descriptor is any free one: other threads open and close, too.      *)
connect_socket(s, c) ==
  {[aeCreateFileEvent([s EXCEPT !.sock[fd].st = "connecting"],
                      fd, {R, W}, "socket_connected", c)
      EXCEPT !.conn[c].fd = fd, !.lost = @ \ {c}] :
     fd \in {fd \in Fds : s.sock[fd].st = "closed"}}
  \cup IF mode.fails THEN {[s EXCEPT !.lost = @ \cup {c}]} ELSE {}

ReconnectLeaks(s, c) == \* mutant: the old socket stays
  connect_socket(s, c)
reconnect_socket(s, c) ==
  LET fd == s.conn[c].fd
  IN  connect_socket(Close(aeDeleteFileEvent(s, fd, {R, W}), fd), c)

socket_connected(s, fd, c) ==
  LET q == [s EXCEPT !.conn[c].ps = "start", !.conn[c].written = 0]
  IN  {aeCreateFileEvent(aeCreateFileEvent(q, fd, {R}, "socket_readable", c),
                         fd, {W}, "socket_writeable", c)}
-----------------------------------------------------------------------------
(* The kernel takes n units; the server owes responses for each request.   *)
Taken(s, fd, n) ==
  LET got == s.sock[fd].got + n
  IN  [s EXCEPT !.sock[fd].got = got % ReqLen,
                !.sock[fd].owe = IF got >= ReqLen THEN @ + mode.pipeline ELSE @]

(* socket_writeable after a write of n units.                              *)
Wrote(s, fd, c, n) ==
  LET w == s.conn[c].written + n
      q == Taken([s EXCEPT !.conn[c].written = w % ReqLen], s.conn[c].fd, n)
  IN  IF w = ReqLen THEN aeDeleteFileEvent(q, fd, {W}) ELSE q

Delay(s, fd, c) ==
  aeCreateTimeEvent(aeDeleteFileEvent(s, fd, {W}), "delay_request", c)

PendingKept(s, c) == s \* mutant: what is expected is not counted anew
Begun(s, c) ==
  IF s.conn[c].written = 0 THEN [s EXCEPT !.conn[c].pending = mode.pipeline] ELSE s

socket_writeable(s, fd, c) ==
  IF s.conn[c].delayed THEN {Delay(s, fd, c)}
  ELSE LET q == Begun(s, c)
           k == s.conn[c].fd
           st == IF k \in Fds THEN s.sock[k].st ELSE "closed"
       IN  CASE st = "up" ->
                  {q} \cup {Wrote(q, fd, c, n) : n \in 1 .. ReqLen - s.conn[c].written}
                  \cup IF s.sock[k].fin THEN reconnect_socket(q, c) ELSE {}
             [] st = "connecting" -> {q}
             [] OTHER -> reconnect_socket(q, c)
-----------------------------------------------------------------------------
(* pending is unsigned: below zero it is far from zero.                    *)
Wrapped == -1
Less(n) == IF n > 0 THEN n - 1 ELSE Wrapped

WriteForgotten(s, c) == s \* mutant: the next request is not waited for
WriteNext(s, c) ==
  aeCreateFileEvent([s EXCEPT !.conn[c].delayed = mode.delay],
                    s.conn[c].fd, {W}, "socket_writeable", c)

response_complete(s, c, kept) ==
  LET q == [s EXCEPT !.conn[c].pending = Less(@)]
      r == IF q.conn[c].pending = 0 THEN WriteNext(q, c) ELSE q
  IN  IF kept THEN {[r EXCEPT !.conn[c].ps = "start"]}
      ELSE reconnect_socket([r EXCEPT !.conn[c].ps = "dead"], c)

(* http_parser_execute: states, each with what is wrong, after one unit.   *)
Parse(x, c, u) ==
  LET s == x.s
      Good(S) == {[s |-> q, bad |-> FALSE] : q \in S}
  IN  IF x.bad \/ s.conn[c].ps = "eof" THEN {x}
      ELSE CASE s.conn[c].ps = "start" /\ u = "b" -> Good({[s EXCEPT !.conn[c].ps = "mid"]})
           [] s.conn[c].ps = "mid" /\ u = "k" -> Good(response_complete(s, c, TRUE))
           [] s.conn[c].ps = "mid" /\ u = "c" -> Good(response_complete(s, c, FALSE))
           [] s.conn[c].ps = "mid" /\ u = "z" -> Good({[s EXCEPT !.conn[c].ps = "eof"]})
           [] OTHER -> {[x EXCEPT !.bad = TRUE]}

(* One round of socket_readable: a read, and what the parser makes of it.  *)
Filled(s, c) ==
  LET k == s.conn[c].fd
      n == Min({RecvBuf, Len(s.sock[k].rx)})
      q == [s EXCEPT !.sock[k].rx = SubSeq(@, n + 1, Len(@))]
      Parsed[i \in 0 .. n] ==
        IF i = 0 THEN {[s |-> q, bad |-> FALSE]}
        ELSE UNION {Parse(x, c, s.sock[k].rx[i]) : x \in Parsed[i - 1]}
  IN  Parsed[n]

(* A read of no bytes is an error in every state, also behind the response *)
(* that it completes: http_body_is_final never holds there.                *)
AtEnd(s, c) ==
  IF s.conn[c].ps = "eof" THEN response_complete(s, c, FALSE) ELSE {s}

socket_readable(s, c) ==
  LET k == s.conn[c].fd
  IN  IF s.sock[k].rx # <<>>
        THEN UNION {IF x.bad THEN reconnect_socket(x.s, c) ELSE {x.s} : x \in Filled(s, c)}
      ELSE IF s.sock[k].fin THEN UNION {reconnect_socket(q, c) : q \in AtEnd(s, c)}
      ELSE reconnect_socket(s, c)

(* n == RECVBUF && sock.readable(c) > 0: of the socket the connection has  *)
(* now, which may be another one than was read.                            *)
MoreBlind(s, q, c) == \* mutant: a full buffer is enough to read again
  Len(s.sock[s.conn[c].fd].rx) >= RecvBuf
More(s, q, c) ==
  /\ Len(s.sock[s.conn[c].fd].rx) >= RecvBuf
  /\ c \notin q.lost /\ q.sock[q.conn[c].fd].rx # <<>>
-----------------------------------------------------------------------------
delay_request(s, c) ==
  aeCreateFileEvent([s EXCEPT !.conn[c].delayed = FALSE],
                    s.conn[c].fd, {W}, "socket_writeable", c)

(* processTimeEvents, timer by timer, with those due at indices D: one that *)
(* was deleted is taken out, record_rate is set again, a delay is marked as *)
(* deleted, for the next time.                                             *)
Put(s, t) == [s EXCEPT !.timers = Append(@, t)]
Walk(s, t, due) ==
  CASE t.proc = "deleted" -> s
    [] t.proc = "delay_request" /\ due ->
         Put(delay_request(s, t.data), [t EXCEPT !.proc = "deleted"])
    [] OTHER -> Put(s, t)
processTimeEvents(s, D) ==
  LET Walked[i \in 0 .. Len(s.timers)] ==
        IF i = 0 THEN [s EXCEPT !.timers = <<>>]
        ELSE Walk(Walked[i - 1], s.timers[i], i \in D)
  IN  Walked[Len(s.timers)]

Call(proc, fd, c) ==
  CASE proc = "socket_connected" -> socket_connected(g, fd, c)
    [] proc = "socket_writeable" -> socket_writeable(g, fd, c)
    [] OTHER -> socket_readable(g, c)
Ran(proc, c) == [proc |-> proc, conn |-> c, sock |-> g.sock[g.conn[c].fd]]
Nothing == [proc |-> None, conn |-> None, sock |-> Closed]
=============================================================================
