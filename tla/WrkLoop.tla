------------------------------ MODULE WrkLoop -------------------------------
(***************************************************************************)
(* One thread of the load generator at work: aeMain calls aeProcessEvents  *)
(* (tools/wrk/src/ae.c) again and again, which polls, runs the callbacks   *)
(* of WrkConn one after another, and then the timers; between any two      *)
(* callbacks the server and the network do what they like.                 *)
(***************************************************************************)
EXTENDS WrkConn

(* thread_main: no connection has a socket, no timer runs.                 *)
Start(m) ==
  [events |-> Events, polled |-> Polled, maxfd |-> -1, timers |-> <<>>,
   sock |-> [fd \in Fds |-> Closed], lost |-> m.conns,
   conn |-> [c \in Conns |-> [NewConn EXCEPT !.delayed = m.delay]]]

Init ==
  /\ mode \in Modes /\ g = Start(mode) /\ making = mode.conns
  /\ at = "start" /\ fired = <<>> /\ part = R /\ rfired = FALSE /\ ran = Nothing

(* The connections are made one by one, then the timer record_rate.        *)
Make ==
  /\ at = "start"
  /\ \E c \in making : g' \in connect_socket(g, c) /\ making' = making \ {c}
  /\ UNCHANGED <<mode, at, fired, part, rfired, ran>>
Enter ==
  /\ at = "start" /\ making = {}
  /\ at' = "poll" /\ g' = aeCreateTimeEvent(g, "record_rate", None)
  /\ UNCHANGED <<mode, making, fired, part, rfired, ran>>

(* aeApiPoll: it may time out instead, for a timer.                        *)
Poll ==
  /\ at = "poll"
  /\ at' = "files"
  /\ fired' \in aeApiPoll(g)
  /\ UNCHANGED <<mode, g, making, part, rfired, ran>>

DispatchReadable ==
  /\ at = "files" /\ fired # <<>> /\ part = R
  /\ LET e == Head(fired)
         fe == g.events[e.fd]
     IN  IF Readable(g, e)
           THEN /\ g' \in Call(fe.rproc, e.fd, fe.data)
                /\ rfired' = TRUE
                /\ ran' = Ran(fe.rproc, fe.data)
                /\ part' = IF fe.rproc = "socket_readable" /\ More(g, g', fe.data)
                             THEN "more" ELSE W
           ELSE rfired' = FALSE /\ part' = W /\ ran' = Nothing /\ UNCHANGED g
  /\ UNCHANGED <<mode, making, at, fired>>

(* The loop inside socket_readable.                                        *)
ReadMore ==
  /\ at = "files" /\ part = "more"
  /\ g' \in socket_readable(g, ran.conn)
  /\ ran' = Ran("socket_readable", ran.conn)
  /\ part' = IF More(g, g', ran.conn) THEN "more" ELSE W
  /\ UNCHANGED <<mode, making, at, fired, rfired>>

DispatchWritable ==
  /\ at = "files" /\ part = W
  /\ LET e == Head(fired)
         fe == g.events[e.fd]
     IN  IF Writable(g, e, rfired)
           THEN g' \in Call(fe.wproc, e.fd, fe.data) /\ ran' = Ran(fe.wproc, fe.data)
           ELSE ran' = Nothing /\ UNCHANGED g
  /\ fired' = Tail(fired) /\ part' = R /\ rfired' = FALSE
  /\ UNCHANGED <<mode, making, at>>

TimeEvents ==
  /\ at = "files" /\ fired = <<>>
  /\ at' = "poll" /\ ran' = Nothing
  /\ \E D \in SUBSET DOMAIN g.timers : g' = processTimeEvents(g, D)
  /\ UNCHANGED <<mode, making, fired, part, rfired>>

Loop == Make \/ Enter \/ Poll \/ DispatchReadable \/ ReadMore \/ DispatchWritable \/ TimeEvents
-----------------------------------------------------------------------------
(* The network and the server.                                             *)
Network(fd, s) ==
  /\ g' = [g EXCEPT !.sock[fd] = s]
  /\ UNCHANGED <<mode, making, at, fired, part, rfired, ran>>

Establish(fd) ==
  /\ g.sock[fd].st = "connecting"
  /\ Network(fd, [g.sock[fd] EXCEPT !.st = "up"])

(* One of the responses owed, whole or its beginning first.                *)
Answer(fd, kind) ==
  LET s == g.sock[fd]
      left == [s EXCEPT !.owe = IF kind = "k" THEN @ - 1 ELSE 0, !.ends = kind # "k"]
  IN  /\ s.st = "up" /\ ~s.fin /\ s.owe > 0 /\ s.todo = <<>>
      /\ \/ Network(fd, [left EXCEPT !.rx = @ \o <<"b", kind>>])
         \/ Network(fd, [left EXCEPT !.rx = @ \o <<"b">>, !.todo = <<kind>>])

Deliver(fd) ==
  LET s == g.sock[fd]
  IN  /\ s.st = "up" /\ s.todo # <<>>
      /\ Network(fd, [s EXCEPT !.rx = @ \o s.todo, !.todo = <<>>])

(* The server closes behind the response it announced that for.            *)
Finish(fd) ==
  LET s == g.sock[fd]
  IN  /\ s.st = "up" /\ s.ends /\ s.todo = <<>> /\ ~s.fin
      /\ Network(fd, [s EXCEPT !.fin = TRUE])

(* Faults: a connection is refused or reset, the server closes or sends    *)
(* what is no response.                                                    *)
Faulty == mode.faults /\ Len(g.timers) < MaxTimers
Fail(fd) ==
  /\ Faulty /\ g.sock[fd].st \in {"connecting", "up"}
  /\ Network(fd, [Closed EXCEPT !.st = "failed"])
Hangup(fd) ==
  /\ Faulty /\ g.sock[fd].st = "up" /\ ~g.sock[fd].fin
  /\ Network(fd, [g.sock[fd] EXCEPT !.fin = TRUE, !.owe = 0, !.todo = <<>>])
Garble(fd) ==
  LET s == g.sock[fd]
  IN  /\ Faulty /\ s.st = "up" /\ s.owe > 0 /\ ~s.fin /\ s.todo = <<>>
      /\ Network(fd, [s EXCEPT !.rx = @ \o <<"x">>, !.owe = 0, !.ends = TRUE])

Outside ==
  \E fd \in Fds :
    \/ Establish(fd) \/ Deliver(fd) \/ Finish(fd) \/ Fail(fd) \/ Hangup(fd) \/ Garble(fd)
    \/ \E kind \in {"k", "c", "z"} : Answer(fd, kind)

Next == Loop \/ Outside
Spec == Init /\ [][Next]_vars
-----------------------------------------------------------------------------
Live == mode.conns \ g.lost
Own(c) == g.sock[g.conn[c].fd]
Event(c) == g.events[g.conn[c].fd]

(* No connection is replaced while its delay runs: the timer would be left *)
(* over and fire for the new socket (wrk.c:291-296).                       *)
ReplacedInTime == ~(mode.delay /\ mode.faults)

(* The loop and epoll watch for the same, on open sockets only, so that    *)
(* the choice between adding and modifying is right and no event is lost;  *)
(* maxfd is the highest descriptor watched (ae.c:134-170, ae_epoll.c:75-105). *)
LoopExact ==
  /\ \A fd \in Fds : /\ g.polled[fd] = g.events[fd].mask
                     /\ g.polled[fd] # {} => g.sock[fd].st # "closed"
  /\ g.maxfd = Max({-1} \cup {fd \in Fds : g.events[fd].mask # {}})

(* Every connection has one socket and every open socket one connection,   *)
(* to which its events go, whatever path of the code replaced it: none is  *)
(* leaked, and none is shared (wrk.c:236-271, 351-353, 445-447).           *)
OneSocket ==
  /\ {fd \in Fds : g.sock[fd].st # "closed"} = {g.conn[c].fd : c \in Live}
  /\ \A c \in Live : /\ Event(c).data = c /\ R \in Event(c).mask
                     /\ \A d \in Live \ {c} : g.conn[d].fd # g.conn[c].fd

(* socket_connected never runs on a socket that is not connected yet,      *)
(* although a readable callback may have replaced the socket between the   *)
(* poll and the writable half of its event (ae.c:407-419).                 *)
ConnectedTrue == ran.proc # None => ran.sock.st \notin {"connecting", "closed"}

(* socket_readable never reads where there is nothing: net.c:17-21 would   *)
(* take EAGAIN for an error and replace a healthy connection.              *)
ReadsHaveData ==
  ran.proc = "socket_readable" =>
    ran.sock.rx # <<>> \/ ran.sock.fin \/ ran.sock.st = "failed"

(* Requests and responses stay in step, with pipelining, too: the server   *)
(* has got of a request what wrk has written of it, no more is outstanding *)
(* than is pending, nothing before the request is written again, and all   *)
(* that is pending, unless the end of the connection has been announced or *)
(* has come (wrk.c:342-349, 393-399).                                      *)
Ends(q) == Cardinality({i \in DOMAIN q : q[i] \in {"k", "c", "z"}})
Outstanding(s) == s.owe + Ends(s.rx) + Ends(s.todo)
Connected(c) == Event(c).rproc = "socket_readable" /\ Own(c).st = "up"
InStep ==
  ReplacedInTime => \A c \in Live : Connected(c) =>
    LET s == Own(c)
        n == IF W \in Event(c).mask THEN 0 ELSE g.conn[c].pending
    IN  /\ s.got = g.conn[c].written
        /\ Outstanding(s) <= n
        /\ Outstanding(s) = n \/ s.ends \/ s.fin

(* No connection waits for nothing: it is being made, has something to     *)
(* write, a delay to wait for, or a response that is on its way or an end  *)
(* to read (wrk.c:236-448): the load goes on.                              *)
NeverIdle ==
  ReplacedInTime => \A c \in Live :
    LET s == Own(c)
    IN  \/ s.st = "connecting" /\ Event(c).mask = {R, W}
        \/ W \in Event(c).mask
        \/ \E i \in DOMAIN g.timers :
             g.timers[i].proc = "delay_request" /\ g.timers[i].data = c
        \/ /\ R \in Event(c).mask
           /\ s.st = "failed" \/ s.fin \/ s.ends \/ s.owe > 0 \/ s.rx \o s.todo # <<>>
=============================================================================
