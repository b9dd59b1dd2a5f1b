--------------------------------- MODULE Ae ---------------------------------
(***************************************************************************)
(* The event loop of the load generator: tools/wrk/src/ae.c over           *)
(* ae_epoll.c, as functions of the thread's state.  Of that record this    *)
(* module uses events, polled (what epoll watches), maxfd, timers and, of  *)
(* the kernel, sock.                                                       *)
(***************************************************************************)
EXTENDS Integers, Sequences, FiniteSetsExt

CONSTANTS
  Fds,  \* the descriptors below the size of the set
  None  \* no callback, no connection

R == "readable"
W == "writable"

NoEvent == [mask |-> {}, rproc |-> None, wproc |-> None, data |-> None]

(* The fields of a loop without events and timers.                         *)
Events == [fd \in Fds |-> NoEvent]
Polled == [fd \in Fds |-> {}]

(* EPOLL_CTL_ADD of what is not watched yet, EPOLL_CTL_MOD of what is.     *)
AddUnmerged(g, fd, mask) == \* mutant: the events asked for before are not merged
  [g EXCEPT !.polled[fd] = mask]
aeApiAddEvent(g, fd, mask) ==
  [g EXCEPT !.polled[fd] = mask \cup g.events[fd].mask]
AddFails(g, fd) ==
  \/ g.sock[fd].st = "closed"
  \/ (g.events[fd].mask = {}) # (g.polled[fd] = {})
aeApiDelEvent(g, fd, mask) == [g EXCEPT !.polled[fd] = g.events[fd].mask \ mask]

aeCreateFileEvent(g, fd, mask, proc, data) ==
  IF fd \notin Fds \/ AddFails(g, fd) THEN g
  ELSE LET fe == g.events[fd]
       IN  [aeApiAddEvent(g, fd, mask) EXCEPT
              !.events[fd] = [mask  |-> fe.mask \cup mask,
                              rproc |-> IF R \in mask THEN proc ELSE fe.rproc,
                              wproc |-> IF W \in mask THEN proc ELSE fe.wproc,
                              data  |-> data],
              !.maxfd = IF fd > @ THEN fd ELSE @]

MaxfdWithout(g, fd) ==
  IF fd # g.maxfd THEN g.maxfd
  ELSE Max({-1} \cup {f \in Fds \ {fd} : f < fd /\ g.events[f].mask # {}})

aeDeleteFileEvent(g, fd, mask) ==
  IF fd \notin Fds \/ g.events[fd].mask = {} THEN g
  ELSE LET left == g.events[fd].mask \ mask
       IN  [aeApiDelEvent(g, fd, mask) EXCEPT
              !.events[fd].mask = left,
              !.maxfd = IF left = {} THEN MaxfdWithout(g, fd) ELSE @]

(* New timers are put on the head of the list.                             *)
aeCreateTimeEvent(g, proc, data) ==
  [g EXCEPT !.timers = <<[proc |-> proc, data |-> data]>> \o @]
-----------------------------------------------------------------------------
(* What epoll reports of a socket: an error is reported as writable even   *)
(* where nobody asked for that.                                            *)
Ready(s) ==
  CASE s.st = "up"     -> {W} \cup IF s.rx # <<>> \/ s.fin THEN {R} ELSE {}
    [] s.st = "failed" -> {R, W}
    [] OTHER           -> {}
Report(g, fd) ==
  IF g.polled[fd] = {} THEN {}
  ELSE (Ready(g.sock[fd]) \cap g.polled[fd])
       \cup IF g.sock[fd].st = "failed" THEN {W} ELSE {}

(* aeApiPoll: eventLoop->fired, in any order.                              *)
aeApiPoll(g) ==
  LET ready == {fd \in Fds : Report(g, fd) # {}}
      n == Cardinality(ready)
  IN  {[i \in 1 .. n |-> [fd |-> f[i], mask |-> Report(g, f[i])]] :
         f \in {f \in [1 .. n -> ready] : \A i, k \in 1 .. n : f[i] = f[k] => i = k}}

(* The two halves of the dispatch of a fired event: the mask is looked at  *)
(* again before each, and a callback that serves both runs once.           *)
Readable(g, e) == R \in g.events[e.fd].mask \cap e.mask
WritableBlind(g, e, rfired) == \* mutant: the callback of both runs twice
  W \in g.events[e.fd].mask \cap e.mask
Writable(g, e, rfired) ==
  /\ W \in g.events[e.fd].mask \cap e.mask
  /\ ~rfired \/ g.events[e.fd].wproc # g.events[e.fd].rproc
=============================================================================
