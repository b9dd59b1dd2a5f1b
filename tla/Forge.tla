------------------------------- MODULE Forge --------------------------------
(***************************************************************************)
(* The server: master, workers, clients and signals together.              *)
(***************************************************************************)
EXTENDS ForgeMaster, ForgeWorker

Init ==
  /\ mpc = "fork" /\ forked = 0 /\ next = 0 /\ cfd = NoConn
  /\ dispatched = [w \in Worker |-> 0]
  /\ fresh = Conns /\ backlog = {} /\ lfd = {Master}
  /\ ctl = [w \in Worker |-> {}]
  /\ chan = [w \in Worker |-> {}]
  /\ wpc = [w \in Worker |-> "none"]
  /\ open = [w \in Worker |-> {}]
  /\ reg = [w \in Worker |-> {}]
  /\ batch = [w \in Worker |-> {}]
  /\ cur = [w \in Worker |-> NoConn]
  /\ gterm = [p \in Proc |-> FALSE]
  /\ faults = MaxFaults

(* A client's handshake completes: the kernel queues the connection. *)
Connect(c) ==
  /\ c \in fresh /\ lfd # {}
  /\ fresh' = fresh \ {c}
  /\ backlog' = backlog \cup {c}
  /\ UNCHANGED <<masterVars, lfd, ctl, chan, workerVars, gterm, faults>>

(* SIGINT or SIGTERM reaches one process: sig_handler sets g_terminate.  A *)
(* master blocked in epoll_wait gets EINTR and goes back to the loop's     *)
(* test; one between that test and epoll_wait does not.                    *)
Signal(p) ==
  /\ ~gterm[p]
  /\ p \in {Master} \cup {w \in Worker : wpc[w] \in Running}
  /\ gterm' = [gterm EXCEPT ![p] = TRUE]
  /\ \/ UNCHANGED mpc
     \/ p = Master /\ mpc = "wait" /\ mpc' = "top"
  /\ UNCHANGED <<forked, next, dispatched, cfd, socketVars, workerVars, faults>>

Environment ==
  \/ \E c \in Conns : Connect(c)
  \/ \E p \in Proc : Signal(p)

Next ==
  \/ MasterStep \/ MasterFault
  \/ \E w \in Worker : WorkerStep(w) \/ FinishServe(w) \/ WorkerFault(w)
  \/ Environment

Spec == Init /\ [][Next]_vars

(* The operating system runs every process that can run. *)
SchedulerFairness ==
  /\ WF_vars(MasterStep)
  /\ \A w \in Worker : WF_vars(WorkerStep(w))

(* An assumption on the clients, not on the code: the client of a response *)
(* in progress reads it or goes away, so that http_send_static_file ends.  *)
ClientsDrain == \A w \in Worker : WF_vars(FinishServe(w))

FairSpec == Spec /\ SchedulerFairness /\ ClientsDrain
-----------------------------------------------------------------------------
TypeOK ==
  /\ mpc \in MasterStates
  /\ forked \in 0 .. N
  /\ next \in Worker
  /\ dispatched \in [Worker -> Nat]
  /\ cfd \in Conns \cup {NoConn}
  /\ fresh \subseteq Conns
  /\ backlog \subseteq Conns
  /\ lfd \subseteq Proc
  /\ ctl \in [Worker -> SUBSET Proc]
  /\ chan \in [Worker -> SUBSET Conns]
  /\ wpc \in [Worker -> WorkerStates]
  /\ open \in [Worker -> SUBSET Conns]
  /\ reg \in [Worker -> SUBSET Conns]
  /\ batch \in [Worker -> SUBSET (Conns \cup {Ctl})]
  /\ cur \in [Worker -> Conns \cup {NoConn}]
  /\ gterm \in [Proc -> BOOLEAN]
  /\ faults \in 0 .. MaxFaults

(* A connection is in one place at a time: fresh, queued, in one channel   *)
(* or with one worker, whatever the master's descriptor still refers to.   *)
(* Passing a descriptor duplicates it (forge_send_fd, then close(cfd)), so *)
(* a slip in the hand-over would have two processes answer one client.     *)
OnePlace ==
  /\ fresh \cap backlog = {}
  /\ cfd \notin fresh \cup backlog
  /\ \A w \in Worker :
       /\ chan[w] \cap open[w] = {}
       /\ (chan[w] \cup open[w]) \cap (fresh \cup backlog) = {}
       /\ \A v \in Worker \ {w} :
            (chan[w] \cup open[w]) \cap (chan[v] \cup open[v]) = {}

(* The epoll set of a worker is exactly its connections.  A registration   *)
(* without a connection would deliver a freed forge_conn_t as data.ptr;    *)
(* it could outlive close(c->fd), because the master may not yet have      *)
(* closed its own descriptor.  A connection without a registration would   *)
(* never be looked at again.                                               *)
PollSetExact == \A w \in Worker : reg[w] = open[w]

(* An event waiting in the batch still refers to a connection: closing one *)
(* connection, or adopting others, in the middle of a batch does not free  *)
(* what a later event points to.                                           *)
BatchFresh ==
  \A w \in Worker :
    /\ batch[w] \subseteq open[w] \cup {Ctl}
    /\ wpc[w] = "serve" => cur[w] \in open[w] \ batch[w]

(* A connection in a control channel has a running worker to take it out.  *)
(* It relies on who inherits the ends of the socketpairs at the forks.     *)
ChannelHasReader == \A w \in Worker : chan[w] # {} => wpc[w] \in Running

(* Round robin: the number of connections sent to two workers differs by   *)
(* at most one, the lower-numbered worker being first (README.md:9).       *)
RoundRobin ==
  \A v, w \in Worker : v < w => dispatched[v] - dispatched[w] \in {0, 1}

(* What makes ChannelHasReader inductive: the receiving end of a channel   *)
(* is held by its worker alone, as long as that worker runs.               *)
EndsHeld ==
  /\ \A w \in Worker : ctl[w] = IF wpc[w] \in Running THEN {w} ELSE {}
  /\ \A w \in Worker : chan[w] # {} => ctl[w] # {}

(* What makes RoundRobin inductive: the workers below next are one ahead.  *)
Balanced ==
  \A w \in Worker :
    dispatched[w] = dispatched[N - 1] + IF w < next THEN 1 ELSE 0

(* The inductive invariant of the server. *)
IInv ==
  /\ TypeOK /\ OnePlace /\ PollSetExact /\ BatchFresh
  /\ EndsHeld /\ Balanced
-----------------------------------------------------------------------------
(* The life of a connection as a client would describe it. *)
Phase(c) ==
  CASE c \in fresh   -> "fresh"
    [] c \in backlog -> "queued"
    [] InChan(c)     -> "passed"
    [] Owned(c)      -> "owned"
    [] OTHER         -> "over"

Holder(c) ==
  IF \E w \in Worker : c \in chan[w] \cup open[w]
  THEN CHOOSE w \in Worker : c \in chan[w] \cup open[w]
  ELSE N

Lifecycle == INSTANCE ConnLifecycle WITH
  Workers <- Worker, NoWorker <- N,
  phase <- [c \in Conns |-> Phase(c)],
  holder <- [c \in Conns |-> Holder(c)]

(* Master, channels and workers implement the life of a connection. *)
ImplementsLifecycle == Lifecycle!Spec

(* Under the scheduler's fairness, and as long as no client holds up a     *)
(* worker for ever, every queued connection is adopted or closed.          *)
ConnectionsSettle == Lifecycle!Settles

(* Everything has stopped. *)
AllDown ==
  mpc = "exited" /\ \A w \in Worker : wpc[w] \in {"zombie", "gone"}

(* A master told to terminate brings all processes down.  Nothing wakes    *)
(* it if the signal comes between its test of g_terminate and epoll_wait:  *)
(* the timeout of epoll_wait does.                                         *)
ShutdownCompletes == gterm[Master] ~> (AllDown \/ mpc = "died")

(* A worker that ended is reaped as long as there is a master. *)
ZombiesReaped ==
  \A w \in Worker : wpc[w] = "zombie" ~> (wpc[w] = "gone" \/ mpc \in {"exited", "died"})

(* "handle worker death" (src/master.c:102): once the master has reaped a  *)
(* dead worker, it passes the connections it accepts to those that live    *)
(* and have room.                                                          *)
WorkerDeathHandled ==
  [][\A c \in Conns :
       (/\ mpc = "accept" /\ cfd' = c /\ wpc[next] = "gone"
        /\ \E w \in Worker : wpc[w] \in Running /\ CanSend(w))
       => InChan(c)']_vars
=============================================================================
