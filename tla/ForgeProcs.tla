----------------------------- MODULE ForgeProcs -----------------------------
(***************************************************************************)
(* The state the forge processes share, and the kernel rules they rely on. *)
(*                                                                         *)
(* One master accepts TCP connections and passes each file descriptor over *)
(* a datagram socketpair to one of N workers (src/master.c, src/net.c);    *)
(* each worker polls its connections with epoll (src/worker.c).            *)
(*                                                                         *)
(* A connection is an open file description: the listen backlog, the       *)
(* master's cfd, a control channel and a worker's forge_conn_t may each    *)
(* hold a reference to it, and the client sees it closed only when the     *)
(* last reference is gone.  So is an epoll registration: closing ONE       *)
(* descriptor does not remove it while another reference lives.            *)
(***************************************************************************)
EXTENDS Integers, FiniteSets

CONSTANTS
  N,          \* number of workers (-w)
  Conns,      \* the connections clients may open
  QLen,       \* datagrams a control socketpair holds (net.unix.max_dgram_qlen)
  MaxFaults,  \* bound: how many system calls may fail and processes be killed
  Ctl,        \* the epoll event of the control socket (&control_marker)
  NoConn      \* no connection

Worker == 0 .. N - 1
Master == N
Proc   == 0 .. N

ASSUME ForgeAssumption ==
  /\ N \in Nat \ {0}
  /\ QLen \in Nat \ {0}
  /\ MaxFaults \in Nat
  /\ Ctl \notin Conns
  /\ NoConn \notin Conns

VARIABLES
  mpc,        \* where the master is in forge_master_run
  forked,     \* workers forked so far (the i of the prefork loop)
  next,       \* the worker the next connection goes to
  dispatched, \* history: connections sent, or tried to be sent, to each worker
  cfd,        \* the connection the master holds a descriptor of, or NoConn
  fresh,      \* connections not yet opened by a client
  backlog,    \* connections waiting in the listen queue
  lfd,        \* processes holding the listening socket
  ctl,        \* processes holding the worker end pipes[w][1] of channel w
  chan,       \* connections in flight in the control channel of each worker
  wpc,        \* where each worker is in its life and its event loop
  open,       \* connections a worker holds a forge_conn_t and an fd of
  reg,        \* connections registered in a worker's epoll set
  batch,      \* events of the last epoll_wait still to be processed
  cur,        \* the connection a worker is sending a file on, or NoConn
  gterm,      \* g_terminate of each process
  faults      \* faults still to come

masterVars == <<mpc, forked, next, dispatched, cfd>>
socketVars == <<fresh, backlog, lfd, ctl, chan>>
workerVars == <<wpc, open, reg, batch, cur>>
vars == <<masterVars, socketVars, workerVars, gterm, faults>>

(* A worker process that exists and has not exited. *)
Running == {"boot", "poll", "batch", "control", "serve"}
WorkerStates == Running \cup {"none", "zombie", "gone"}
MasterStates == {"fork", "top", "wait", "accept", "close", "reap", "kill",
                 "exited", "died"}

InChan(c) == \E w \in Worker : c \in chan[w]
Owned(c)  == \E w \in Worker : c \in open[w]

(***************************************************************************)
(* Kernel rules.                                                           *)
(***************************************************************************)

(* The connections something refers to, given the master's descriptor f,   *)
(* the channels q and the workers' descriptors h.                          *)
Referenced(f, q, h) == {f} \cup UNION {q[w] \cup h[w] : w \in Worker}

(* Registrations r that survive: the kernel drops one with its last        *)
(* reference.                                                              *)
Registered(r, f, q, h) == [w \in Worker |-> r[w] \cap Referenced(f, q, h)]

(* The backlog b once the listening socket is held by the processes l.     *)
BacklogOf(b, l) == IF l = {} THEN {} ELSE b

(* A fault uses up one of the MaxFaults. *)
Fault == faults > 0 /\ faults' = faults - 1

(* A worker process ends, by exit or by a signal: the kernel closes its    *)
(* descriptors, and with the last receiver of a channel what is in it.     *)
Teardown(w) ==
  /\ wpc' = [wpc EXCEPT ![w] = "zombie"]
  /\ open' = [open EXCEPT ![w] = {}]
  /\ reg' = [reg EXCEPT ![w] = {}]
  /\ batch' = [batch EXCEPT ![w] = {}]
  /\ cur' = [cur EXCEPT ![w] = NoConn]
  /\ lfd' = lfd \ {w}
  /\ backlog' = BacklogOf(backlog, lfd')
  /\ ctl' = [v \in Worker |-> ctl[v] \ {w}]
  /\ chan' = [v \in Worker |-> IF ctl'[v] = {} THEN {} ELSE chan[v]]
  /\ UNCHANGED <<masterVars, fresh, gterm>>
=============================================================================
