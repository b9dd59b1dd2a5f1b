----------------------------- MODULE ForgeWorker ----------------------------
(***************************************************************************)
(* A worker process: forge_run_worker and conn_close of src/worker.c and   *)
(* forge_recv_fd of src/net.c.  What the handling of a request does to the *)
(* bytes of a connection is left open here: it keeps the connection,       *)
(* closes it, or first spends time in http_send_static_file.               *)
(***************************************************************************)
EXTENDS ForgeProcs

Goto(w, pc) == wpc' = [wpc EXCEPT ![w] = pc]

(* After an event: the next one of the batch, or back to epoll_wait. *)
Resume(w, b) == IF b = {} THEN "poll" ELSE "batch"

(* The child closes the listening socket and builds its epoll set. *)
Boot(w) ==
  /\ wpc[w] = "boot"
  /\ Goto(w, "poll")
  /\ lfd' = lfd \ {w}
  /\ backlog' = BacklogOf(backlog, lfd')
  /\ UNCHANGED <<masterVars, fresh, ctl, chan, open, reg, batch, cur, gterm,
                 faults>>

(* epoll_wait(ep, events, MAX_EVENTS, 0): the control socket when it has   *)
(* something to read, and any connections of the epoll set.                *)
Poll(w) ==
  /\ wpc[w] = "poll" /\ ~gterm[w]
  /\ \E ready \in SUBSET reg[w] :
       LET events == ready \cup (IF chan[w] # {} THEN {Ctl} ELSE {})
       IN /\ events # {}
          /\ batch' = [batch EXCEPT ![w] = events]
  /\ Goto(w, "batch")
  /\ UNCHANGED <<masterVars, socketVars, open, reg, cur, gterm, faults>>

(* g_terminate is set: leave the loop and _exit(0). *)
Exit(w) ==
  /\ wpc[w] = "poll" /\ gterm[w]
  /\ Teardown(w)
  /\ UNCHANGED faults

(* The event of the control socket. *)
TakeControl(w) ==
  /\ wpc[w] = "batch" /\ Ctl \in batch[w]
  /\ batch' = [batch EXCEPT ![w] = @ \ {Ctl}]
  /\ Goto(w, "control")
  /\ UNCHANGED <<masterVars, socketVars, open, reg, cur, gterm, faults>>

(* One turn of the for (;;) around forge_recv_fd: calloc, EPOLL_CTL_ADD. *)
RecvFd(w) ==
  /\ wpc[w] = "control"
  /\ \E c \in chan[w] :
       /\ chan' = [chan EXCEPT ![w] = @ \ {c}]
       /\ open' = [open EXCEPT ![w] = @ \cup {c}]
       /\ reg' = [reg EXCEPT ![w] = @ \cup {c}]
  /\ UNCHANGED <<masterVars, fresh, backlog, lfd, ctl, wpc, batch, cur, gterm,
                 faults>>

(* calloc or EPOLL_CTL_ADD fails: close(cfd) and receive the next one.  Or *)
(* the descriptor table is full: the kernel drops the descriptor, the      *)
(* message carries none, forge_recv_fd returns -1 and the loop ends.       *)
RecvFdFails(w) ==
  /\ wpc[w] = "control" /\ Fault
  /\ \E c \in chan[w] :
       chan' = [chan EXCEPT ![w] = @ \ {c}]
  /\ \/ Goto(w, "control")
     \/ Goto(w, Resume(w, batch[w]))
  /\ UNCHANGED <<masterVars, fresh, backlog, lfd, ctl, open, reg, batch, cur,
                 gterm>>

(* recvmsg returns EAGAIN. *)
ControlDrained(w) ==
  /\ wpc[w] = "control" /\ chan[w] = {}
  /\ Goto(w, Resume(w, batch[w]))
  /\ UNCHANGED <<masterVars, socketVars, open, reg, batch, cur, gterm, faults>>

(* conn_close: EPOLL_CTL_DEL, close, free. *)
ConnCloseNoDel(w, c) == \* mutant: close alone
  /\ open' = [open EXCEPT ![w] = @ \ {c}]
  /\ reg' = Registered(reg, cfd, chan, open')
ConnClose(w, c) ==
  /\ open' = [open EXCEPT ![w] = @ \ {c}]
  /\ reg' = Registered([reg EXCEPT ![w] = @ \ {c}], cfd, chan, open')

(* An event of connection c is handled without sending a file: the peer    *)
(* hung up, the read failed or hit its limit, or the request is answered   *)
(* with 400 (close); or more bytes are needed (keep).                      *)
HandleConnTwice(w, c) == \* mutant: the event is handled again after the close
  /\ wpc[w] = "batch" /\ c \in batch[w] \ {Ctl}
  /\ ConnClose(w, c)
  /\ UNCHANGED <<masterVars, socketVars, wpc, batch, cur, gterm, faults>>
HandleConn(w, c) ==
  /\ wpc[w] = "batch" /\ c \in batch[w] \ {Ctl}
  /\ batch' = [batch EXCEPT ![w] = @ \ {c}]
  /\ Goto(w, Resume(w, batch'[w]))
  /\ \/ ConnClose(w, c)
     \/ UNCHANGED <<open, reg>>
  /\ UNCHANGED <<masterVars, socketVars, cur, gterm, faults>>

(* A GET: the worker enters http_send_static_file ... *)
StartServe(w, c) ==
  /\ wpc[w] = "batch" /\ c \in batch[w] \ {Ctl}
  /\ batch' = [batch EXCEPT ![w] = @ \ {c}]
  /\ cur' = [cur EXCEPT ![w] = c]
  /\ Goto(w, "serve")
  /\ UNCHANGED <<masterVars, socketVars, open, reg, gterm, faults>>

(* ... and returns from it when the client has taken the response; the     *)
(* connection is kept alive or closed.                                     *)
FinishServe(w) ==
  /\ wpc[w] = "serve"
  /\ cur' = [cur EXCEPT ![w] = NoConn]
  /\ Goto(w, Resume(w, batch[w]))
  /\ \/ ConnClose(w, cur[w])
     \/ UNCHANGED <<open, reg>>
  /\ UNCHANGED <<masterVars, socketVars, batch, gterm, faults>>

(* The worker is killed, or forge_die or a failing epoll_wait ends it. *)
Die(w) ==
  /\ wpc[w] \in Running /\ Fault
  /\ Teardown(w)

WorkerStep(w) ==
  \/ Boot(w) \/ Poll(w) \/ Exit(w) \/ TakeControl(w) \/ RecvFd(w)
  \/ ControlDrained(w)
  \/ \E c \in Conns : HandleConn(w, c) \/ StartServe(w, c)
WorkerFault(w) == RecvFdFails(w) \/ Die(w)
=============================================================================
