----------------------------- MODULE ForgeMaster ----------------------------
(***************************************************************************)
(* The master process: forge_master_run of src/master.c and forge_send_fd  *)
(* of src/net.c.  It forks the workers, accepts connections, hands them    *)
(* out round robin, reaps dead workers and, told to terminate, signals the *)
(* whole process group.                                                    *)
(***************************************************************************)
EXTENDS ForgeProcs

(* What a forked child holds: every channel end its parent holds. *)
Inherited(h, child) ==
  [w \in Worker |-> IF Master \in h[w] THEN h[w] \cup {child} ELSE h[w]]

(* socketpair(), fork() and the parent's close(pipes[i][1]): who holds the *)
(* receiving ends afterwards.                                              *)
ForkedEndsLeak(i) == Inherited([ctl EXCEPT ![i] = {Master}], i) \* mutant: no close
ForkedEnds(i) ==
  [Inherited([ctl EXCEPT ![i] = {Master}], i) EXCEPT ![i] = @ \ {Master}]

Fork ==
  /\ mpc = "fork" /\ forked < N
  /\ forked' = forked + 1
  /\ wpc' = [wpc EXCEPT ![forked] = "boot"]
  /\ gterm' = [gterm EXCEPT ![forked] = gterm[Master]]
  /\ lfd' = lfd \cup {forked}
  /\ ctl' = ForkedEnds(forked)
  /\ UNCHANGED <<mpc, next, dispatched, cfd, fresh, backlog, chan, open, reg,
                 batch, cur, faults>>

(* epoll_create1 and EPOLL_CTL_ADD of the listening socket. *)
Setup ==
  /\ mpc = "fork" /\ forked = N
  /\ mpc' = "top"
  /\ UNCHANGED <<forked, next, dispatched, cfd, socketVars, workerVars, gterm,
                 faults>>

(* socketpair, fork or epoll setup fails: forge_die calls exit(1) and the  *)
(* workers already forked are not signalled.                               *)
SetupFails ==
  /\ mpc = "fork" /\ Fault
  /\ mpc' = "died"
  /\ lfd' = lfd \ {Master}
  /\ backlog' = BacklogOf(backlog, lfd')
  /\ UNCHANGED <<forked, next, dispatched, cfd, fresh, ctl, chan, workerVars,
                 gterm>>

(* while (!atomic_load(&g_terminate)) *)
LoopTop ==
  /\ mpc = "top"
  /\ mpc' = IF gterm[Master] THEN "kill" ELSE "wait"
  /\ UNCHANGED <<forked, next, dispatched, cfd, socketVars, workerVars, gterm,
                 faults>>

(* epoll_wait with a timeout of 1000 ms: a pending connection, or nothing. *)
WaitOutcomeNoTimeout == IF backlog # {} THEN "accept" ELSE mpc \* mutant: -1
WaitOutcome == IF backlog # {} THEN "accept" ELSE "reap"

Wait ==
  /\ mpc = "wait"
  /\ mpc' = WaitOutcome
  /\ UNCHANGED <<forked, next, dispatched, cfd, socketVars, workerVars, gterm,
                 faults>>

(* epoll_wait fails with something other than EINTR: break. *)
WaitFails ==
  /\ mpc = "wait" /\ Fault
  /\ mpc' = "kill"
  /\ UNCHANGED <<forked, next, dispatched, cfd, socketVars, workerVars, gterm>>

NextTargetSkips(n) == IF n = 0 THEN 0 ELSE (n + 1) % N \* mutant: 0 is stuck
NextTargetNoWrap(n) == n + 1                            \* mutant: no modulo
NextTarget(n) == (n + 1) % N

(* sendmsg on a non-blocking datagram socket: ECONNREFUSED when nobody     *)
(* holds the other end, EAGAIN when the queue is full.                     *)
CanSend(w) == ctl[w] # {} /\ Cardinality(chan[w]) < QLen

(* The channels after forge_send_fd(pipes[t][0], c).  Its result changes   *)
(* nothing else: either way the master closes its own descriptor.          *)
AfterSendRetry(t, c) == \* mutant: sends to the worker after t as well
  [w \in Worker |-> IF w \in {t, NextTarget(t)} /\ CanSend(w)
                    THEN chan[w] \cup {c} ELSE chan[w]]
AfterSend(t, c) ==
  IF CanSend(t) THEN [chan EXCEPT ![t] = @ \cup {c}] ELSE chan

(* accept4 returns a connection, which goes to the next worker. *)
Dispatch ==
  /\ mpc = "accept"
  /\ \E c \in backlog :
       /\ backlog' = backlog \ {c}
       /\ cfd' = c
       /\ chan' = AfterSend(next, c)
  /\ dispatched' = [dispatched EXCEPT ![next] = @ + 1]
  /\ next' = NextTarget(next)
  /\ mpc' = "close"
  /\ UNCHANGED <<forked, fresh, lfd, ctl, workerVars, gterm, faults>>

(* close(cfd) in both branches. *)
CloseCfd ==
  /\ mpc = "close"
  /\ cfd' = NoConn
  /\ reg' = Registered(reg, NoConn, chan, open)
  /\ mpc' = "accept"
  /\ UNCHANGED <<forked, next, dispatched, socketVars, wpc, open, batch, cur,
                 gterm, faults>>

(* accept4 returns EAGAIN. *)
AcceptDrained ==
  /\ mpc = "accept" /\ backlog = {}
  /\ mpc' = "reap"
  /\ UNCHANGED <<forked, next, dispatched, cfd, socketVars, workerVars, gterm,
                 faults>>

(* accept4 fails otherwise (EMFILE, ENFILE, ENOMEM): break, and try again  *)
(* when the level-triggered epoll_wait reports the backlog once more.      *)
AcceptFails ==
  /\ mpc = "accept" /\ Fault
  /\ mpc' = "reap"
  /\ UNCHANGED <<forked, next, dispatched, cfd, socketVars, workerVars, gterm>>

(* while (waitpid(-1, &status, WNOHANG) > 0): nothing else is done about   *)
(* the death of a worker.                                                  *)
ReapedNever == wpc \* mutant: no waitpid
Reaped == [w \in Worker |-> IF wpc[w] = "zombie" THEN "gone" ELSE wpc[w]]

Reap ==
  /\ mpc = "reap"
  /\ wpc' = Reaped
  /\ mpc' = "top"
  /\ UNCHANGED <<forked, next, dispatched, cfd, socketVars, open, reg, batch,
                 cur, gterm, faults>>

(* kill(0, SIGTERM) reaches every process of the group; then the master    *)
(* closes its descriptors and returns.                                     *)
Shutdown ==
  /\ mpc = "kill"
  /\ gterm' = [p \in Proc |-> TRUE]
  /\ lfd' = lfd \ {Master}
  /\ backlog' = BacklogOf(backlog, lfd')
  /\ mpc' = "exited"
  /\ UNCHANGED <<forked, next, dispatched, cfd, fresh, ctl, chan, workerVars,
                 faults>>

MasterStep ==
  \/ Fork \/ Setup \/ LoopTop \/ Wait \/ Dispatch \/ CloseCfd
  \/ AcceptDrained \/ Reap \/ Shutdown
MasterFault == SetupFails \/ WaitFails \/ AcceptFails
=============================================================================
