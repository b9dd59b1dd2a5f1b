---------------------------- MODULE ForgeProofs -----------------------------
(***************************************************************************)
(* Proofs, for every number of workers, connections, queue length and      *)
(* faults, that IInv is an invariant of the server and that the safety     *)
(* properties of Forge follow from it.                                     *)
(***************************************************************************)
EXTENDS Forge, TLAPS

USE ForgeAssumption DEF ForgeAssumption

(* The round robin successor of a worker is a worker: the one after it,    *)
(* or 0 (master.c:90).                                                     *)
LEMMA NextTargetIs ==
  ASSUME NEW n \in Worker
  PROVE  NextTarget(n) = IF n = N - 1 THEN 0 ELSE n + 1
<1>1. CASE n = N - 1
  BY <1>1 DEF NextTarget, Worker
<1>2. CASE n # N - 1
  BY <1>2 DEF NextTarget, Worker
<1> QED BY <1>1, <1>2

USE DEF Worker, Master, Proc, vars, masterVars, socketVars, workerVars,
        Fault, Goto, Resume, BacklogOf, Running, WorkerStates, MasterStates

(* The end of a worker process leaves its types to the variables.          *)
LEMMA TeardownType ==
  ASSUME TypeOK, NEW w \in Worker, Teardown(w), faults' \in 0 .. MaxFaults
  PROVE  TypeOK'
<1> USE DEF TypeOK
<1>1. /\ wpc' \in [Worker -> WorkerStates]
      /\ open' \in [Worker -> SUBSET Conns]
      /\ reg' \in [Worker -> SUBSET Conns]
  BY DEF Teardown
<1>2. /\ batch' \in [Worker -> SUBSET (Conns \cup {Ctl})]
      /\ cur' \in [Worker -> Conns \cup {NoConn}]
  BY DEF Teardown
<1>3. lfd' \subseteq Proc /\ backlog' \subseteq Conns
  BY DEF Teardown
<1>4. ctl' \in [Worker -> SUBSET Proc]
  BY DEF Teardown
<1>5. chan' \in [Worker -> SUBSET Conns]
  BY DEF Teardown
<1>6. UNCHANGED <<masterVars, fresh, gterm>>
  BY DEF Teardown
<1> QED BY <1>1, <1>2, <1>3, <1>4, <1>5, <1>6

(* Every variable keeps its type, whatever the processes, the clients and  *)
(* the failing system calls do.                                            *)
LEMMA TypeStep == TypeOK /\ [Next]_vars => TypeOK'
<1> SUFFICES ASSUME TypeOK, [Next]_vars PROVE TypeOK'
  OBVIOUS
<1> USE DEF TypeOK
<1>1. CASE Fork
  <2>1. ctl' \in [Worker -> SUBSET Proc]
    <3> DEFINE own  == [ctl EXCEPT ![forked] = {Master}]
               both == Inherited(own, forked)
    <3>1. forked \in Worker /\ forked \in Proc /\ Master \in Proc
      BY <1>1 DEF Fork
    <3>2. own \in [Worker -> SUBSET Proc]
      BY <3>1
    <3>3. both \in [Worker -> SUBSET Proc]
      <4> HIDE DEF own
      <4> QED BY <3>1, <3>2 DEF Inherited
    <3>4. ctl' = [both EXCEPT ![forked] = @ \ {Master}]
      BY <1>1 DEF Fork, ForkedEnds
    <3> HIDE DEF own, both
    <3> QED BY <3>1, <3>3, <3>4
  <2>2. forked' \in 0 .. N
    BY <1>1 DEF Fork
  <2>3. wpc' \in [Worker -> WorkerStates] /\ gterm' \in [Proc -> BOOLEAN]
    BY <1>1 DEF Fork
  <2>4. lfd' \subseteq Proc
    BY <1>1 DEF Fork
  <2> QED
    BY <1>1, <2>1, <2>2, <2>3, <2>4 DEF Fork
<1>2. CASE Setup
  BY <1>2 DEF Setup
<1>3. CASE SetupFails
  BY <1>3 DEF SetupFails
<1>4. CASE LoopTop
  BY <1>4 DEF LoopTop
<1>5. CASE Wait
  BY <1>5 DEF Wait, WaitOutcome
<1>6. CASE WaitFails
  BY <1>6 DEF WaitFails
<1>7. CASE Dispatch
  <2>1. next' \in Worker
    BY <1>7, NextTargetIs DEF Dispatch
  <2>2. dispatched' \in [Worker -> Nat]
    BY <1>7 DEF Dispatch
  <2>3. chan' \in [Worker -> SUBSET Conns]
    BY <1>7 DEF Dispatch, AfterSend
  <2> QED
    BY <1>7, <2>1, <2>2, <2>3 DEF Dispatch
<1>8. CASE CloseCfd
  BY <1>8 DEF CloseCfd, Registered
<1>9. CASE AcceptDrained
  BY <1>9 DEF AcceptDrained
<1>10. CASE AcceptFails
  BY <1>10 DEF AcceptFails
<1>11. CASE Reap
  BY <1>11 DEF Reap, Reaped
<1>12. CASE Shutdown
  BY <1>12 DEF Shutdown
<1>13. ASSUME NEW w \in Worker, Boot(w) PROVE TypeOK'
  BY <1>13 DEF Boot
<1>14. ASSUME NEW w \in Worker, Poll(w) PROVE TypeOK'
  BY <1>14 DEF Poll
<1>15. ASSUME NEW w \in Worker, Exit(w) PROVE TypeOK'
  BY <1>15, TeardownType DEF Exit
<1>16. ASSUME NEW w \in Worker, TakeControl(w) PROVE TypeOK'
  BY <1>16 DEF TakeControl
<1>17. ASSUME NEW w \in Worker, RecvFd(w) PROVE TypeOK'
  BY <1>17 DEF RecvFd
<1>18. ASSUME NEW w \in Worker, RecvFdFails(w) PROVE TypeOK'
  BY <1>18 DEF RecvFdFails
<1>19. ASSUME NEW w \in Worker, ControlDrained(w) PROVE TypeOK'
  BY <1>19 DEF ControlDrained
<1>20. ASSUME NEW w \in Worker, NEW c \in Conns, HandleConn(w, c) PROVE TypeOK'
  <2>1. open' \in [Worker -> SUBSET Conns] /\ reg' \in [Worker -> SUBSET Conns]
    <3>1. ConnClose(w, c) \/ UNCHANGED <<open, reg>>
      BY <1>20 DEF HandleConn
    <3>2. CASE ConnClose(w, c)
      BY <3>2 DEF ConnClose, Registered
    <3> QED BY <3>1, <3>2
  <2>2. batch' \in [Worker -> SUBSET (Conns \cup {Ctl})] /\ wpc' \in [Worker -> WorkerStates]
    BY <1>20 DEF HandleConn
  <2>3. UNCHANGED <<masterVars, socketVars, cur, gterm, faults>>
    BY <1>20 DEF HandleConn
  <2> QED BY <2>1, <2>2, <2>3
<1>21. ASSUME NEW w \in Worker, NEW c \in Conns, StartServe(w, c) PROVE TypeOK'
  BY <1>21 DEF StartServe
<1>22. ASSUME NEW w \in Worker, FinishServe(w) PROVE TypeOK'
  <2>1. open' \in [Worker -> SUBSET Conns] /\ reg' \in [Worker -> SUBSET Conns]
    <3>1. ConnClose(w, cur[w]) \/ UNCHANGED <<open, reg>>
      BY <1>22 DEF FinishServe
    <3>2. CASE ConnClose(w, cur[w])
      BY <3>2 DEF ConnClose, Registered
    <3> QED BY <3>1, <3>2
  <2>2. cur' \in [Worker -> Conns \cup {NoConn}] /\ wpc' \in [Worker -> WorkerStates]
    BY <1>22 DEF FinishServe
  <2>3. UNCHANGED <<masterVars, socketVars, batch, gterm, faults>>
    BY <1>22 DEF FinishServe
  <2> QED BY <2>1, <2>2, <2>3
<1>23. ASSUME NEW w \in Worker, Die(w) PROVE TypeOK'
  <2>1. Teardown(w) /\ faults' \in 0 .. MaxFaults
    BY <1>23 DEF Die
  <2> QED BY <2>1, TeardownType
<1>24. ASSUME NEW c \in Conns, Connect(c) PROVE TypeOK'
  BY <1>24 DEF Connect
<1>25. ASSUME NEW p \in Proc, Signal(p) PROVE TypeOK'
  BY <1>25 DEF Signal
<1>26. CASE UNCHANGED vars
  BY <1>26
<1> QED
  BY <1>1, <1>2, <1>3, <1>4, <1>5, <1>6, <1>7, <1>8, <1>9, <1>10, <1>11,
     <1>12, <1>13, <1>14, <1>15, <1>16, <1>17, <1>18, <1>19, <1>20, <1>21,
     <1>22, <1>23, <1>24, <1>25, <1>26
  DEF Next, MasterStep, MasterFault, WorkerStep, WorkerFault, Environment

(* What the end of a worker process leaves of each worker's state.         *)
LEMMA TeardownIs ==
  ASSUME TypeOK, NEW w \in Worker, Teardown(w), NEW v \in Worker
  PROVE  /\ open'[v] = IF v = w THEN {} ELSE open[v]
         /\ reg'[v] = IF v = w THEN {} ELSE reg[v]
         /\ batch'[v] = IF v = w THEN {} ELSE batch[v]
         /\ wpc'[v] = IF v = w THEN "zombie" ELSE wpc[v]
         /\ cur'[v] = IF v = w THEN NoConn ELSE cur[v]
         /\ ctl'[v] = ctl[v] \ {w}
         /\ chan'[v] = IF ctl'[v] = {} THEN {} ELSE chan[v]
         /\ backlog' \subseteq backlog
         /\ UNCHANGED <<fresh, cfd>>
  BY DEF Teardown, TypeOK

(* What conn_close leaves of each worker's connections.                    *)
LEMMA ConnCloseIs ==
  ASSUME TypeOK, NEW w \in Worker, NEW c, ConnClose(w, c), NEW v \in Worker
  PROVE  open'[v] = IF v = w THEN open[v] \ {c} ELSE open[v]
  BY DEF ConnClose, TypeOK

(* The epoll sets stay exact over a conn_close: EPOLL_CTL_DEL removes what *)
(* close would leave while the master or a channel refers to it.           *)
LEMMA ConnClosePollSet ==
  ASSUME TypeOK, PollSetExact, NEW w \in Worker, NEW c, ConnClose(w, c)
  PROVE  PollSetExact'
<1> SUFFICES ASSUME NEW v \in Worker PROVE reg'[v] = open'[v]
  BY DEF PollSetExact
<1> DEFINE kept == [reg EXCEPT ![w] = @ \ {c}]
<1>1. kept[v] = open'[v]
  <2>1. open'[v] = IF v = w THEN open[v] \ {c} ELSE open[v]
    BY ConnCloseIs
  <2>2. kept[v] = IF v = w THEN reg[v] \ {c} ELSE reg[v]
    BY DEF TypeOK
  <2> QED BY <2>1, <2>2 DEF PollSetExact
<1>2. open'[v] \subseteq Referenced(cfd, chan, open')
  BY DEF Referenced
<1>3. reg'[v] = kept[v] \cap Referenced(cfd, chan, open')
  BY DEF ConnClose, Registered
<1> QED BY <1>1, <1>2, <1>3

(* Adopting a connection leaves the other workers' sets alone.             *)
LEMMA RecvFdIs ==
  ASSUME TypeOK, NEW w \in Worker, RecvFd(w)
  PROVE  \E c \in chan[w] : \A v \in Worker :
           /\ open'[v] = IF v = w THEN open[v] \cup {c} ELSE open[v]
           /\ reg'[v] = IF v = w THEN reg[v] \cup {c} ELSE reg[v]
           /\ chan'[v] = IF v = w THEN chan[v] \ {c} ELSE chan[v]
<1> PICK c \in chan[w] :
      /\ chan' = [chan EXCEPT ![w] = @ \ {c}]
      /\ open' = [open EXCEPT ![w] = @ \cup {c}]
      /\ reg' = [reg EXCEPT ![w] = @ \cup {c}]
  BY DEF RecvFd
<1> QED BY DEF TypeOK

(* Closing connections puts none of the others elsewhere.                  *)
LEMMA OnePlaceClosed ==
  ASSUME OnePlace, UNCHANGED <<fresh, backlog, cfd, chan>>,
         \A v \in Worker : open'[v] \subseteq open[v]
  PROVE  OnePlace'
<1> USE DEF OnePlace
<1>1. fresh' \cap backlog' = {} /\ cfd' \notin fresh' \cup backlog'
  OBVIOUS
<1> SUFFICES ASSUME NEW w \in Worker
             PROVE  /\ chan'[w] \cap open'[w] = {}
                    /\ (chan'[w] \cup open'[w]) \cap (fresh' \cup backlog') = {}
                    /\ \A v \in Worker \ {w} :
                         (chan'[w] \cup open'[w]) \cap (chan'[v] \cup open'[v]) = {}
  BY <1>1
<1>2. chan'[w] \cap open'[w] = {}
  OBVIOUS
<1>3. (chan'[w] \cup open'[w]) \cap (fresh' \cup backlog') = {}
  OBVIOUS
<1>4. ASSUME NEW v \in Worker \ {w}
      PROVE  (chan'[w] \cup open'[w]) \cap (chan'[v] \cup open'[v]) = {}
  <2>1. (chan[w] \cup open[w]) \cap (chan[v] \cup open[v]) = {}
    OBVIOUS
  <2> QED BY <2>1
<1> QED BY <1>2, <1>3, <1>4

(* Taking one out of a channel is the passage from there to the worker.    *)
LEMMA OnePlaceReceived ==
  ASSUME OnePlace, UNCHANGED <<fresh, backlog, cfd>>, NEW w \in Worker, NEW c \in chan[w],
         \A v \in Worker : /\ chan'[v] = IF v = w THEN chan[v] \ {c} ELSE chan[v]
                           /\ open'[v] = IF v = w THEN open[v] \cup {c} ELSE open[v]
  PROVE  OnePlace'
<1> USE DEF OnePlace
<1>1. fresh' \cap backlog' = {} /\ cfd' \notin fresh' \cup backlog'
  OBVIOUS
<1>2. ASSUME NEW v \in Worker
      PROVE  chan'[v] \cup open'[v] = chan[v] \cup open[v] /\ chan'[v] \cap open'[v] = {}
  <2>1. chan[v] \cap open[v] = {}
    OBVIOUS
  <2> HIDE DEF OnePlace
  <2>2. CASE v = w
    BY <2>1, <2>2
  <2>3. CASE v # w
    BY <2>1, <2>3
  <2> QED BY <2>2, <2>3
<1>3. UNCHANGED <<fresh, backlog>>
  OBVIOUS
<1> QED BY <1>1, <1>2, <1>3

(* No step puts a connection in two places: accept4 takes it off the queue *)
(* as it goes into a channel, recvmsg takes it out of the channel as the   *)
(* worker adopts it (master.c:74-97, worker.c:133-157).                    *)
LEMMA OnePlaceStep == TypeOK /\ OnePlace /\ [Next]_vars => OnePlace'
<1> SUFFICES ASSUME TypeOK, OnePlace, [Next]_vars PROVE OnePlace'
  OBVIOUS
<1> USE DEF TypeOK, OnePlace
<1>1. CASE Fork \/ Setup \/ LoopTop \/ Wait \/ WaitFails \/ AcceptDrained \/ AcceptFails \/ Reap \/ UNCHANGED vars
  BY <1>1 DEF Fork, Setup, LoopTop, Wait, WaitFails, AcceptDrained, AcceptFails, Reap
<1>2. CASE SetupFails \/ Shutdown
  BY <1>2 DEF SetupFails, Shutdown
<1>3. CASE Dispatch
  BY <1>3 DEF Dispatch, AfterSend
<1>4. CASE CloseCfd
  BY <1>4 DEF CloseCfd
<1>5. ASSUME NEW w \in Worker, Boot(w)
     PROVE  OnePlace'
  BY <1>5 DEF Boot
<1>6. ASSUME NEW w \in Worker, Poll(w) \/ TakeControl(w) \/ ControlDrained(w)
     PROVE  OnePlace'
  BY <1>6 DEF Poll, TakeControl, ControlDrained
<1>7. ASSUME NEW w \in Worker, Exit(w) \/ Die(w)
     PROVE  OnePlace'
  <2> HIDE DEF TypeOK
  <2>1. Teardown(w)
    BY <1>7 DEF Exit, Die
  <2>2. \A v \in Worker :
          /\ open'[v] = IF v = w THEN {} ELSE open[v]
          /\ wpc'[v] = IF v = w THEN "zombie" ELSE wpc[v]
          /\ ctl'[v] = ctl[v] \ {w}
          /\ chan'[v] = IF ctl'[v] = {} THEN {} ELSE chan[v]
          /\ backlog' \subseteq backlog
          /\ UNCHANGED <<fresh, cfd>>
    BY <2>1, TeardownIs
  <2> QED BY <2>2
<1>8. ASSUME NEW w \in Worker, RecvFd(w)
     PROVE  OnePlace'
  <2> HIDE DEF TypeOK, OnePlace
  <2>1. PICK c \in chan[w] :
          \A v \in Worker : /\ chan'[v] = IF v = w THEN chan[v] \ {c} ELSE chan[v]
                            /\ open'[v] = IF v = w THEN open[v] \cup {c} ELSE open[v]
    BY <1>8, RecvFdIs
  <2>2. UNCHANGED <<fresh, backlog, cfd>>
    BY <1>8 DEF RecvFd
  <2> QED BY <2>1, <2>2, OnePlaceReceived
<1>9. ASSUME NEW w \in Worker, RecvFdFails(w)
     PROVE  OnePlace'
  BY <1>9 DEF RecvFdFails
<1>10. ASSUME NEW w \in Worker, NEW c \in Conns, HandleConn(w, c)
     PROVE  OnePlace'
  <2> HIDE DEF TypeOK, OnePlace
  <2>1. /\ UNCHANGED <<fresh, backlog, cfd, chan>>
        /\ \/ ConnClose(w, c)
           \/ UNCHANGED open
    BY <1>10 DEF HandleConn
  <2>2. \A v \in Worker : open'[v] \subseteq open[v]
    BY <2>1, ConnCloseIs
  <2> QED BY <2>1, <2>2, OnePlaceClosed
<1>11. ASSUME NEW w \in Worker, NEW c \in Conns, StartServe(w, c)
     PROVE  OnePlace'
  BY <1>11 DEF StartServe
<1>12. ASSUME NEW w \in Worker, FinishServe(w)
     PROVE  OnePlace'
  <2> HIDE DEF TypeOK, OnePlace
  <2>1. /\ UNCHANGED <<fresh, backlog, cfd, chan>>
        /\ \/ ConnClose(w, cur[w])
           \/ UNCHANGED open
    BY <1>12 DEF FinishServe
  <2>2. \A v \in Worker : open'[v] \subseteq open[v]
    BY <2>1 DEF ConnClose, TypeOK
  <2> QED BY <2>1, <2>2, OnePlaceClosed
<1>13. ASSUME NEW c \in Conns, Connect(c) PROVE OnePlace'
  BY <1>13 DEF Connect
<1>14. ASSUME NEW p \in Proc, Signal(p) PROVE OnePlace'
  BY <1>14 DEF Signal
<1> QED
  BY <1>1, <1>2, <1>3, <1>4, <1>5, <1>6, <1>7, <1>8, <1>9, <1>10, <1>11, <1>12, <1>13, <1>14
  DEF Next, MasterStep, MasterFault, WorkerStep, WorkerFault, Environment

(* Adopting a connection registers it and closing one removes it, even     *)
(* while the master still holds a descriptor of it; no other step drops or *)
(* leaves behind a registration (worker.c:7-13, worker.c:145-156).         *)
LEMMA PollSetStep == TypeOK /\ PollSetExact /\ [Next]_vars => PollSetExact'
<1> SUFFICES ASSUME TypeOK, PollSetExact, [Next]_vars PROVE PollSetExact'
  OBVIOUS
<1> USE DEF TypeOK, PollSetExact
<1>1. CASE Fork \/ Setup \/ SetupFails \/ LoopTop \/ Wait \/ WaitFails \/ Dispatch \/ AcceptDrained \/ AcceptFails \/ Reap \/ Shutdown \/ UNCHANGED vars
  BY <1>1 DEF Fork, Setup, SetupFails, LoopTop, Wait, WaitFails,
                Dispatch, AcceptDrained, AcceptFails, Reap, Shutdown
<1>2. CASE CloseCfd
  BY <1>2 DEF CloseCfd, Registered, Referenced
<1>3. ASSUME NEW w \in Worker, Boot(w) \/ Poll(w) \/ TakeControl(w) \/ RecvFdFails(w) \/ ControlDrained(w)
     PROVE  PollSetExact'
  BY <1>3 DEF Boot, Poll, TakeControl, RecvFdFails, ControlDrained
<1>4. ASSUME NEW w \in Worker, Exit(w) \/ Die(w)
     PROVE  PollSetExact'
  BY <1>4, TeardownIs DEF Exit, Die
<1>5. ASSUME NEW w \in Worker, RecvFd(w)
     PROVE  PollSetExact'
  <2> HIDE DEF TypeOK
  <2> QED BY <1>5, RecvFdIs
<1>6. ASSUME NEW w \in Worker, NEW c \in Conns, HandleConn(w, c)
     PROVE  PollSetExact'
  BY <1>6, ConnClosePollSet DEF HandleConn
<1>7. ASSUME NEW w \in Worker, NEW c \in Conns, StartServe(w, c)
     PROVE  PollSetExact'
  BY <1>7 DEF StartServe
<1>8. ASSUME NEW w \in Worker, FinishServe(w)
     PROVE  PollSetExact'
  BY <1>8, ConnClosePollSet DEF FinishServe
<1>9. ASSUME NEW c \in Conns, Connect(c) PROVE PollSetExact'
  BY <1>9 DEF Connect
<1>10. ASSUME NEW p \in Proc, Signal(p) PROVE PollSetExact'
  BY <1>10 DEF Signal
<1> QED
  BY <1>1, <1>2, <1>3, <1>4, <1>5, <1>6, <1>7, <1>8, <1>9, <1>10
  DEF Next, MasterStep, MasterFault, WorkerStep, WorkerFault, Environment

(* A channel's receiving end is held by its worker alone: the master       *)
(* closes it right after the fork (master.c:47), so that no other worker   *)
(* inherits it, and the kernel closes it when the worker ends.             *)
LEMMA EndsHeldStep == TypeOK /\ EndsHeld /\ [Next]_vars => EndsHeld'
<1> SUFFICES ASSUME TypeOK, EndsHeld, [Next]_vars PROVE EndsHeld'
  OBVIOUS
<1> USE DEF TypeOK, EndsHeld
<1>1. CASE Fork
  <2>1. forked \in Worker
    BY <1>1 DEF Fork
  <2>2. \A w \in Worker : ctl'[w] = IF w = forked THEN {forked} ELSE ctl[w]
    <3> DEFINE h == [ctl EXCEPT ![forked] = {N}]
               g == Inherited(h, forked)
    <3> SUFFICES ASSUME NEW w \in Worker
                 PROVE  ctl'[w] = IF w = forked THEN {forked} ELSE ctl[w]
      OBVIOUS
    <3>1. ctl[w] \in {{w}, {}} /\ w # N
      <4> HIDE DEF TypeOK
      <4>1. ctl[w] = IF wpc[w] \in Running THEN {w} ELSE {}
        BY DEF EndsHeld
      <4> QED BY <4>1
    <3>2. ctl' = [g EXCEPT ![forked] = @ \ {N}]
      BY <1>1 DEF Fork, ForkedEnds
    <3>3. h[w] = IF w = forked THEN {N} ELSE ctl[w]
      BY <2>1
    <3>4. g[w] = IF w = forked THEN {N, forked} ELSE ctl[w]
      BY <3>1, <3>3 DEF Inherited
    <3>5. ctl'[w] = IF w = forked THEN g[w] \ {N} ELSE g[w]
      BY <2>1, <3>2 DEF Inherited
    <3>6. {N, forked} \ {N} = {forked}
      BY <2>1
    <3> HIDE DEF g, TypeOK, EndsHeld
    <3> QED BY <3>4, <3>5, <3>6
  <2>3. \A w \in Worker : wpc'[w] = IF w = forked THEN "boot" ELSE wpc[w]
    BY <1>1, <2>1 DEF Fork
  <2>4. chan' = chan
    BY <1>1 DEF Fork
  <2> QED BY <2>1, <2>2, <2>3, <2>4
<1>2. CASE Setup \/ SetupFails \/ LoopTop \/ Wait \/ WaitFails \/ CloseCfd \/ AcceptDrained \/ AcceptFails \/ Shutdown \/ UNCHANGED vars
  BY <1>2 DEF Setup, SetupFails, LoopTop, Wait, WaitFails, CloseCfd,
                AcceptDrained, AcceptFails, Shutdown
<1>3. CASE Dispatch
  BY <1>3 DEF Dispatch, AfterSend, CanSend
<1>4. CASE Reap
  BY <1>4 DEF Reap, Reaped
<1>5. ASSUME NEW w \in Worker, Boot(w) \/ Poll(w) \/ TakeControl(w) \/ RecvFd(w) \/ RecvFdFails(w) \/ ControlDrained(w)
     PROVE  EndsHeld'
  <2>1. ctl' = ctl
    BY <1>5 DEF Boot, Poll, TakeControl, RecvFd, RecvFdFails, ControlDrained
  <2>2. ASSUME NEW v \in Worker PROVE chan'[v] \subseteq chan[v]
    <3>1. chan' = chan \/ \E c \in chan[w] : chan' = [chan EXCEPT ![w] = @ \ {c}]
      BY <1>5 DEF Boot, Poll, TakeControl, RecvFd, RecvFdFails, ControlDrained
    <3>2. chan \in [Worker -> SUBSET Conns]
      OBVIOUS
    <3> HIDE DEF EndsHeld, TypeOK
    <3> QED BY <3>1, <3>2
  <2>3. ASSUME NEW v \in Worker PROVE wpc'[v] \in Running <=> wpc[v] \in Running
    BY <1>5 DEF Boot, Poll, TakeControl, RecvFd, RecvFdFails, ControlDrained
  <2> QED BY <2>1, <2>2, <2>3
<1>6. ASSUME NEW w \in Worker, Exit(w) \/ Die(w)
     PROVE  EndsHeld'
  <2> HIDE DEF TypeOK
  <2>1. Teardown(w)
    BY <1>6 DEF Exit, Die
  <2>2. \A v \in Worker :
          /\ wpc'[v] = IF v = w THEN "zombie" ELSE wpc[v]
          /\ ctl'[v] = ctl[v] \ {w}
          /\ chan'[v] = IF ctl'[v] = {} THEN {} ELSE chan[v]
    BY <2>1, TeardownIs
  <2>3. \A v \in Worker : v # w => ctl[v] \ {w} = ctl[v]
    OBVIOUS
  <2>4. \A v \in Worker : v = w => ctl[v] \ {w} = {}
    OBVIOUS
  <2> QED BY <2>2, <2>3, <2>4
<1>7. ASSUME NEW w \in Worker, NEW c \in Conns, HandleConn(w, c) \/ StartServe(w, c)
     PROVE  EndsHeld'
  BY <1>7 DEF HandleConn, StartServe
<1>8. ASSUME NEW w \in Worker, FinishServe(w)
     PROVE  EndsHeld'
  BY <1>8 DEF FinishServe
<1>9. ASSUME NEW c \in Conns, Connect(c) PROVE EndsHeld'
  BY <1>9 DEF Connect
<1>10. ASSUME NEW p \in Proc, Signal(p) PROVE EndsHeld'
  BY <1>10 DEF Signal
<1> QED
  BY <1>1, <1>2, <1>3, <1>4, <1>5, <1>6, <1>7, <1>8, <1>9, <1>10
  DEF Next, MasterStep, MasterFault, WorkerStep, WorkerFault, Environment

(* Every dispatch moves next to the following worker, whether or not the   *)
(* descriptor could be sent (master.c:89-92).                              *)
LEMMA BalancedStep == TypeOK /\ Balanced /\ [Next]_vars => Balanced'
<1> SUFFICES ASSUME TypeOK, Balanced, [Next]_vars PROVE Balanced'
  OBVIOUS
<1> USE DEF TypeOK, Balanced
<1>1. CASE Dispatch
  <2> SUFFICES ASSUME NEW w \in Worker
               PROVE  dispatched'[w] = dispatched'[N - 1] + IF w < next' THEN 1 ELSE 0
    OBVIOUS
  <2>1. /\ next' = IF next = N - 1 THEN 0 ELSE next + 1
        /\ dispatched' = [dispatched EXCEPT ![next] = @ + 1]
    BY <1>1, NextTargetIs DEF Dispatch
  <2>2. CASE next = N - 1
    BY <2>1, <2>2
  <2>3. CASE next # N - 1
    BY <2>1, <2>3
  <2> QED BY <2>2, <2>3
<1>2. CASE Fork \/ Setup \/ SetupFails \/ LoopTop \/ Wait \/ WaitFails \/ CloseCfd \/ AcceptDrained \/ AcceptFails \/ Reap \/ Shutdown \/ UNCHANGED vars
  <2>1. UNCHANGED <<next, dispatched>>
    BY <1>2 DEF Fork, Setup, SetupFails, LoopTop, Wait, WaitFails,
                CloseCfd, AcceptDrained, AcceptFails, Reap, Shutdown
  <2> QED BY <2>1
<1>3. ASSUME NEW w \in Worker, Boot(w) \/ Poll(w) \/ Exit(w) \/ TakeControl(w) \/ RecvFd(w) \/ RecvFdFails(w) \/ ControlDrained(w) \/ FinishServe(w) \/ Die(w)
     PROVE  Balanced'
  <2>1. UNCHANGED <<next, dispatched>>
    BY <1>3 DEF Boot, Poll, Exit, TakeControl, RecvFd, RecvFdFails, ControlDrained,
                FinishServe, Die, Teardown
  <2> QED BY <2>1
<1>4. ASSUME NEW w \in Worker, NEW c \in Conns, HandleConn(w, c) \/ StartServe(w, c)
     PROVE  Balanced'
  <2>1. UNCHANGED <<next, dispatched>>
    BY <1>4 DEF HandleConn, StartServe
  <2> QED BY <2>1
<1>5. ASSUME NEW c \in Conns, Connect(c) PROVE Balanced'
  BY <1>5 DEF Connect
<1>6. ASSUME NEW p \in Proc, Signal(p) PROVE Balanced'
  BY <1>6 DEF Signal
<1> QED
  BY <1>1, <1>2, <1>3, <1>4, <1>5, <1>6
  DEF Next, MasterStep, MasterFault, WorkerStep, WorkerFault, Environment

(* An event in a worker's batch keeps its connection: only the handling of *)
(* that event, or the end of the worker, closes it (worker.c:131-172).     *)
LEMMA BatchFreshStep ==
  TypeOK /\ PollSetExact /\ BatchFresh /\ [Next]_vars => BatchFresh'
<1> SUFFICES ASSUME TypeOK, PollSetExact, BatchFresh, [Next]_vars
             PROVE  BatchFresh'
  OBVIOUS
<1> USE DEF BatchFresh
<1>1. CASE Fork
  <2>1. batch' = batch /\ open' = open /\ cur' = cur
    BY <1>1 DEF Fork
  <2>2. \A w \in Worker : wpc'[w] = "serve" => wpc[w] = "serve"
    BY <1>1 DEF Fork, TypeOK
  <2> QED BY <2>1, <2>2
<1>2. CASE Setup \/ SetupFails \/ LoopTop \/ Wait \/ WaitFails \/ Dispatch
           \/ CloseCfd \/ AcceptDrained \/ AcceptFails \/ Shutdown
           \/ UNCHANGED vars
  BY <1>2 DEF Setup, SetupFails, LoopTop, Wait, WaitFails, Dispatch, CloseCfd,
              AcceptDrained, AcceptFails, Shutdown
<1>3. CASE Reap
  BY <1>3 DEF Reap, Reaped, TypeOK
<1>4. ASSUME NEW w \in Worker,
             Boot(w) \/ TakeControl(w) \/ RecvFdFails(w) \/ ControlDrained(w)
      PROVE  BatchFresh'
  <2>1. open' = open /\ cur' = cur
    BY <1>4 DEF Boot, TakeControl, RecvFdFails, ControlDrained
  <2>2. \A v \in Worker : batch'[v] \subseteq batch[v]
    BY <1>4 DEF Boot, TakeControl, RecvFdFails, ControlDrained, TypeOK
  <2>3. \A v \in Worker : wpc'[v] = "serve" => wpc[v] = "serve" /\ v # w
    BY <1>4 DEF Boot, TakeControl, RecvFdFails, ControlDrained, TypeOK
  <2> QED BY <2>1, <2>2, <2>3
<1>5. ASSUME NEW w \in Worker, Poll(w) PROVE BatchFresh'
  <2>1. \A v \in Worker : batch'[v] \subseteq open[v] \cup {Ctl}
    BY <1>5 DEF Poll, PollSetExact, TypeOK
  <2>2. \A v \in Worker : wpc'[v] = "serve" => v # w /\ wpc[v] = "serve"
    BY <1>5 DEF Poll, TypeOK
  <2>3. \A v \in Worker : v # w => batch'[v] = batch[v]
    BY <1>5 DEF Poll, TypeOK
  <2>4. open' = open /\ cur' = cur
    BY <1>5 DEF Poll
  <2> QED BY <2>1, <2>2, <2>3, <2>4
<1>6. ASSUME NEW w \in Worker, Exit(w) \/ Die(w) PROVE BatchFresh'
  <2>1. Teardown(w)
    BY <1>6 DEF Exit, Die
  <2>2. \A v \in Worker :
          /\ open'[v] = IF v = w THEN {} ELSE open[v]
          /\ wpc'[v] = IF v = w THEN "zombie" ELSE wpc[v]
          /\ batch'[v] = IF v = w THEN {} ELSE batch[v]
          /\ cur'[v] = IF v = w THEN NoConn ELSE cur[v]
    BY <2>1, TeardownIs
  <2> QED BY <2>2
<1>7. ASSUME NEW w \in Worker, RecvFd(w) PROVE BatchFresh'
  <2>1. \A v \in Worker : open[v] \subseteq open'[v]
    BY <1>7, RecvFdIs
  <2>2. batch' = batch /\ wpc' = wpc /\ cur' = cur
    BY <1>7 DEF RecvFd
  <2> QED BY <2>1, <2>2
<1>8. ASSUME NEW w \in Worker, NEW c \in Conns, HandleConn(w, c)
      PROVE  BatchFresh'
  <2>1. \A v \in Worker : /\ batch'[v] = IF v = w THEN batch[v] \ {c} ELSE batch[v]
                          /\ wpc'[v] = "serve" => v # w /\ wpc[v] = "serve"
    <3>1. wpc' \in {[wpc EXCEPT ![w] = "poll"], [wpc EXCEPT ![w] = "batch"]}
      BY <1>8 DEF HandleConn
    <3>2. batch' = [batch EXCEPT ![w] = @ \ {c}]
      BY <1>8 DEF HandleConn
    <3>3. wpc \in [Worker -> WorkerStates] /\ batch \in [Worker -> SUBSET (Conns \cup {Ctl})]
      BY DEF TypeOK
    <3>4. ASSUME NEW v \in Worker PROVE batch'[v] = IF v = w THEN batch[v] \ {c} ELSE batch[v]
      BY <3>2, <3>3
    <3>5. ASSUME NEW v \in Worker, wpc'[v] = "serve" PROVE v # w /\ wpc[v] = "serve"
      BY <3>1, <3>3, <3>5
    <3> QED BY <3>4, <3>5
  <2>2. \A v \in Worker : open'[v] \in {open[v], open[v] \ {c}}
                          /\ (v # w => open'[v] = open[v])
    BY <1>8, ConnCloseIs DEF HandleConn
  <2>3. cur' = cur
    BY <1>8 DEF HandleConn
  <2> QED BY <2>1, <2>2, <2>3
<1>9. ASSUME NEW w \in Worker, NEW c \in Conns, StartServe(w, c)
      PROVE  BatchFresh'
  BY <1>9 DEF StartServe, TypeOK
<1>10. ASSUME NEW w \in Worker, FinishServe(w) PROVE BatchFresh'
  <2>1. wpc[w] = "serve" /\ cur[w] \notin batch[w]
    BY <1>10 DEF FinishServe
  <2>2. \A v \in Worker : /\ wpc'[v] = "serve" => v # w /\ wpc[v] = "serve"
                          /\ v # w => cur'[v] = cur[v]
    BY <1>10 DEF FinishServe, TypeOK
  <2>3. \A v \in Worker : open'[v] \in {open[v], open[v] \ {cur[w]}}
                          /\ (v # w => open'[v] = open[v])
    BY <1>10 DEF FinishServe, ConnClose, TypeOK
  <2>4. batch' = batch
    BY <1>10 DEF FinishServe
  <2> QED BY <2>1, <2>2, <2>3, <2>4
<1>11. ASSUME NEW c \in Conns, Connect(c) PROVE BatchFresh'
  BY <1>11 DEF Connect
<1>12. ASSUME NEW p \in Proc, Signal(p) PROVE BatchFresh'
  BY <1>12 DEF Signal
<1> QED
  BY <1>1, <1>2, <1>3, <1>4, <1>5, <1>6, <1>7, <1>8, <1>9, <1>10, <1>11, <1>12
  DEF Next, MasterStep, MasterFault, WorkerStep, WorkerFault, Environment
-----------------------------------------------------------------------------
(* The master starts with the listening socket, no worker and no           *)
(* connection; every part of the invariant holds.                          *)
LEMMA InitInv == Init => IInv
<1> SUFFICES ASSUME Init PROVE IInv
  OBVIOUS
<1> USE DEF Init
<1>1. TypeOK
  BY DEF TypeOK
<1>2. OnePlace
  BY DEF OnePlace
<1>3. PollSetExact /\ BatchFresh
  BY DEF PollSetExact, BatchFresh
<1>4. EndsHeld
  BY DEF EndsHeld
<1>5. Balanced
  BY DEF Balanced
<1> QED BY <1>1, <1>2, <1>3, <1>4, <1>5 DEF IInv

LEMMA NextInv == IInv /\ [Next]_vars => IInv'
  BY TypeStep, OnePlaceStep, PollSetStep, BatchFreshStep, EndsHeldStep,
     BalancedStep
  DEF IInv

(* The inductive invariant holds in every reachable state, for every       *)
(* number of workers and connections and every channel capacity.           *)
THEOREM Invariance == Spec => []IInv
<1>1. Init => IInv
  BY InitInv
<1>2. IInv /\ [Next]_vars => IInv'
  BY NextInv
<1> QED BY <1>1, <1>2, PTL DEF Spec

(* Every variable keeps its type.                                          *)
THEOREM TypeCorrect == Spec => []TypeOK
<1>1. IInv => TypeOK
  BY DEF IInv
<1> QED BY <1>1, Invariance, PTL

(* No connection is ever with two workers, in two channels, or both queued *)
(* and handed out (master.c:74-97, net.c:42-99).                           *)
THEOREM OnePlaceSafe == Spec => []OnePlace
<1>1. IInv => OnePlace
  BY DEF IInv
<1> QED BY <1>1, Invariance, PTL

(* No epoll set keeps a closed connection or misses an open one            *)
(* (worker.c:7-13, worker.c:145-156).                                      *)
THEOREM PollSetSafe == Spec => []PollSetExact
<1>1. IInv => PollSetExact
  BY DEF IInv
<1> QED BY <1>1, Invariance, PTL

(* No event of a batch refers to a freed connection (worker.c:131-172).    *)
THEOREM BatchSafe == Spec => []BatchFresh
<1>1. IInv => BatchFresh
  BY DEF IInv
<1> QED BY <1>1, Invariance, PTL

(* A descriptor in a control channel has a live worker to receive it       *)
(* (master.c:36, master.c:47).                                             *)
THEOREM ReaderSafe == Spec => []ChannelHasReader
<1>1. IInv => ChannelHasReader
  BY DEF IInv, EndsHeld, ChannelHasReader
<1> QED BY <1>1, Invariance, PTL

(* No worker is ever sent more than one connection ahead of another        *)
(* (master.c:89-90).                                                       *)
THEOREM RoundRobinSafe == Spec => []RoundRobin
<1>1. IInv => RoundRobin
  <2> SUFFICES ASSUME IInv, NEW v \in Worker, NEW w \in Worker, v < w
               PROVE  dispatched[v] - dispatched[w] \in {0, 1}
    BY DEF RoundRobin
  <2>1. dispatched[N - 1] \in Nat /\ next \in Nat
    BY DEF IInv, TypeOK
  <2>2. /\ dispatched[v] = dispatched[N - 1] + IF v < next THEN 1 ELSE 0
        /\ dispatched[w] = dispatched[N - 1] + IF w < next THEN 1 ELSE 0
    BY DEF IInv, Balanced
  <2> QED BY <2>1, <2>2
<1> QED BY <1>1, Invariance, PTL
-----------------------------------------------------------------------------
(* The server implements the life of a connection, as ConnLifecycle states *)
(* it: a phase and a holder for every connection.                          *)

(* p is the phase of connection c and h its holder, said without CHOOSE. *)
Where(c, p, h) ==
  \/ p = "fresh"  /\ h = N /\ c \in fresh
  \/ p = "queued" /\ h = N /\ c \in backlog
  \/ p = "passed" /\ h \in Worker /\ c \in chan[h]
  \/ p = "owned"  /\ h \in Worker /\ c \in open[h]
  \/ /\ p = "over" /\ h = N /\ c \notin fresh \cup backlog
     /\ \A w \in Worker : c \notin chan[w] \cup open[w]

(* Phase and Holder say where a connection is, and with whom. *)
LEMMA WhereIs ==
  TypeOK /\ OnePlace => \A c \in Conns : Where(c, Phase(c), Holder(c))
<1> SUFFICES ASSUME TypeOK, OnePlace, NEW c \in Conns
             PROVE  Where(c, Phase(c), Holder(c))
  OBVIOUS
<1> USE DEF OnePlace, Phase, Holder, InChan, Owned, Where
<1>1. CASE c \in fresh
  BY <1>1
<1>2. CASE c \in backlog
  BY <1>2
<1>3. ASSUME NEW w \in Worker, c \in chan[w] \cup open[w]
      PROVE  Where(c, Phase(c), Holder(c))
  <2>1. Holder(c) \in Worker /\ c \in chan[Holder(c)] \cup open[Holder(c)]
    BY <1>3
  <2>2. Holder(c) = w
    BY <1>3, <2>1
  <2>3. c \notin fresh \cup backlog
    BY <1>3
  <2> HIDE DEF Holder
  <2> QED BY <1>3, <2>2, <2>3
<1>4. CASE /\ c \notin fresh \cup backlog
           /\ \A w \in Worker : c \notin chan[w] \cup open[w]
  BY <1>4
<1> QED BY <1>1, <1>2, <1>3, <1>4

LEMMA WhereIsNext ==
  (TypeOK /\ OnePlace)' => (\A c \in Conns : Where(c, Phase(c), Holder(c)))'
  BY WhereIs, PTL

LEMMA InitRefines == Init => Lifecycle!Init
<1> SUFFICES ASSUME Init PROVE Lifecycle!Init
  OBVIOUS
<1>1. \A c \in Conns : Where(c, Phase(c), Holder(c))
  BY InitInv, WhereIs DEF IInv
<1>2. \A c \in Conns : Phase(c) = "fresh" /\ Holder(c) = N
  BY <1>1 DEF Where, Init
<1> QED BY <1>2 DEF Lifecycle!Init

(* What ConnLifecycle allows a step to do to one connection. *)
LifeStep(c) ==
  \/ Lifecycle!Queue(c) \/ Lifecycle!Pass(c) \/ Lifecycle!Take(c)
  \/ Lifecycle!End(c) \/ Lifecycle!Stay(c)

(* The same, of a phase p and holder h before the step and q, k after it. *)
Moves(p, h, q, k) ==
  \/ p = "fresh"  /\ q = "queued" /\ k = h
  \/ p = "queued" /\ q = "passed" /\ k \in Worker
  \/ p = "passed" /\ q = "owned"  /\ k = h
  \/ p \in {"queued", "passed", "owned"} /\ q = "over" /\ k = N
  \/ q = p /\ k = h

(* Every step of the server moves every connection along its life: a       *)
(* connection goes from the queue into one channel, from that channel to   *)
(* its own worker, or ends with a failure or the process that held it.     *)
LEMMA ConnMoves ==
  ASSUME IInv, IInv', [Next]_vars, NEW c \in Conns
  PROVE  Moves(Phase(c), Holder(c), Phase(c)', Holder(c)')
<1>p. PICK p, h, q, k : p = Phase(c) /\ h = Holder(c) /\ q = Phase(c)' /\ k = Holder(c)'
  OBVIOUS
<1> DEFINE Goal == Moves(p, h, q, k)
<1> SUFFICES Goal
  BY <1>p
<1>0. Where(c, p, h) /\ Where(c, q, k)'
  <2>1. Where(c, Phase(c), Holder(c)) /\ Where(c, Phase(c), Holder(c))'
    BY WhereIs, WhereIsNext DEF IInv
  <2> QED BY <1>p, <2>1 DEF Where
<1>t. TypeOK /\ PollSetExact /\ BatchFresh /\ OnePlace /\ OnePlace'
  BY DEF IInv
<1> USE DEF Moves, Where, OnePlace
<1>s. ASSUME c \in fresh' <=> c \in fresh,
             c \in backlog' <=> c \in backlog,
             \A w \in Worker : c \in chan'[w] <=> c \in chan[w],
             \A w \in Worker : c \in open'[w] <=> c \in open[w]
      PROVE  Goal
  BY <1>0, <1>t, <1>s
<1>1. CASE Fork \/ Setup \/ LoopTop \/ Wait \/ WaitFails \/ CloseCfd
           \/ AcceptDrained \/ AcceptFails \/ Reap \/ UNCHANGED vars
  <2>1. UNCHANGED <<fresh, backlog, chan, open>>
    BY <1>1 DEF Fork, Setup, LoopTop, Wait, WaitFails, CloseCfd, AcceptDrained,
                AcceptFails, Reap
  <2> QED BY <1>s, <2>1
<1>2. CASE SetupFails \/ Shutdown
  <2>1. /\ UNCHANGED <<fresh, chan, open>>
        /\ backlog' \subseteq backlog
    BY <1>2 DEF SetupFails, Shutdown
  <2> QED BY <1>0, <1>t, <2>1
<1>3. CASE Dispatch
  <2>1. PICK d \in backlog : backlog' = backlog \ {d} /\ chan' = AfterSend(next, d)
    BY <1>3 DEF Dispatch
  <2>2. UNCHANGED <<fresh, open>>
    BY <1>3 DEF Dispatch
  <2>3. \A w \in Worker : chan'[w] = chan[w] \/ chan'[w] = chan[w] \cup {d}
    BY <1>t, <2>1 DEF AfterSend, TypeOK
  <2>4. CASE c = d
    <3>1. p = "queued"
      BY <1>0, <1>t, <2>1, <2>4
    <3>2. q \in {"passed", "over"}
      BY <1>0, <1>t, <2>1, <2>2, <2>4
    <3> QED BY <1>0, <3>1, <3>2
  <2>5. CASE c # d
    <3>1. c \in backlog' <=> c \in backlog
      BY <2>1, <2>5
    <3>2. \A w \in Worker : c \in chan'[w] <=> c \in chan[w]
      BY <2>3, <2>5
    <3> QED BY <1>s, <2>2, <3>1, <3>2
  <2> QED BY <2>4, <2>5
<1>4. ASSUME NEW w \in Worker, Boot(w) PROVE Goal
  <2>1. /\ UNCHANGED <<fresh, chan, open>>
        /\ backlog' \in {{}, backlog}
    BY <1>4 DEF Boot
  <2> QED BY <1>0, <1>t, <2>1
<1>5. ASSUME NEW w \in Worker, Poll(w) \/ TakeControl(w) \/ ControlDrained(w)
      PROVE  Goal
  BY <1>s, <1>5 DEF Poll, TakeControl, ControlDrained
<1>6. ASSUME NEW w \in Worker, Exit(w) \/ Die(w) PROVE Goal
  <2>1. Teardown(w)
    BY <1>6 DEF Exit, Die
  <2>2. UNCHANGED fresh /\ backlog' \in {{}, backlog}
    BY <2>1 DEF Teardown
  <2>3. \A v \in Worker : open'[v] \in {{}, open[v]} /\ chan'[v] \in {{}, chan[v]}
    BY <1>t, <2>1, TeardownIs
  <2> QED BY <1>0, <1>t, <2>2, <2>3
<1>7. ASSUME NEW w \in Worker, RecvFd(w) PROVE Goal
  <2>1. UNCHANGED <<fresh, backlog>>
    BY <1>7 DEF RecvFd
  <2>2. PICK d \in chan[w] : \A v \in Worker :
           /\ open'[v] = IF v = w THEN open[v] \cup {d} ELSE open[v]
           /\ reg'[v] = IF v = w THEN reg[v] \cup {d} ELSE reg[v]
           /\ chan'[v] = IF v = w THEN chan[v] \ {d} ELSE chan[v]
    BY <1>7, <1>t, RecvFdIs
  <2>3. CASE c = d
    BY <1>0, <1>t, <2>1, <2>2, <2>3
  <2>4. CASE c # d
    BY <1>s, <2>1, <2>2, <2>4
  <2> QED BY <2>3, <2>4
<1>8. ASSUME NEW w \in Worker, RecvFdFails(w) PROVE Goal
  <2>1. UNCHANGED <<fresh, backlog, open>>
    BY <1>8 DEF RecvFdFails
  <2>2. \A v \in Worker : chan'[v] \subseteq chan[v]
    BY <1>t, <1>8 DEF RecvFdFails, TypeOK
  <2> QED BY <1>0, <1>t, <2>1, <2>2
<1>9. ASSUME NEW w \in Worker, NEW d \in Conns, HandleConn(w, d) PROVE Goal
  <2>1. UNCHANGED <<fresh, backlog, chan>>
    BY <1>9 DEF HandleConn
  <2>2. \A v \in Worker : open'[v] \subseteq open[v]
    BY <1>9, <1>t DEF HandleConn, ConnClose, TypeOK
  <2> QED BY <1>0, <1>t, <2>1, <2>2
<1>10. ASSUME NEW w \in Worker, NEW d \in Conns, StartServe(w, d) PROVE Goal
  BY <1>s, <1>10 DEF StartServe
<1>11. ASSUME NEW w \in Worker, FinishServe(w) PROVE Goal
  <2>1. UNCHANGED <<fresh, backlog, chan>>
    BY <1>11 DEF FinishServe
  <2>2. \A v \in Worker : open'[v] \subseteq open[v]
    BY <1>11, <1>t DEF FinishServe, ConnClose, TypeOK
  <2> QED BY <1>0, <1>t, <2>1, <2>2
<1>12. ASSUME NEW d \in Conns, Connect(d) PROVE Goal
  <2>1. UNCHANGED <<chan, open>>
    BY <1>12 DEF Connect
  <2>2. d \in fresh /\ fresh' = fresh \ {d} /\ backlog' = backlog \cup {d}
    BY <1>12 DEF Connect
  <2> QED BY <1>0, <1>t, <2>1, <2>2
<1>13. ASSUME NEW r \in Proc, Signal(r) PROVE Goal
  BY <1>s, <1>13 DEF Signal
<1> QED
  BY <1>1, <1>2, <1>3, <1>4, <1>5, <1>6, <1>7, <1>8, <1>9, <1>10, <1>11,
     <1>12, <1>13
  DEF Next, MasterStep, MasterFault, WorkerStep, WorkerFault, Environment

LEMMA NextRefines == IInv /\ IInv' /\ [Next]_vars => Lifecycle!Next
<1> SUFFICES ASSUME IInv, IInv', [Next]_vars PROVE Lifecycle!Next
  OBVIOUS
<1>1. \A c \in Conns : Phase(c)' \in Lifecycle!Phases /\ Holder(c)' \in Worker \cup {N}
  BY WhereIsNext DEF IInv, Where, Lifecycle!Phases
<1>2. \A c \in Conns : LifeStep(c)
  <2> SUFFICES ASSUME NEW c \in Conns PROVE LifeStep(c)
    OBVIOUS
  <2>1. Moves(Phase(c), Holder(c), Phase(c)', Holder(c)')
    BY ConnMoves
  <2> QED BY <2>1 DEF Moves, LifeStep, Lifecycle!Queue, Lifecycle!Pass,
         Lifecycle!Take, Lifecycle!End, Lifecycle!Stay, Lifecycle!Move
<1> QED BY <1>1, <1>2 DEF Lifecycle!Next, LifeStep

(* The server implements the life of a connection: it is queued once,      *)
(* passed to at most one worker, taken by that worker and no other, and    *)
(* over when it is over.                                                   *)
THEOREM Refinement == Spec => ImplementsLifecycle
<1>1. Init => Lifecycle!Init
  BY InitRefines
<1>2. IInv /\ IInv' /\ [Next]_vars => Lifecycle!Next
  BY NextRefines
<1> QED BY <1>1, <1>2, Invariance, PTL DEF Spec, ImplementsLifecycle, Lifecycle!Spec
=============================================================================
