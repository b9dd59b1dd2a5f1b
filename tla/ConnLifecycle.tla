--------------------------- MODULE ConnLifecycle ----------------------------
(***************************************************************************)
(* What the server promises about a connection, without processes, queues  *)
(* or descriptors: it is queued once, given to at most one worker, stays   *)
(* with that worker, and is over when it is over.                          *)
(*                                                                         *)
(*     fresh -> queued -> passed -> owned -> over                          *)
(*                 \________\_________________/                            *)
(*                                                                         *)
(* Several connections may move in one step: a process that ends takes all *)
(* of its connections with it.                                             *)
(***************************************************************************)
CONSTANTS Conns, Workers, NoWorker

VARIABLES
  phase,  \* where each connection is
  holder  \* the worker it has been passed to, while it is with one

Phases == {"fresh", "queued", "passed", "owned", "over"}

Init ==
  /\ phase = [c \in Conns |-> "fresh"]
  /\ holder = [c \in Conns |-> NoWorker]

Move(c, from, to) == phase[c] \in from /\ phase'[c] = to

(* A client connects. *)
Queue(c) == Move(c, {"fresh"}, "queued") /\ holder'[c] = holder[c]

(* The connection is accepted and sent to a worker. *)
Pass(c) == Move(c, {"queued"}, "passed") /\ holder'[c] \in Workers

(* That worker, and no other, takes it. *)
Take(c) == Move(c, {"passed"}, "owned") /\ holder'[c] = holder[c]

(* The server is done with it. *)
End(c) == Move(c, {"queued", "passed", "owned"}, "over") /\ holder'[c] = NoWorker

Stay(c) == phase'[c] = phase[c] /\ holder'[c] = holder[c]

Next ==
  /\ phase' \in [Conns -> Phases]
  /\ holder' \in [Conns -> Workers \cup {NoWorker}]
  /\ \A c \in Conns : Queue(c) \/ Pass(c) \/ Take(c) \/ End(c) \/ Stay(c)

Spec == Init /\ [][Next]_<<phase, holder>>

(* Every connection that was queued is taken by a worker or ended. *)
Settles == \A c \in Conns : phase[c] = "queued" ~> phase[c] \in {"owned", "over"}
=============================================================================
