------------------------------ MODULE MCWrkLoop -----------------------------
(* Small instances of a thread and its connections for TLC. *)
EXTENDS WrkLoop

Mode(conns, delay, pipeline, fails, faults) ==
  [conns |-> conns, delay |-> delay, pipeline |-> pipeline, fails |-> fails,
   faults |-> faults]

One == {CHOOSE c \in Conns : TRUE}

(* Two connections on a faulty network; one with pipelining; two whose     *)
(* connect may fail at once; one with both faults; two with delays; and    *)
(* one with delays on a faulty network, where a connection may be replaced *)
(* while its delay runs.                                                   *)
AllModes ==
  {Mode(Conns, FALSE, 1, FALSE, TRUE), Mode(One, FALSE, 2, FALSE, TRUE),
   Mode(Conns, FALSE, 1, TRUE, FALSE), Mode(One, FALSE, 1, TRUE, TRUE),
   Mode(Conns, TRUE, 1, FALSE, FALSE), Mode(One, TRUE, 1, FALSE, TRUE)}
=============================================================================
