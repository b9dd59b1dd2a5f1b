------------------------------- MODULE MCHttp -------------------------------
(* Small instances of a worker and its clients for TLC. *)
EXTENDS HttpServe

Clients(conns, kinds, reqs, pipeline) ==
  [conns |-> conns, kinds |-> kinds, reqs |-> reqs, pipeline |-> pipeline]

(* One client that pipelines and sends requests of every kind; and clients *)
(* that wait for each answer.                                              *)
Mixed ==
  {Clients({CHOOSE c \in Conns : TRUE}, AllKinds, 3, 2),
   Clients(Conns, {"get", "close", "missing", "post"}, 2, 1)}

(* The clients of the runs that show one behaviour each.                   *)
Turns(kinds) == {Clients(Conns, kinds, MaxReqs, 1)}
Gets       == Turns({"get"})
BadGets    == Turns({"get", "bad"})
MissingGets == Turns({"get", "missing"})
PipedGets  == {Clients(Conns, {"get"}, MaxReqs, 2)}
=============================================================================
