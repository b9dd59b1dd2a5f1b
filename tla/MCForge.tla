------------------------------ MODULE MCForge -------------------------------
(* Small instances of the server for TLC. *)
EXTENDS Forge, TLC

(* Connections are interchangeable: nothing orders or names them. *)
ConnSymmetry == Permutations(Conns)
=============================================================================
