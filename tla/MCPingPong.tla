----------------------------- MODULE MCPingPong -----------------------------
(* Instances of PingPong for TLC. *)
EXTENDS PingPong, TLC

(* The queue pairs are interchangeable: they differ in their number only.  *)
QPSymmetry == Permutations(QPs)
=============================================================================
