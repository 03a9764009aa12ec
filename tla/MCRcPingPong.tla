---------------------------- MODULE MCRcPingPong ----------------------------
(* Instances of RcPingPong for TLC. *)
EXTENDS RcPingPong

(* One receive, reposted at every message, against three, reposted when    *)
(* one is left.                                                            *)
UnequalDepths == {[client |-> 1, server |-> 3], [client |-> 3, server |-> 1]}
=============================================================================
