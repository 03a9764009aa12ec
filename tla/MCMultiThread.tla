---------------------------- MODULE MCMultiThread ----------------------------
(* Instances of MultiThread for TLC.                                       *)
EXTENDS MultiThread
=============================================================================
