----------------------------- MODULE MCEchoFlow -----------------------------
(* Instances of EchoFlow for TLC.                                          *)
EXTENDS EchoFlow
=============================================================================
