--------------------------- MODULE MCThreadClient ---------------------------
(* Instances of ThreadClient for TLC.                                      *)
EXTENDS ThreadClient
=============================================================================
