--------------------------- MODULE MCAddrExchange ---------------------------
(* Instances of AddrExchange for TLC; the constants are numbers, given in  *)
(* the configurations.                                                     *)
EXTENDS AddrExchange
=============================================================================
