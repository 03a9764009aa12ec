------------------------------- MODULE WireForm -------------------------------
(***************************************************************************)
(* How a GID travels in the address message and how an MTU is named:       *)
(* gid_to_wire_gid, wire_gid_to_gid and pp_mtu_to_enum, of which           *)
(* Original/pingpong.c, multistreamPPSupport.c and multithreadIBSupport.c  *)
(* hold the same text.  A GID is four words of four bytes in memory; htonl *)
(* makes a word the number its bytes are in network order, and ntohl       *)
(* undoes it.  The wire form is 32 hexadecimal digits.                     *)
(***************************************************************************)
EXTENDS Integers

Byte   == 0..255
Digit  == 0..15
Gid    == [0..15 -> Byte]
Wire   == [0..31 -> Digit]
UInt32 == (256 * 256) * (256 * 256)

(* htonl of the word of these four bytes.                                  *)
htonl(a, b, c, d) == 256 * (256 * (256 * a + b) + c) + d

(* Byte k of the word in memory, after ntohl.                              *)
ntohl(word, k) ==
  CASE k = 0 -> ((word \div 256) \div 256) \div 256
    [] k = 1 -> ((word \div 256) \div 256) % 256
    [] k = 2 -> (word \div 256) % 256
    [] k = 3 -> word % 256

(* sprintf "%08x": digit k of byte pair after byte pair, the two digits of *)
(* a byte of the number being its quotient and its remainder by 16.        *)
HexDigit(word, k) ==
  IF k % 2 = 0 THEN ntohl(word, k \div 2) \div 16 ELSE ntohl(word, k \div 2) % 16

(* sscanf "%x" of the eight digits that start at d.                        *)
HexValue(wgid, d) ==
  htonl(16 * wgid[d] + wgid[d + 1], 16 * wgid[d + 2] + wgid[d + 3],
        16 * wgid[d + 4] + wgid[d + 5], 16 * wgid[d + 6] + wgid[d + 7])

gid_to_wire_gid(gid) ==
  [d \in 0..31 |->
     LET i == 4 * (d \div 8)
     IN  HexDigit(htonl(gid[i], gid[i + 1], gid[i + 2], gid[i + 3]), d % 8)]

wire_gid_to_gid(wgid) == [b \in 0..15 |-> ntohl(HexValue(wgid, 8 * (b \div 4)), b % 4)]

(* pp_mtu_to_enum returns -1 for other values, which the type enum ibv_mtu *)
(* of all positive members stores as an unsigned number of 32 bits.        *)
pp_mtu_to_enum(mtu) ==
  (CASE mtu = 256 -> 1 [] mtu = 512 -> 2 [] mtu = 1024 -> 3 [] mtu = 2048 -> 4
     [] mtu = 4096 -> 5 [] OTHER -> -1) % UInt32

(* if (mtu < 0), option -m.                                                *)
MtuRefused(mtu) == pp_mtu_to_enum(mtu) < 0
=============================================================================
