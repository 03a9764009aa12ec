------------------------------ MODULE Partition ------------------------------
(***************************************************************************)
(* How multistreamTestRunner.c splits the buffer of a run among its queue  *)
(* pairs: sizePerQP, and the place a queue pair sends from and receives    *)
(* into.  Queue pair 0 takes what the division leaves over.                *)
(***************************************************************************)
EXTENDS Integers

(* (int) floor(size / ctx->peerNum)                                        *)
SizePerPeer(size, peerNum) == size \div peerNum

SizePerQP(size, peerNum, i) ==
  IF i = 0 THEN size - SizePerPeer(size, peerNum) * (peerNum - 1)
           ELSE SizePerPeer(size, peerNum)

BufOffset(size, peerNum, i) == SizePerQP(size, peerNum, i) * i

(* The bytes of ctx->buf that belong to queue pair i.                      *)
Bytes(size, peerNum, i) ==
  BufOffset(size, peerNum, i)..(BufOffset(size, peerNum, i) + SizePerQP(size, peerNum, i) - 1)
=============================================================================
