------------------------------ MODULE Resources ------------------------------
(***************************************************************************)
(* What a run allocates and the order in which it gives it back:           *)
(* pp_init_ctx and pp_close_ctx of Original/rc_pingpong.c (one queue pair, *)
(* perhaps an event channel) and of multistreamTestRunner.c (any number of *)
(* queue pairs, no event channel).  A resource that another live resource  *)
(* was made from cannot be given back: ibv_destroy_cq, ibv_dealloc_pd and  *)
(* the others refuse, and memory that is still registered or still holds   *)
(* handles must not be freed.                                              *)
(***************************************************************************)
EXTENDS Naturals, Sequences

(* Everything the example may allocate.  The handles of all the others are *)
(* members of ctx; the CQ is bound to the channel when there is one.       *)
Things == {"devs", "ctx", "buf", "context", "channel", "pd", "mr", "cq", "qp", "rem"}

MadeFrom(r) ==
  CASE r = "buf"     -> {"ctx"}
    [] r = "context" -> {"ctx", "devs"}
    [] r = "channel" -> {"ctx", "context"}
    [] r = "pd"      -> {"ctx", "context"}
    [] r = "mr"      -> {"ctx", "pd", "buf"}
    [] r = "cq"      -> {"ctx", "context", "channel"}
    [] r = "qp"      -> {"ctx", "pd", "cq"}
    [] OTHER         -> {}

(* pp_init_ctx makes them in this order, skipping the channel of a run     *)
(* without events; the QP is in state INIT at the end.                     *)
OpenOrder(event) ==
  IF event
    THEN <<"devs", "ctx", "buf", "context", "channel", "pd", "mr", "cq", "qp">>
    ELSE <<"devs", "ctx", "buf", "context", "pd", "mr", "cq", "qp">>

(* pp_close_ctx, then the device list and the peer's address in main.      *)
CloseOrder(event) ==
  IF event
    THEN <<"qp", "cq", "mr", "pd", "channel", "context", "buf", "ctx", "devs", "rem">>
    ELSE <<"qp", "cq", "mr", "pd", "context", "buf", "ctx", "devs", "rem">>

(* Everything an order names comes after, or before, what it is made from. *)
MadeInOrder(order) ==
  \A i, j \in DOMAIN order : order[j] \in MadeFrom(order[i]) => j < i
FreedInOrder(order) ==
  \A i, j \in DOMAIN order : order[j] \in MadeFrom(order[i]) => i < j

-----------------------------------------------------------------------------
(* The multi-stream test: n queue pairs that share the completion queue.   *)
(* A resource is a record, numbered when there are several of its kind.    *)

The(kind)  == [kind |-> kind, no |-> 0]
QueuePair(i) == [kind |-> "qp", no |-> i]

Kinds      == {"ctx", "sizePerQP", "buf", "context", "pd", "mr", "cq", "qpArr", "pending_qp"}
Streams(n) == {The(k) : k \in Kinds} \cup {QueuePair(i) : i \in 1..n}

(* The place of a resource in pp_init_ctx, and after it in runPingPong,    *)
(* which adds the array pending_qp to the structure.                       *)
OpenRank(n, r) ==
  CASE r.kind = "ctx"        -> 1
    [] r.kind = "sizePerQP"  -> 2
    [] r.kind = "buf"        -> 3
    [] r.kind = "context"    -> 4
    [] r.kind = "pd"         -> 5
    [] r.kind = "mr"         -> 6
    [] r.kind = "cq"         -> 7
    [] r.kind = "qpArr"      -> 8
    [] r.kind = "pending_qp" -> n + 9
    [] OTHER                 -> 8 + r.no

(* Its place in pp_close_ctx of a context with n queue pairs; 0 for what   *)
(* pp_close_ctx leaves alone: the arrays sizePerQP and pending_qp.         *)
CloseRank(n, r) ==
  CASE r.kind = "qp"      -> r.no
    [] r.kind = "qpArr"   -> n + 1
    [] r.kind = "cq"      -> n + 2
    [] r.kind = "mr"      -> n + 3
    [] r.kind = "pd"      -> n + 4
    [] r.kind = "context" -> n + 5
    [] r.kind = "buf"     -> n + 6
    [] r.kind = "ctx"     -> n + 7
    [] OTHER              -> 0

MadeFromStream(r) ==
  CASE r.kind = "ctx" -> {}
    [] r.kind = "mr"  -> {The("ctx"), The("pd"), The("buf")}
    [] r.kind \in {"pd", "cq"} -> {The("ctx"), The("context")}
    [] r.kind = "qp"  -> {The("ctx"), The("qpArr"), The("pd"), The("cq")}
    [] OTHER -> {The("ctx")}

Leaked(n) == {r \in Streams(n) : CloseRank(n, r) = 0}

(* The context is given back, and with it the only pointer to r.           *)
OutOfReach(n, r) == CloseRank(n, The("ctx")) # 0 /\ The("ctx") \in MadeFromStream(r)
=============================================================================
