------------------------------ MODULE PingPong ------------------------------
(***************************************************************************)
(* The measured loop of multistreamTestRunner.c: runPingPong from the line *)
(* where the queue pairs are connected to the line where pp_close_ctx has  *)
(* returned, in the client process and in the server process at once, with *)
(* the two HCAs and the reliable connections between them as environment.  *)
(*                                                                         *)
(* QPs is the set of queue pairs (peerNum of them) that share one          *)
(* completion queue on each side.  A completion record stands for a struct *)
(* ibv_wc; cq[s] holds the completions of side s that its loop has not yet *)
(* handled, oldest first, and the first batch[s] of them have already been *)
(* copied into the array wc by ibv_poll_cq.                                *)
(***************************************************************************)
EXTENDS Integers, Sequences, FiniteSets

CONSTANTS
  QPs,          (* the queue pairs of one run, ctx->qpArr                   *)
  Iters,        (* iters, the number of exchanges to count                  *)
  RxDepth,      (* rx_depth, receives posted per queue pair                 *)
  Faulty,       (* the sides whose ibv_poll_cq may report an error          *)
  AckLoss,      (* may an acknowledgement be lost, and the retry then find  *)
                (* the responder's queue pair destroyed?                    *)
  PatientRetry  (* is the retry timer (7 retries of 67 ms) slower than one  *)
                (* turn of the polling loop?                                *)

ASSUME QPsAssumption     == IsFiniteSet(QPs) /\ QPs # {}
ASSUME ItersAssumption   == Iters \in Nat \ {0}
ASSUME RxDepthAssumption == RxDepth \in Nat /\ RxDepth >= 2
(* The completion queue has rx_depth + 1 entries (line 420) and each queue *)
(* pair may have two completions in it, as long as none is in error; the   *)
(* program passes 500 and 10.                                              *)
ASSUME CqAssumption      == 2 * Cardinality(QPs) <= RxDepth + 1
ASSUME FaultAssumption   == /\ Faulty \subseteq {"client", "server"}
                            /\ AckLoss \in BOOLEAN
                            /\ PatientRetry \in BOOLEAN

VARIABLES
  pc,       (* where each side is                                           *)
  pending,  (* ctx->pending_qp: the set of bits still set, per queue pair   *)
  routs,    (* routs_arr: receives the loop believes are outstanding        *)
  rcnt,     (* receive completions counted over all queue pairs             *)
  scnt,     (* send completions counted over all queue pairs                *)
  cq,       (* completions not yet handled                                  *)
  batch,    (* how many of them, from the head, are in the array wc         *)
  rq,       (* receives posted and not consumed by a message, in the HCA    *)
  sq,       (* the one send work request of the queue pair, in the HCA      *)
  err       (* the queue pairs in the error state: the HCA flushes their rq *)

loopVars == <<pending, routs, rcnt, scnt>>
hcaVars  == <<cq, rq, sq, err>>
vars     == <<pc, loopVars, batch, hcaVars>>

Sides   == {"client", "server"}
Peer(s) == IF s = "client" THEN "server" ELSE "client"

Recv == "recv"   \* PINGPONG_RECV_WRID
Send == "send"   \* PINGPONG_SEND_WRID

Completions == [qp : QPs, op : {Recv, Send}, ok : BOOLEAN]
Wc(q, o, k) == [qp |-> q, op |-> o, ok |-> k]

(* The way a side leaves the loop.  Every exit but "done" returns 1 or -1, *)
(* which main dereferences, so the process dies; in both cases the side's  *)
(* queue pairs are gone afterwards.                                        *)
Exits    == {"done", "badStatus", "sendRejected", "recvRejected", "pollFailed"}
Alive(s) == pc[s] \in {"start", "run"}

(* Mutants: the loop looks at one of the counters only.                    *)
LoopGoesOnMutantRecv(s) == rcnt[s] < Iters
LoopGoesOnMutantSend(s) == scnt[s] < Iters

(* while (rcnt < iters || scnt < iters)                                    *)
LoopGoesOn(s) == rcnt[s] < Iters \/ scnt[s] < Iters

(* A work request occupies its slot in the send or receive queue until     *)
(* ibv_poll_cq has returned its completion: the completions that still     *)
(* hold a slot are those behind the batch.                                 *)
Unpolled(s, q, o) ==
  {i \in (batch[s] + 1)..Len(cq[s]) : cq[s][i].qp = q /\ cq[s][i].op = o}

(* max_send_wr = 1                                                         *)
SendSlotFree(s, q) == sq[s][q] = "idle" /\ Unpolled(s, q, Send) = {}

(* max_recv_wr = rx_depth.  A flushed receive keeps its slot as well; once *)
(* polled it would not, and pp_post_recv_pQp would post no more for that.  *)
RecvRoom(s, q) == RxDepth - rq[s][q] - Cardinality(Unpolled(s, q, Recv))

(* The receives of a queue pair in error are no longer posted: the HCA has *)
(* put a completion for each of them into the completion queue, behind the *)
(* failed send.  The loop ends at the failed send and looks at none; they  *)
(* are therefore not in cq and count only where room matters.              *)
Flushed(s) == {f \in err[s] \X (1..RxDepth) : f[2] <= rq[s][f[1]]}

(* More completions than the completion queue has entries.  What a poll of *)
(* it returns from then on is anybody's guess: what was in it, an error,   *)
(* or nothing.                                                             *)
Overrun(s) == Len(cq[s]) - batch[s] + Cardinality(Flushed(s)) > RxDepth + 1

Init ==
  /\ pc = [s \in Sides |-> "start"]
  /\ pending = [s \in Sides |-> [q \in QPs |-> {}]]
  /\ routs = [s \in Sides |-> [q \in QPs |-> RxDepth]]
  /\ rcnt = [s \in Sides |-> 0]
  /\ scnt = [s \in Sides |-> 0]
  /\ cq = [s \in Sides |-> <<>>]
  /\ batch = [s \in Sides |-> 0]
  /\ rq = [s \in Sides |-> [q \in QPs |-> RxDepth]]
  /\ sq = [s \in Sides |-> [q \in QPs |-> "idle"]]
  /\ err = [s \in Sides |-> {}]

-----------------------------------------------------------------------------
(* The program.                                                            *)

(* pending_qp is set up and the client, which has a servername, posts the  *)
(* first send of every queue pair.  Nothing is read in between, so the     *)
(* loop over the queue pairs is one step.                                  *)
Start(s) ==
  /\ pc[s] = "start"
  /\ pc' = [pc EXCEPT ![s] = "run"]
  /\ IF s = "client"
       THEN /\ pending' = [pending EXCEPT ![s] = [q \in QPs |-> {Recv, Send}]]
            /\ sq' = [sq EXCEPT ![s] = [q \in QPs |-> "wire"]]
       ELSE /\ pending' = [pending EXCEPT ![s] = [q \in QPs |-> {Recv}]]
            /\ UNCHANGED sq
  /\ UNCHANGED <<routs, rcnt, scnt, cq, batch, rq, err>>

(* ibv_poll_cq with room for peerNum * 2 completions, spun until it finds  *)
(* at least one.                                                           *)
Poll(s) ==
  /\ pc[s] = "run" /\ batch[s] = 0
  /\ LoopGoesOn(s)
  /\ cq[s] # <<>>
  /\ LET room == 2 * Cardinality(QPs)
     IN  batch' = [batch EXCEPT ![s] = IF Len(cq[s]) < room THEN Len(cq[s]) ELSE room]
  /\ UNCHANGED <<pc, loopVars, hcaVars>>

PollFails(s) ==
  /\ s \in Faulty \/ Overrun(s)
  /\ pc[s] = "run" /\ batch[s] = 0
  /\ LoopGoesOn(s)
  /\ pc' = [pc EXCEPT ![s] = "pollFailed"]
  /\ UNCHANGED <<loopVars, batch, hcaVars>>

(* The completion being handled leaves wc.                                 *)
NextCompletion(s) == Head(cq[s])
Handling(s) == pc[s] = "run" /\ batch[s] > 0
Consume(s) ==
  /\ cq' = [cq EXCEPT ![s] = Tail(@)]
  /\ batch' = [batch EXCEPT ![s] = @ - 1]

(* The post of the next send: refused, or done and both bits set again.    *)
PostSend(s, q, left) ==
  IF SendSlotFree(s, q)
    THEN /\ sq' = [sq EXCEPT ![s][q] = "wire"]
         /\ pending' = [pending EXCEPT ![s][q] = {Recv, Send}]
         /\ UNCHANGED pc
    ELSE /\ pc' = [pc EXCEPT ![s] = "sendRejected"]
         /\ pending' = [pending EXCEPT ![s][q] = left]
         /\ UNCHANGED sq

SendWhen(ready, s, q, left) ==
  IF ready
    THEN PostSend(s, q, left)
    ELSE /\ pending' = [pending EXCEPT ![s][q] = left]
         /\ UNCHANGED <<pc, sq>>

(* Mutants: the next send does not wait for the completion of the last     *)
(* one; it does not wait for the answer.                                   *)
ClearMutantSend(s, q, o, sent) ==
  SendWhen(sent < Iters /\ Recv \notin pending[s][q] \ {o}, s, q, pending[s][q] \ {o})
ClearMutantRecv(s, q, o, sent) ==
  SendWhen(sent < Iters /\ Send \notin pending[s][q] \ {o}, s, q, pending[s][q] \ {o})

(* The end of the body of the for loop, after the switch: clear the bit of *)
(* the completion and, when nothing is pending and fewer than iters sends  *)
(* have been counted, send again on the same queue pair.                   *)
ClearAndMaybeSend(s, q, o, sent) ==
  SendWhen(sent < Iters /\ pending[s][q] \ {o} = {}, s, q, pending[s][q] \ {o})

(* Mutant: a failed completion is skipped instead of ending the loop.      *)
HandleBadStatusMutant(s) ==
  /\ Handling(s)
  /\ ~NextCompletion(s).ok
  /\ Consume(s)
  /\ UNCHANGED <<pc, loopVars, rq, sq, err>>

HandleBadStatus(s) ==
  /\ Handling(s)
  /\ ~NextCompletion(s).ok
  /\ Consume(s)
  /\ pc' = [pc EXCEPT ![s] = "badStatus"]
  /\ UNCHANGED <<loopVars, rq, sq, err>>

HandleSend(s) ==
  /\ Handling(s)
  /\ NextCompletion(s).ok /\ NextCompletion(s).op = Send
  /\ Consume(s)
  /\ scnt' = [scnt EXCEPT ![s] = @ + 1]
  /\ ClearAndMaybeSend(s, NextCompletion(s).qp, Send, scnt[s] + 1)
  /\ UNCHANGED <<routs, rcnt, rq, err>>

(* Mutant: a full set of receives is posted whatever is still there.       *)
RepostedMutantAll(s, q) ==
  IF routs[s][q] - 1 > 1 THEN 0 ELSE RxDepth

(* The receives the handler asks for: pp_post_recv_pQp is called with      *)
(* rx_depth - routs when at most one is left, and posts as many as the     *)
(* receive queue still has room for.                                       *)
Reposted(s, q) ==
  LET left  == routs[s][q] - 1
      asked == RxDepth - left
  IN  IF left > 1 THEN 0
      ELSE IF asked < RecvRoom(s, q) THEN asked ELSE RecvRoom(s, q)

(* Mutants: a receive whose handling reposts is not counted; routs_arr is  *)
(* set to what pp_post_recv_pQp returned instead of increased by it; the   *)
(* receives are reposted only when the loop believes one too many is used. *)
HandleRecvMutated(s, posted(_), counted(_), booked(_, _)) ==
  /\ Handling(s)
  /\ NextCompletion(s).ok /\ NextCompletion(s).op = Recv
  /\ Consume(s)
  /\ LET q   == NextCompletion(s).qp
         new == posted(q)
     IN  /\ routs' = [routs EXCEPT ![s][q] = booked(@ - 1, new)]
         /\ rq' = [rq EXCEPT ![s][q] = @ + new]
         /\ rcnt' = [rcnt EXCEPT ![s] = @ + counted(new)]
         /\ ClearAndMaybeSend(s, q, Recv, scnt[s])
  /\ UNCHANGED <<scnt, err>>
HandleRecvMutant(s) ==
  HandleRecvMutated(s, LAMBDA q : Reposted(s, q),
                    LAMBDA new : IF new > 0 THEN 0 ELSE 1, LAMBDA left, new : left + new)
HandleRecvMutantBooks(s) ==
  HandleRecvMutated(s, LAMBDA q : Reposted(s, q),
                    LAMBDA new : 1, LAMBDA left, new : IF new > 0 THEN new ELSE left)
HandleRecvMutantLate(s) ==
  HandleRecvMutated(s, LAMBDA q : IF routs[s][q] > 0 THEN 0 ELSE RxDepth,
                    LAMBDA new : 1, LAMBDA left, new : left + new)

HandleRecv(s) ==
  /\ Handling(s)
  /\ NextCompletion(s).ok /\ NextCompletion(s).op = Recv
  /\ Consume(s)
  /\ LET q    == NextCompletion(s).qp
         left == routs[s][q] - 1
         now  == left + Reposted(s, q)
     IN  /\ routs' = [routs EXCEPT ![s][q] = now]
         /\ rq' = [rq EXCEPT ![s][q] = @ + Reposted(s, q)]
         /\ IF left <= 1 /\ now < RxDepth
            THEN /\ pc' = [pc EXCEPT ![s] = "recvRejected"]
                 /\ UNCHANGED <<rcnt, pending, sq>>
            ELSE /\ rcnt' = [rcnt EXCEPT ![s] = @ + 1]
                 /\ ClearAndMaybeSend(s, q, Recv, scnt[s])
  /\ UNCHANGED <<scnt, err>>

(* The loop is over: pp_close_ctx destroys the queue pairs.                *)
Close(s) ==
  /\ pc[s] = "run" /\ batch[s] = 0
  /\ ~LoopGoesOn(s)
  /\ pc' = [pc EXCEPT ![s] = "done"]
  /\ UNCHANGED <<loopVars, batch, hcaVars>>

-----------------------------------------------------------------------------
(* The HCAs and the reliable connection of each queue pair.                *)

(* The message reaches the peer, consumes a posted receive and completes   *)
(* it.  Without a posted receive the sender is held back (rnr_retry = 7:   *)
(* retry for ever).  A queue pair in error takes nothing.                  *)
Deliver(s, q) ==
  /\ sq[s][q] = "wire"
  /\ Alive(Peer(s)) /\ q \notin err[Peer(s)]
  /\ rq[Peer(s)][q] > 0
  /\ rq' = [rq EXCEPT ![Peer(s)][q] = @ - 1]
  /\ cq' = [cq EXCEPT ![Peer(s)] = Append(@, Wc(q, Recv, TRUE))]
  /\ sq' = [sq EXCEPT ![s][q] = "arrived"]
  /\ UNCHANGED <<pc, loopVars, batch, err>>

(* The acknowledgement returns and completes the send.                     *)
Acknowledge(s, q) ==
  /\ sq[s][q] = "arrived"
  /\ Alive(s)
  /\ sq' = [sq EXCEPT ![s][q] = "idle"]
  /\ cq' = [cq EXCEPT ![s] = Append(@, Wc(q, Send, TRUE))]
  /\ UNCHANGED <<pc, loopVars, batch, rq, err>>

(* The peer's queue pair no longer exists: after retry_cnt = 7 timeouts    *)
(* the send completes with an error, the queue pair enters the error state *)
(* and the HCA flushes its receives (Flushed).                             *)
RetryExceeded(s, q) ==
  /\ sq[s][q] = "wire" \/ (AckLoss /\ sq[s][q] = "arrived")
  /\ Alive(s) /\ ~Alive(Peer(s))
  /\ PatientRetry => cq[s] = <<>> /\ \A r \in QPs : sq[s][r] # "arrived"
  /\ sq' = [sq EXCEPT ![s][q] = "idle"]
  /\ cq' = [cq EXCEPT ![s] = Append(@, Wc(q, Send, FALSE))]
  /\ err' = [err EXCEPT ![s] = @ \cup {q}]
  /\ UNCHANGED <<pc, loopVars, batch, rq>>

-----------------------------------------------------------------------------
(* Both processes have left the loop.                                      *)
Settled ==
  /\ \A s \in Sides : ~Alive(s)
  /\ UNCHANGED vars

Program(s) ==
  \/ Start(s)
  \/ Poll(s)
  \/ PollFails(s)
  \/ HandleBadStatus(s)
  \/ HandleSend(s)
  \/ HandleRecv(s)
  \/ Close(s)

Fabric(s, q) ==
  \/ Deliver(s, q)
  \/ Acknowledge(s, q)
  \/ RetryExceeded(s, q)

Next ==
  \/ \E s \in Sides : Program(s)
  \/ \E s \in Sides, q \in QPs : Fabric(s, q)
  \/ Settled

Spec == Init /\ [][Next]_vars

(* The polling loop never sleeps, so a side with a step to take takes it,  *)
(* but a completion queue that has overrun may never return anything again;*)
(* the HCA delivers, acknowledges and times out for as long as the queue   *)
(* pair that sent the message exists.                                      *)
Fairness ==
  /\ \A s \in Sides :
       WF_vars(Start(s) \/ (~Overrun(s) /\ Poll(s)) \/ HandleBadStatus(s) \/ HandleSend(s)
                 \/ HandleRecv(s) \/ Close(s))
  /\ \A s \in Sides, q \in QPs : WF_vars(Alive(s) /\ Fabric(s, q))

FairSpec == Spec /\ Fairness
-----------------------------------------------------------------------------
(* What the loop is to guarantee.                                          *)

(* Every variable holds a value the code can store in it.                  *)
TypeOK ==
  /\ pc \in [Sides -> {"start", "run"} \cup Exits]
  /\ pending \in [Sides -> [QPs -> SUBSET {Recv, Send}]]
  /\ routs \in [Sides -> [QPs -> 0..RxDepth]]
  /\ rcnt \in [Sides -> Nat]
  /\ scnt \in [Sides -> Nat]
  /\ cq \in [Sides -> Seq(Completions)]
  /\ batch \in [Sides -> Nat]
  /\ \A s \in Sides : batch[s] <= Len(cq[s])
  /\ rq \in [Sides -> [QPs -> 0..RxDepth]]
  /\ sq \in [Sides -> [QPs -> {"idle", "wire", "arrived"}]]
  /\ err \in [Sides -> SUBSET QPs]

(* No post is ever refused: with a send queue of depth one, a send is      *)
(* posted only when the completion of the previous one has been polled     *)
(* (lines 794-801), and a receive queue of depth rx_depth has room for all *)
(* that line 773 asks for, so the exits at 779 and 796 are never taken.    *)
PostsAccepted == \A s \in Sides : pc[s] \notin {"sendRejected", "recvRejected"}

(* A message on the wire always finds a posted receive, so no side is ever *)
(* answered "receiver not ready": reposting at line 772, when one receive  *)
(* is left, comes early enough whatever the order of the completions.  A   *)
(* queue pair in error is not asked.                                       *)
ReceiverReady ==
  \A s \in Sides, q \in QPs :
    sq[s][q] = "wire" /\ q \notin err[Peer(s)] => rq[Peer(s)][q] > 0

(* There is a completion of operation o on queue pair q that side s has    *)
(* not handled.                                                            *)
HasCqe(Q, q, o) == \E i \in 1..Len(Q) : Q[i].qp = q /\ Q[i].op = o
Distinct(Q) ==
  \A i, j \in 1..Len(Q) : Q[i].qp = Q[j].qp /\ Q[i].op = Q[j].op => i = j

Unhandled(s, q, o) == HasCqe(cq[s], q, o)

(* Where the message of a queue pair is: side s has it and is free to      *)
(* answer, it is on the wire from side s, or it has arrived at side s.     *)
Holds(s, q) ==
  IF pc[s] = "start" THEN s = "client" ELSE Recv \notin pending[s][q]
Flying(s, q) == sq[s][q] = "wire"
Landed(s, q) == Unhandled(s, q, Recv)

(* The message of a queue pair is in one place at most.  Both sides        *)
(* therefore never send on a queue pair at the same time, although the     *)
(* same memory is the send and the receive buffer of the queue pair (lines *)
(* 514 and 538).                                                           *)
OneBall ==
  \A s \in Sides, q \in QPs :
    /\ Holds(s, q) => /\ ~Flying(s, q) /\ ~Landed(s, q)
                      /\ ~Holds(Peer(s), q)
                      /\ ~Flying(Peer(s), q) /\ ~Landed(Peer(s), q)
    /\ Flying(s, q) => /\ ~Landed(s, q)
                       /\ ~Flying(Peer(s), q) /\ ~Landed(Peer(s), q)
    /\ Landed(s, q) => ~Landed(Peer(s), q)

(* The loop's own books agree with the HCA: routs_arr counts the receives  *)
(* really posted plus the completion not yet handled (lines 772-783), and  *)
(* the send bit of pending_qp is set exactly while a send is with the HCA  *)
(* or its completion waits (lines 793-801).  A queue pair never has two    *)
(* completions of the same kind waiting, and only a send can fail.         *)
ReceivesAgree ==
  \A s \in Sides, q \in QPs :
    /\ routs[s][q] = rq[s][q] + (IF Landed(s, q) THEN 1 ELSE 0)
    /\ routs[s][q] >= 2
SendsAgree ==
  \A s \in Sides, q \in QPs :
    /\ Unhandled(s, q, Send) => sq[s][q] = "idle"
    /\ pc[s] = "start" => sq[s][q] = "idle" /\ ~Unhandled(s, q, Send)
    /\ pc[s] = "run" =>
         (Send \in pending[s][q] <=> sq[s][q] # "idle" \/ Unhandled(s, q, Send))
QueueAgrees ==
  \A s \in Sides :
    /\ Distinct(cq[s])
    /\ \A i \in 1..Len(cq[s]) : ~cq[s][i].ok => cq[s][i].op = Send
BooksAgree == ReceivesAgree /\ SendsAgree /\ QueueAgrees

(* The array wc of one ibv_poll_cq (line 735) has room for all completions *)
(* but flushed ones, and the one completion queue of rx_depth + 1 entries, *)
(* which all queue pairs share, does not overrun as long as both sides     *)
(* live.  It may when the peer is dead: with two or more queue pairs the   *)
(* flushed receives of one and the completions of the others are too many. *)
CqFits ==
  \A s \in Sides : /\ Len(cq[s]) <= 2 * Cardinality(QPs)
                   /\ Overrun(s) => err[s] # {} /\ ~Alive(Peer(s))

(* The bounded queues of the HCA suffice for the measurement (lines 772 to *)
(* 801): no post is refused and no message finds its receive queue empty,  *)
(* whatever dies; no completion finds the completion queue full as long as *)
(* no side has died.                                                       *)
QueuesHold == PostsAccepted /\ ReceiverReady /\ CqFits

(* Messages of side s that the peer has received, and that the sending     *)
(* side has not counted yet.                                               *)
Receipts(s) == {i \in 1..Len(cq[s]) : cq[s][i].op = Recv /\ cq[s][i].ok}
SendsDone(s) == {i \in 1..Len(cq[s]) : cq[s][i].op = Send /\ cq[s][i].ok}
AckDue(s) == {q \in QPs : sq[s][q] = "arrived"}

(* No side is left behind: when one side has closed normally, the other    *)
(* has already in its completion queue, or acknowledged on the way to it,  *)
(* all the completions it needs to leave the loop too, although the two    *)
(* exit tests (line 728) are made on separate counters summed over all the *)
(* queue pairs and the queue pairs of the first are destroyed (line 814).  *)
NoStranding ==
  \A s \in Sides :
    pc[Peer(s)] = "done" /\ Alive(s) =>
      /\ rcnt[s] + Cardinality(Receipts(s)) >= Iters
      /\ scnt[s] + Cardinality(SendsDone(s)) + Cardinality(AckDue(s)) >= Iters

(* The two sides count the same messages: what one side has counted as     *)
(* sent the other has counted, or will count, as received, and neither     *)
(* runs ahead of the other by more than one message per queue pair.        *)
CountsAgree ==
  \A s \in Sides :
    LET p == Peer(s)
    IN  /\ scnt[s] + Cardinality(SendsDone(s)) + Cardinality(AckDue(s))
             = rcnt[p] + Cardinality(Receipts(p))
        /\ rcnt[s] - rcnt[p] <= Cardinality(QPs)

(* The loop overshoots iters by less than one exchange per queue pair: the *)
(* test scnt < iters at line 794 is made before every post although the    *)
(* while condition is only read between batches.                           *)
BoundedOvershoot ==
  \A s \in Sides : /\ scnt[s] <= Iters + Cardinality(QPs) - 1
                   /\ rcnt[s] <= Iters + Cardinality(QPs) - 1

(* The counters of line 728 are kept right: they count the same messages   *)
(* on both sides, and never many more than asked for.                      *)
Conservation == CountsAgree /\ BoundedOvershoot

(* A failed completion (line 759) is seen only by a side whose peer has    *)
(* gone, and under a patient retry timer and a peer that left normally it  *)
(* is never seen.                                                          *)
BadStatusMeansPeerFailed ==
  \A s \in Sides : pc[s] = "badStatus" => pc[Peer(s)] \notin {"start", "run", "done"}

(* The measurement ends: unless a poll or a completion fails, or so many   *)
(* sends that the completion queue overruns, both sides leave the loop     *)
(* normally, in whatever order completions, acknowledgements and batches   *)
(* come.                                                                   *)
Failed(s) == pc[s] \in {"pollFailed", "badStatus"} \/ Overrun(s)
Finishes ==
  [](\A s \in Sides : ~Failed(s)) => <>[](\A s \in Sides : pc[s] = "done")

(* When a side dies in the middle, the other dies too, finishes, or is     *)
(* left polling an empty completion queue with nothing on the wire: it     *)
(* does not stay with a send outstanding (which the HCA would fail), but   *)
(* for one whose completion queue overran when several sends failed.       *)
Spins(s) ==
  /\ pc[s] = "run" /\ cq[s] = <<>>
  /\ \A q \in QPs : sq[s][q] = "idle" /\ pending[s][q] \subseteq {Recv}
LeavesOrSpins == <>[](\A s \in Sides : ~Alive(s) \/ Spins(s) \/ Overrun(s))

(* A side that closes normally does not leave the other spinning: whatever *)
(* happens then, lost acknowledgements included, the other leaves as well, *)
(* unless sends of several queue pairs failed and overran its completion   *)
(* queue.                                                                  *)
CloseReleasesPeer ==
  \A s \in Sides : pc[s] = "done" ~> ~Alive(Peer(s)) \/ Overrun(Peer(s))

(* The loop implements the rally: the place of the message of each queue   *)
(* pair is read off the send queues, the completion queues and the pending *)
(* bits, and lost when it is nowhere.                                      *)
Ball(q) ==
  CASE \E s \in Sides : Holds(s, q) ->
         IF Holds("client", q) THEN "atClient" ELSE "atServer"
    [] \E s \in Sides : Flying(s, q) ->
         IF Flying("client", q) THEN "toServer" ELSE "toClient"
    [] \E s \in Sides : Landed(s, q) ->
         IF Landed("client", q) THEN "toClient" ELSE "toServer"
    [] OTHER -> "lost"

Abstract == INSTANCE Rally WITH
              ball      <- [q \in QPs |-> Ball(q)],
              caught    <- rcnt,
              state     <- [s \in Sides |-> IF Alive(s) THEN "playing"
                                            ELSE IF pc[s] = "done" THEN "done" ELSE "failed"],
              Impatient <- AckLoss \/ ~PatientRetry

(* Every step of the loop, of either side and of the fabric, is a step of  *)
(* the rally or leaves it unchanged; in particular the counters rcnt and   *)
(* scnt of line 728 justify leaving it.                                    *)
ImplementsRally == Abstract!Spec
=============================================================================
