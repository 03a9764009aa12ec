--------------------------- MODULE PingPongProofs ---------------------------
(***************************************************************************)
(* Proofs about PingPong for every set of queue pairs, every iters and     *)
(* every rx_depth that the assumptions of PingPong admit.                  *)
(*                                                                         *)
(* The first half is about the books of a single queue pair: the inductive *)
(* invariant IInv relates the loop's own books (routs_arr, pending_qp) to  *)
(* the state of the HCA.  The second half is about the counters, and that  *)
(* the loop implements the rally of module Rally.  rcnt and scnt are sums  *)
(* over all queue pairs, so the invariant CInv compares them with the      *)
(* numbers of queue pairs on which a message or a completion waits; Errors *)
(* says why a queue pair is in error and its receives flushed.             *)
(***************************************************************************)
EXTENDS PingPong, FiniteSetTheorems, SequenceTheorems, TLAPS

-----------------------------------------------------------------------------
(* Completion queues.                                                      *)

(* A completion appended to a queue is in it, and nothing else changes.    *)
LEMMA AppendCqe ==
  ASSUME NEW Q \in Seq(Completions), NEW c \in Completions
  PROVE  /\ Append(Q, c) \in Seq(Completions)
         /\ Len(Append(Q, c)) = Len(Q) + 1
         /\ \A q, o : HasCqe(Append(Q, c), q, o)
                        <=> HasCqe(Q, q, o) \/ (c.qp = q /\ c.op = o)
         /\ Distinct(Q) /\ ~HasCqe(Q, c.qp, c.op) => Distinct(Append(Q, c))
         /\ \A i \in 1..Len(Append(Q, c)) :
              Append(Q, c)[i] = c \/ (i \in 1..Len(Q) /\ Append(Q, c)[i] = Q[i])
<1> DEFINE A == Append(Q, c)
<1>1. A \in Seq(Completions) /\ Len(A) = Len(Q) + 1 /\ Len(Q) \in Nat
  OBVIOUS
<1>2. \A i \in 1..Len(Q) : i \in 1..Len(A) /\ A[i] = Q[i]
  OBVIOUS
<1>3. Len(A) \in 1..Len(A) /\ A[Len(A)] = c
  OBVIOUS
<1>4. \A i \in 1..Len(A) : i = Len(A) \/ i \in 1..Len(Q)
  BY <1>1
<1> HIDE DEF A
<1>5. \A q, o : HasCqe(A, q, o) <=> HasCqe(Q, q, o) \/ (c.qp = q /\ c.op = o)
  BY <1>2, <1>3, <1>4 DEF HasCqe
<1>6. Distinct(Q) /\ ~HasCqe(Q, c.qp, c.op) => Distinct(A)
  BY <1>2, <1>3, <1>4 DEF HasCqe, Distinct
<1>7. \A i \in 1..Len(A) : A[i] = c \/ (i \in 1..Len(Q) /\ A[i] = Q[i])
  BY <1>2, <1>3, <1>4
<1> QED
  BY <1>1, <1>5, <1>6, <1>7 DEF A

(* The completion taken from the head of a queue without duplicates is no  *)
(* longer in it, and nothing else changes.                                 *)
LEMMA TailCqe ==
  ASSUME NEW Q \in Seq(Completions), Q # << >>, Distinct(Q)
  PROVE  /\ Tail(Q) \in Seq(Completions)
         /\ Head(Q) \in Completions /\ Head(Q) = Q[1]
         /\ Len(Tail(Q)) = Len(Q) - 1 /\ Len(Q) > 0
         /\ HasCqe(Q, Head(Q).qp, Head(Q).op)
         /\ \A q, o : HasCqe(Tail(Q), q, o)
                        <=> HasCqe(Q, q, o) /\ ~(Head(Q).qp = q /\ Head(Q).op = o)
         /\ Distinct(Tail(Q))
         /\ \A i \in 1..Len(Tail(Q)) : i + 1 \in 1..Len(Q) /\ Tail(Q)[i] = Q[i + 1]
<1> DEFINE T == Tail(Q)
<1>1. T \in Seq(Completions) /\ Head(Q) \in Completions /\ Head(Q) = Q[1]
      /\ Len(T) = Len(Q) - 1 /\ Len(Q) > 0 /\ Len(Q) \in Nat
  OBVIOUS
<1>2. \A i \in 1..Len(T) : i + 1 \in 1..Len(Q) /\ T[i] = Q[i + 1]
  OBVIOUS
<1>3. \A j \in 1..Len(Q) : j = 1 \/ (j - 1 \in 1..Len(T) /\ T[j - 1] = Q[j])
  <2>1. \A j \in 1..Len(Q) : j = 1 \/ (j - 1 \in 1..Len(T) /\ (j - 1) + 1 = j)
    BY <1>1
  <2> QED
    BY <2>1, <1>2
<1>4. 1 \in 1..Len(Q)
  BY <1>1
<1>5. \A i \in 1..Len(T) : i + 1 # 1
  BY <1>1
<1>6. \A i, j \in 1..Len(T) : i + 1 = j + 1 => i = j
  BY <1>1
<1> HIDE DEF T
<1>7. HasCqe(Q, Head(Q).qp, Head(Q).op)
  BY <1>1, <1>4 DEF HasCqe
<1>8. \A q, o : HasCqe(T, q, o)
                  <=> HasCqe(Q, q, o) /\ ~(Head(Q).qp = q /\ Head(Q).op = o)
  <2> SUFFICES ASSUME NEW q, NEW o
               PROVE  HasCqe(T, q, o)
                        <=> HasCqe(Q, q, o) /\ ~(Head(Q).qp = q /\ Head(Q).op = o)
    OBVIOUS
  <2>1. ASSUME HasCqe(T, q, o)
        PROVE  HasCqe(Q, q, o) /\ ~(Head(Q).qp = q /\ Head(Q).op = o)
    <3>1. PICK i \in 1..Len(T) : T[i].qp = q /\ T[i].op = o
      BY <2>1 DEF HasCqe
    <3>2. i + 1 \in 1..Len(Q) /\ Q[i + 1].qp = q /\ Q[i + 1].op = o /\ i + 1 # 1
      BY <3>1, <1>2, <1>5
    <3> QED
      BY <3>2, <1>1, <1>4 DEF HasCqe, Distinct
  <2>2. ASSUME HasCqe(Q, q, o), ~(Head(Q).qp = q /\ Head(Q).op = o)
        PROVE  HasCqe(T, q, o)
    BY <2>2, <1>1, <1>3 DEF HasCqe
  <2> QED
    BY <2>1, <2>2
<1>9. Distinct(T)
  BY <1>2, <1>6 DEF Distinct
<1> QED
  BY <1>1, <1>2, <1>7, <1>8, <1>9 DEF T

-----------------------------------------------------------------------------
(* The inductive invariant.                                                *)

IInv == TypeOK /\ PostsAccepted /\ OneBall /\ BooksAgree

LEMMA TwoSides ==
  /\ Sides = {"client", "server"}
  /\ \A s \in Sides : Peer(s) \in Sides /\ Peer(s) # s /\ Peer(Peer(s)) = s
  /\ \A s, t \in Sides : t = s \/ t = Peer(s)
BY DEF Sides, Peer

(* What taking a completion from the head of a queue does to the books.    *)
LEMMA ConsumeFacts ==
  ASSUME IInv, NEW s \in Sides, Handling(s), Consume(s)
  PROVE  LET c == NextCompletion(s)
         IN  /\ c \in Completions
             /\ cq' \in [Sides -> Seq(Completions)]
             /\ batch' \in [Sides -> Nat]
             /\ \A t \in Sides : batch'[t] <= Len(cq'[t])
             /\ Unhandled(s, c.qp, c.op)
             /\ \A t \in Sides : \A q, o : Unhandled(t, q, o)'
                  <=> Unhandled(t, q, o) /\ ~(t = s /\ q = c.qp /\ o = c.op)
             /\ Unpolled(s, c.qp, c.op) = {}
             /\ ~c.ok => c.op = Send
             /\ QueueAgrees'
<1> DEFINE c == NextCompletion(s)
<1> USE DEF IInv, TypeOK, Handling, Consume, NextCompletion, BooksAgree, QueueAgrees
<1>1. cq[s] \in Seq(Completions) /\ batch[s] \in Nat /\ batch[s] > 0
      /\ batch[s] <= Len(cq[s]) /\ Distinct(cq[s])
  OBVIOUS
<1>2. cq[s] # << >>
  BY <1>1
<1>3. /\ Tail(cq[s]) \in Seq(Completions) /\ c \in Completions /\ c = cq[s][1]
      /\ Len(Tail(cq[s])) = Len(cq[s]) - 1 /\ Len(cq[s]) > 0
      /\ HasCqe(cq[s], c.qp, c.op)
      /\ \A q, o : HasCqe(Tail(cq[s]), q, o)
                     <=> HasCqe(cq[s], q, o) /\ ~(c.qp = q /\ c.op = o)
      /\ Distinct(Tail(cq[s]))
      /\ \A i \in 1..Len(Tail(cq[s])) :
           i + 1 \in 1..Len(cq[s]) /\ Tail(cq[s])[i] = cq[s][i + 1]
  BY <1>1, <1>2, TailCqe
<1>4. cq' \in [Sides -> Seq(Completions)] /\ cq'[s] = Tail(cq[s])
      /\ \A t \in Sides : t # s => cq'[t] = cq[t]
  BY <1>3
<1>5. batch' \in [Sides -> Nat] /\ \A t \in Sides : batch'[t] <= Len(cq'[t])
  BY <1>1, <1>3, <1>4, TwoSides
<1>6. Unhandled(s, c.qp, c.op)
  BY <1>3 DEF Unhandled
<1>7. \A t \in Sides : \A q, o : Unhandled(t, q, o)'
        <=> Unhandled(t, q, o) /\ ~(t = s /\ q = c.qp /\ o = c.op)
  BY <1>3, <1>4 DEF Unhandled
<1>8. Unpolled(s, c.qp, c.op) = {}
  <2> SUFFICES ASSUME NEW i \in (batch[s] + 1)..Len(cq[s]),
                      cq[s][i].qp = c.qp, cq[s][i].op = c.op
               PROVE  FALSE
    BY DEF Unpolled
  <2>1. i \in 1..Len(cq[s]) /\ 1 \in 1..Len(cq[s]) /\ i # 1
    BY <1>1, <1>3
  <2>2. cq[s][i].qp = cq[s][1].qp /\ cq[s][i].op = cq[s][1].op
    BY <1>3
  <2>3. Distinct(cq[s])
    BY <1>1
  <2> HIDE DEF IInv, TypeOK, Handling, Consume, NextCompletion, BooksAgree, QueueAgrees, c
  <2> QED
    BY ONLY <2>1, <2>2, <2>3 DEF Distinct
<1>9. ~c.ok => c.op = Send
  <2>1. 1 \in 1..Len(cq[s])
    BY <1>1, <1>3
  <2>2. ~cq[s][1].ok => cq[s][1].op = Send
    BY <2>1
  <2> QED
    BY <2>2, <1>3
<1>10. QueueAgrees'
  <2> SUFFICES ASSUME NEW t \in Sides
               PROVE  /\ Distinct(cq'[t])
                      /\ \A i \in 1..Len(cq'[t]) : ~cq'[t][i].ok => cq'[t][i].op = Send
    OBVIOUS
  <2>1. CASE t = s
    <3>1. \A i \in 1..Len(cq[s]) : ~cq[s][i].ok => cq[s][i].op = Send
      OBVIOUS
    <3> QED
      BY ONLY <2>1, <3>1, <1>3, <1>4, s \in Sides
  <2>2. CASE t # s
    BY <2>2, <1>4
  <2> QED
    BY <2>1, <2>2
<1> QED
  BY <1>3, <1>4, <1>5, <1>6, <1>7, <1>8, <1>9, <1>10

(* What a new completion of side t does to the books.                      *)
LEMMA AppendFacts ==
  ASSUME IInv, NEW t \in Sides, NEW c \in Completions,
         cq' = [cq EXCEPT ![t] = Append(@, c)],
         batch' = batch,
         ~Unhandled(t, c.qp, c.op),
         c.ok \/ c.op = Send
  PROVE  /\ cq' \in [Sides -> Seq(Completions)]
         /\ \A u \in Sides : batch'[u] <= Len(cq'[u])
         /\ \A u \in Sides : \A q, o : Unhandled(u, q, o)'
              <=> Unhandled(u, q, o) \/ (u = t /\ q = c.qp /\ o = c.op)
         /\ QueueAgrees'
<1> USE DEF IInv, TypeOK, BooksAgree, QueueAgrees
<1>1. cq[t] \in Seq(Completions) /\ Distinct(cq[t]) /\ ~HasCqe(cq[t], c.qp, c.op)
  BY DEF Unhandled
<1>2. /\ Append(cq[t], c) \in Seq(Completions)
      /\ Len(Append(cq[t], c)) = Len(cq[t]) + 1
      /\ \A q, o : HasCqe(Append(cq[t], c), q, o)
                     <=> HasCqe(cq[t], q, o) \/ (c.qp = q /\ c.op = o)
      /\ Distinct(Append(cq[t], c))
      /\ \A i \in 1..Len(Append(cq[t], c)) :
           Append(cq[t], c)[i] = c
             \/ (i \in 1..Len(cq[t]) /\ Append(cq[t], c)[i] = cq[t][i])
  BY <1>1, AppendCqe
<1>3. cq' \in [Sides -> Seq(Completions)] /\ cq'[t] = Append(cq[t], c)
      /\ \A u \in Sides : u # t => cq'[u] = cq[u]
  BY <1>2
<1>4. \A u \in Sides : batch'[u] <= Len(cq'[u])
  <2> TAKE u \in Sides
  <2>1. batch[u] \in Nat /\ Len(cq[u]) \in Nat /\ batch[u] <= Len(cq[u])
    OBVIOUS
  <2>2. Len(cq'[u]) = Len(cq[u]) \/ Len(cq'[u]) = Len(cq[u]) + 1
    BY <1>2, <1>3
  <2> QED
    BY <2>1, <2>2
<1>5. \A u \in Sides : \A q, o : Unhandled(u, q, o)'
        <=> Unhandled(u, q, o) \/ (u = t /\ q = c.qp /\ o = c.op)
  BY <1>2, <1>3 DEF Unhandled
<1>6. QueueAgrees'
  BY <1>2, <1>3
<1> QED
  BY <1>3, <1>4, <1>5, <1>6

-----------------------------------------------------------------------------
(* One lemma per action.                                                   *)

LEMMA InitIInv == Init => IInv
<1> SUFFICES ASSUME Init PROVE IInv
  OBVIOUS
<1> USE DEF Init
<1>1. TypeOK
  BY RxDepthAssumption DEF TypeOK, Completions, Recv, Send
<1>2. \A s \in Sides : \A q, o : ~Unhandled(s, q, o)
  BY DEF Unhandled, HasCqe
<1>3. PostsAccepted
  BY DEF PostsAccepted
<1>4. OneBall
  BY <1>2, TwoSides DEF OneBall, Holds, Flying, Landed
<1>5. BooksAgree
  BY <1>2, RxDepthAssumption
     DEF BooksAgree, ReceivesAgree, SendsAgree, QueueAgrees, Distinct, Landed, Recv, Send
<1> QED
  BY <1>1, <1>3, <1>4, <1>5 DEF IInv

LEMMA StartIInv == ASSUME IInv, NEW s \in Sides, Start(s) PROVE IInv'
<1> USE DEF Start
<1>1. \A t \in Sides : \A q, o : Unhandled(t, q, o)' <=> Unhandled(t, q, o)
  BY DEF Unhandled
<1>2. TypeOK'
  <2>1. /\ [q \in QPs |-> {Recv, Send}] \in [QPs -> SUBSET {Recv, Send}]
        /\ [q \in QPs |-> {Recv}] \in [QPs -> SUBSET {Recv, Send}]
        /\ [q \in QPs |-> "wire"] \in [QPs -> {"idle", "wire", "arrived"}]
    OBVIOUS
  <2>2. pending' \in [Sides -> [QPs -> SUBSET {Recv, Send}]]
    BY <2>1 DEF IInv, TypeOK
  <2>3. sq' \in [Sides -> [QPs -> {"idle", "wire", "arrived"}]]
    BY <2>1 DEF IInv, TypeOK
  <2> QED
    BY <2>2, <2>3 DEF IInv, TypeOK
<1>3. PostsAccepted'
  BY DEF IInv, PostsAccepted, TypeOK
<1>4. OneBall'
  <2>1. CASE s = "client"
    BY <2>1, <1>1, TwoSides
       DEF IInv, TypeOK, OneBall, Holds, Flying, Landed, Recv, Send, Peer
  <2>2. CASE s = "server"
    BY <2>2, <1>1, TwoSides
       DEF IInv, TypeOK, OneBall, Holds, Flying, Landed, Recv, Send, Peer
  <2> QED
    BY <2>1, <2>2, TwoSides
<1>5. ReceivesAgree'
  BY <1>1 DEF IInv, BooksAgree, ReceivesAgree, Landed
<1>6. SendsAgree'
  <2> SUFFICES ASSUME NEW t \in Sides, NEW q \in QPs
               PROVE  /\ Unhandled(t, q, Send)' => sq'[t][q] = "idle"
                      /\ pc'[t] = "start" => sq'[t][q] = "idle" /\ ~Unhandled(t, q, Send)'
                      /\ pc'[t] = "run" => (Send \in pending'[t][q]
                                             <=> sq'[t][q] # "idle" \/ Unhandled(t, q, Send)')
    BY DEF SendsAgree
  <2>1. CASE t # s
    BY <2>1, <1>1 DEF IInv, TypeOK, BooksAgree, SendsAgree
  <2>2. CASE t = s
    <3>1. ~Unhandled(t, q, Send)' /\ sq[t][q] = "idle" /\ pc'[t] = "run"
      BY <2>2, <1>1 DEF IInv, TypeOK, BooksAgree, SendsAgree
    <3>2. CASE s = "client"
      BY <2>2, <3>1, <3>2 DEF IInv, TypeOK, Recv, Send
    <3>3. CASE s # "client"
      BY <2>2, <3>1, <3>3 DEF IInv, TypeOK, Recv, Send
    <3> QED
      BY <3>2, <3>3
  <2> QED
    BY <2>1, <2>2
<1>7. QueueAgrees'
  BY DEF IInv, BooksAgree, QueueAgrees
<1> QED
  BY <1>2, <1>3, <1>4, <1>5, <1>6, <1>7 DEF IInv, BooksAgree

(* A step that changes neither the queues nor the books, and pc from "run" *)
(* to a regular exit at most.                                              *)
LEMMA QuietIInv ==
  ASSUME IInv, UNCHANGED <<loopVars, hcaVars>>,
         batch' \in [Sides -> Nat], \A t \in Sides : batch'[t] <= Len(cq[t]),
         pc' \in [Sides -> {"start", "run"} \cup Exits],
         \A t \in Sides : pc'[t] = pc[t]
            \/ (pc[t] = "run" /\ pc'[t] \in {"done", "pollFailed", "badStatus"})
  PROVE  IInv'
<1> USE DEF loopVars, hcaVars
<1>1. \A t \in Sides : \A q, o : Unhandled(t, q, o)' <=> Unhandled(t, q, o)
  BY DEF Unhandled
<1>2. TypeOK'
  BY DEF IInv, TypeOK
<1>3. PostsAccepted'
  BY DEF IInv, PostsAccepted
<1>4. OneBall'
  BY <1>1, TwoSides DEF IInv, OneBall, Holds, Flying, Landed
<1>5. ReceivesAgree'
  BY <1>1 DEF IInv, BooksAgree, ReceivesAgree, Landed
<1>6. SendsAgree'
  BY <1>1 DEF IInv, BooksAgree, SendsAgree
<1>7. QueueAgrees'
  BY DEF IInv, BooksAgree, QueueAgrees
<1> QED
  BY <1>2, <1>3, <1>4, <1>5, <1>6, <1>7 DEF IInv, BooksAgree

LEMMA PollIInv == ASSUME IInv, NEW s \in Sides, Poll(s) PROVE IInv'
<1> USE DEF Poll, IInv, TypeOK
<1> DEFINE room == 2 * Cardinality(QPs)
<1>1. room \in Nat
  BY QPsAssumption, FS_CardinalityType
<1>2. Len(cq[s]) \in Nat
  OBVIOUS
<1> HIDE DEF room
<1>3. batch' = [batch EXCEPT ![s] = IF Len(cq[s]) < room THEN Len(cq[s]) ELSE room]
  BY DEF room
<1>4. batch' \in [Sides -> Nat] /\ \A t \in Sides : batch'[t] <= Len(cq[t])
  BY <1>1, <1>2, <1>3
<1> QED
  BY <1>4, QuietIInv

LEMMA LeaveIInv ==
  ASSUME IInv, NEW s \in Sides, PollFails(s) \/ Close(s) PROVE IInv'
<1>1. UNCHANGED <<loopVars, batch, hcaVars>>
  BY DEF PollFails, Close
<1>2. /\ pc' \in [Sides -> {"start", "run"} \cup Exits]
      /\ \A t \in Sides : pc'[t] = pc[t]
            \/ (pc[t] = "run" /\ pc'[t] \in {"done", "pollFailed", "badStatus"})
  BY DEF PollFails, Close, IInv, TypeOK, Exits
<1> QED
  BY <1>1, <1>2, QuietIInv DEF IInv, TypeOK

LEMMA DeliverIInv ==
  ASSUME IInv, NEW s \in Sides, NEW q \in QPs, Deliver(s, q) PROVE IInv'
<1> DEFINE p == Peer(s)
           c == Wc(q, Recv, TRUE)
<1>1. p \in Sides /\ p # s /\ Peer(p) = s /\ c \in Completions
      /\ c.qp = q /\ c.op = Recv /\ c.ok
  BY TwoSides DEF Wc, Completions
<1>2. Flying(s, q) /\ ~Landed(p, q) /\ ~Landed(s, q) /\ ~Flying(p, q)
      /\ ~Holds(s, q) /\ ~Holds(p, q)
  BY <1>1 DEF IInv, OneBall, Flying, Deliver
<1>4. /\ rq[p][q] \in 0..RxDepth /\ rq[p][q] > 0
      /\ rq' = [rq EXCEPT ![p][q] = rq[p][q] - 1]
      /\ cq' = [cq EXCEPT ![p] = Append(@, c)]
      /\ sq' = [sq EXCEPT ![s][q] = "arrived"]
      /\ UNCHANGED <<pc, pending, routs, rcnt, scnt, batch>>
  BY <1>1 DEF IInv, TypeOK, loopVars, Deliver
<1> HIDE DEF c, p
<1>3. /\ cq' \in [Sides -> Seq(Completions)]
      /\ \A u \in Sides : batch'[u] <= Len(cq'[u])
      /\ \A u \in Sides : \A r, o : Unhandled(u, r, o)'
           <=> Unhandled(u, r, o) \/ (u = p /\ r = q /\ o = Recv)
      /\ QueueAgrees'
  <2>1. ~Unhandled(p, c.qp, c.op)
    BY <1>1, <1>2 DEF Landed
  <2>2. cq' = [cq EXCEPT ![p] = Append(@, c)] /\ batch' = batch
    BY <1>4
  <2>3. c.ok \/ c.op = Send
    BY <1>1
  <2>4. /\ cq' \in [Sides -> Seq(Completions)]
        /\ \A u \in Sides : batch'[u] <= Len(cq'[u])
        /\ \A u \in Sides : \A r, o : Unhandled(u, r, o)'
             <=> Unhandled(u, r, o) \/ (u = p /\ r = c.qp /\ o = c.op)
        /\ QueueAgrees'
    BY <1>1, <2>1, <2>2, <2>3, AppendFacts
  <2> QED
    BY <1>1, <2>4
<1>5. TypeOK'
  <2>1. rq[p][q] - 1 \in 0..RxDepth
    BY <1>4, RxDepthAssumption
  <2>2. rq' \in [Sides -> [QPs -> 0..RxDepth]]
    BY <2>1, <1>4 DEF IInv, TypeOK
  <2>3. sq' \in [Sides -> [QPs -> {"idle", "wire", "arrived"}]]
    BY <1>4 DEF IInv, TypeOK
  <2>4. err' = err
    BY DEF Deliver
  <2> QED
    BY <2>2, <2>3, <2>4, <1>3, <1>4 DEF IInv, TypeOK
<1>6. PostsAccepted'
  BY <1>4 DEF IInv, PostsAccepted
<1>7. OneBall'
  <2>1. \A u \in Sides, r \in QPs : /\ Holds(u, r)' <=> Holds(u, r)
                                    /\ Flying(u, r)' <=> Flying(u, r) /\ ~(u = s /\ r = q)
                                    /\ Landed(u, r)' <=> Landed(u, r) \/ (u = p /\ r = q)
    <3> SUFFICES ASSUME NEW u \in Sides, NEW r \in QPs
                 PROVE  /\ Holds(u, r)' <=> Holds(u, r)
                        /\ Flying(u, r)' <=> Flying(u, r) /\ ~(u = s /\ r = q)
                        /\ Landed(u, r)' <=> Landed(u, r) \/ (u = p /\ r = q)
      OBVIOUS
    <3>1. Holds(u, r)' <=> Holds(u, r)
      BY <1>4 DEF Holds
    <3>2. Flying(u, r)' <=> Flying(u, r) /\ ~(u = s /\ r = q)
      BY <1>4 DEF IInv, TypeOK, Flying
    <3>3. Landed(u, r)' <=> Landed(u, r) \/ (u = p /\ r = q)
      BY <1>3 DEF Landed
    <3> QED
      BY <3>1, <3>2, <3>3
  <2> QED
    BY <2>1, <1>1, <1>2, TwoSides DEF IInv, OneBall
<1>8. ReceivesAgree'
  <2>1. \A u \in Sides, r \in QPs : Landed(u, r)' <=> Landed(u, r) \/ (u = p /\ r = q)
    BY <1>3 DEF Landed
  <2> SUFFICES ASSUME NEW u \in Sides, NEW r \in QPs
               PROVE  /\ routs[u][r] = rq'[u][r] + (IF Landed(u, r)' THEN 1 ELSE 0)
                      /\ routs[u][r] >= 2
    BY <1>4 DEF ReceivesAgree
  <2>2. /\ routs[u][r] = rq[u][r] + (IF Landed(u, r) THEN 1 ELSE 0)
        /\ routs[u][r] >= 2
    BY DEF IInv, BooksAgree, ReceivesAgree
  <2>3. rq'[u][r] = IF u = p /\ r = q THEN rq[u][r] - 1 ELSE rq[u][r]
    BY <1>4 DEF IInv, TypeOK
  <2>4. rq[u][r] \in Int
    BY DEF IInv, TypeOK
  <2>5. CASE u = p /\ r = q
    BY <2>1, <2>2, <2>3, <2>4, <2>5, <1>2
  <2>6. CASE ~(u = p /\ r = q)
    BY <2>1, <2>2, <2>3, <2>6
  <2> QED
    BY <2>5, <2>6
<1>9. SendsAgree'
  <2>1. \A u \in Sides, r \in QPs : Unhandled(u, r, Send)' <=> Unhandled(u, r, Send)
    BY <1>3 DEF Recv, Send
  <2>2. sq[s][q] = "wire" /\ ~Unhandled(s, q, Send) /\ pc[s] # "start"
    BY <1>2 DEF IInv, BooksAgree, SendsAgree, Flying
  <2>3. \A u \in Sides, r \in QPs :
          sq'[u][r] = IF u = s /\ r = q THEN "arrived" ELSE sq[u][r]
    BY <1>4 DEF IInv, TypeOK
  <2> QED
    BY <2>1, <2>2, <2>3, <1>4 DEF IInv, BooksAgree, SendsAgree
<1> QED
  BY <1>3, <1>5, <1>6, <1>7, <1>8, <1>9 DEF IInv, BooksAgree

(* The two ways a send completes.                                          *)
LEMMA CompleteSendIInv ==
  ASSUME IInv, NEW s \in Sides, NEW q \in QPs,
         Acknowledge(s, q) \/ RetryExceeded(s, q)
  PROVE  IInv'
<1>1. PICK k \in BOOLEAN : /\ cq' = [cq EXCEPT ![s] = Append(@, Wc(q, Send, k))]
                           /\ sq' = [sq EXCEPT ![s][q] = "idle"]
                           /\ UNCHANGED <<pc, loopVars, batch, rq>>
                           /\ sq[s][q] # "idle" /\ Alive(s)
  BY DEF Acknowledge, RetryExceeded
<1> DEFINE c == Wc(q, Send, k)
<1>2. c \in Completions /\ c.qp = q /\ c.op = Send
  BY DEF Wc, Completions
<1>3. ~Unhandled(s, q, Send)
  BY <1>1 DEF IInv, BooksAgree, SendsAgree
<1>4. cq' = [cq EXCEPT ![s] = Append(@, c)]
  BY <1>1
<1> HIDE DEF c
<1>5. /\ cq' \in [Sides -> Seq(Completions)]
      /\ \A u \in Sides : batch'[u] <= Len(cq'[u])
      /\ \A u \in Sides : \A r, o : Unhandled(u, r, o)'
           <=> Unhandled(u, r, o) \/ (u = s /\ r = q /\ o = Send)
      /\ QueueAgrees'
  BY <1>1, <1>2, <1>3, <1>4, AppendFacts
<1>6. UNCHANGED <<pc, pending, routs, rcnt, scnt, batch, rq>>
  BY <1>1 DEF loopVars
<1>7. TypeOK'
  <2>0. err \in [Sides -> SUBSET QPs]
    BY DEF IInv, TypeOK
  <2>1. err' \in [Sides -> SUBSET QPs]
    <3>1. CASE Acknowledge(s, q)
      BY <2>0, <3>1 DEF Acknowledge
    <3>2. CASE RetryExceeded(s, q)
      <4>1. err' = [err EXCEPT ![s] = err[s] \cup {q}]
        BY <3>2 DEF RetryExceeded
      <4>2. err[s] \cup {q} \in SUBSET QPs
        BY <2>0
      <4> QED
        BY <2>0, <4>1, <4>2
    <3> QED
      BY <3>1, <3>2
  <2> QED
    BY <2>1, <1>1, <1>5, <1>6 DEF IInv, TypeOK
<1>8. PostsAccepted'
  BY <1>6 DEF IInv, PostsAccepted
<1>9. \A u \in Sides, r \in QPs : /\ Holds(u, r)' <=> Holds(u, r)
                                  /\ Flying(u, r)' => Flying(u, r)
                                  /\ Landed(u, r)' <=> Landed(u, r)
  BY <1>1, <1>5, <1>6 DEF IInv, TypeOK, Holds, Flying, Landed, Recv, Send
<1>10. OneBall'
  BY <1>9, TwoSides DEF IInv, OneBall
<1>11. ReceivesAgree'
  BY <1>9, <1>6 DEF IInv, BooksAgree, ReceivesAgree
<1>12. SendsAgree'
  <2>1. pc[s] \in {"start", "run"}
    BY <1>1 DEF Alive
  <2>2. pc[s] # "start" /\ (pc[s] = "run" => Send \in pending[s][q])
    BY <1>1 DEF IInv, BooksAgree, SendsAgree
  <2> QED
    BY <2>1, <2>2, <1>1, <1>5, <1>6 DEF IInv, TypeOK, BooksAgree, SendsAgree
<1> QED
  BY <1>5, <1>7, <1>8, <1>10, <1>11, <1>12 DEF IInv, BooksAgree

LEMMA HandleBadStatusIInv ==
  ASSUME IInv, NEW s \in Sides, HandleBadStatus(s) PROVE IInv'
<1> DEFINE c == NextCompletion(s)
<1>1. Handling(s) /\ Consume(s) /\ ~c.ok /\ pc[s] = "run"
      /\ pc' = [pc EXCEPT ![s] = "badStatus"]
      /\ UNCHANGED <<pending, routs, rcnt, scnt, rq, sq, err>>
  BY DEF HandleBadStatus, loopVars, Handling
<1>2. /\ c \in Completions
      /\ cq' \in [Sides -> Seq(Completions)]
      /\ batch' \in [Sides -> Nat]
      /\ \A t \in Sides : batch'[t] <= Len(cq'[t])
      /\ \A t \in Sides : \A r, o : Unhandled(t, r, o)'
           <=> Unhandled(t, r, o) /\ ~(t = s /\ r = c.qp /\ o = c.op)
      /\ c.op = Send
      /\ QueueAgrees'
  BY <1>1, ConsumeFacts
<1> HIDE DEF c
<1>3. pc' \in [Sides -> {"start", "run"} \cup Exits] /\ pc'[s] = "badStatus"
      /\ \A t \in Sides : t # s => pc'[t] = pc[t]
  BY <1>1 DEF IInv, TypeOK, Exits
<1>4. \A t \in Sides, r \in QPs : Landed(t, r)' <=> Landed(t, r)
  BY <1>2 DEF Landed, Recv, Send
<1>5. TypeOK'
  BY <1>1, <1>2, <1>3 DEF IInv, TypeOK
<1>6. PostsAccepted'
  BY <1>3 DEF IInv, PostsAccepted
<1>7. OneBall'
  BY <1>1, <1>3, <1>4, TwoSides DEF IInv, OneBall, Holds, Flying
<1>8. ReceivesAgree'
  BY <1>1, <1>4 DEF IInv, BooksAgree, ReceivesAgree
<1>9. SendsAgree'
  BY <1>1, <1>2, <1>3 DEF IInv, BooksAgree, SendsAgree
<1> QED
  BY <1>2, <1>5, <1>6, <1>7, <1>8, <1>9 DEF IInv, BooksAgree

(* The two outcomes of the end of the loop body on the queue pair q: the   *)
(* bit o is cleared and that is all, or the next send is posted.           *)
Kept(s, q, o)   == /\ pending'[s][q] = pending[s][q] \ {o}
                   /\ sq'[s][q] = sq[s][q]
Posted(s, q, o) == /\ pending[s][q] \ {o} = {}
                   /\ sq[s][q] = "idle"
                   /\ pending'[s][q] = {Recv, Send}
                   /\ sq'[s][q] = "wire"

(* The bookkeeping at the end of the loop body: the post is accepted, the  *)
(* bits are what they should be.                                           *)
LEMMA ClearFacts ==
  ASSUME IInv, NEW s \in Sides, NEW q \in QPs, NEW o \in {Recv, Send},
         NEW sent \in Nat,
         pc[s] = "run",
         Unhandled(s, q, o),
         Unpolled(s, q, o) = {},
         o = Recv => Recv \in pending[s][q],
         ClearAndMaybeSend(s, q, o, sent)
  PROVE  /\ pc' = pc
         /\ pending' \in [Sides -> [QPs -> SUBSET {Recv, Send}]]
         /\ sq' \in [Sides -> [QPs -> {"idle", "wire", "arrived"}]]
         /\ \A t \in Sides, r \in QPs : ~(t = s /\ r = q) =>
              pending'[t][r] = pending[t][r] /\ sq'[t][r] = sq[t][r]
         /\ \/ Kept(s, q, o)
            \/ /\ Posted(s, q, o) /\ sent < Iters
               /\ o = Recv => ~Unhandled(s, q, Send)
<1> DEFINE left == pending[s][q] \ {o}
           ready == sent < Iters /\ left = {}
<1>1. SendWhen(ready, s, q, left)
  BY DEF ClearAndMaybeSend
<1>2. CASE ~ready
  <2>1. pc' = pc /\ sq' = sq /\ pending' = [pending EXCEPT ![s][q] = left]
    BY <1>1, <1>2 DEF SendWhen
  <2>2. left \in SUBSET {Recv, Send}
    BY DEF IInv, TypeOK
  <2> HIDE DEF left
  <2>3. /\ pending' \in [Sides -> [QPs -> SUBSET {Recv, Send}]]
        /\ pending'[s][q] = left
        /\ \A t \in Sides, r \in QPs : ~(t = s /\ r = q) => pending'[t][r] = pending[t][r]
    BY <2>1, <2>2 DEF IInv, TypeOK
  <2> QED
    BY <2>1, <2>3 DEF IInv, TypeOK, left, Kept
<1>3. CASE ready
  <2>1. PostSend(s, q, left)
    BY <1>1, <1>3 DEF SendWhen
  <2>2. Send \in pending[s][q] <=> sq[s][q] # "idle" \/ Unhandled(s, q, Send)
    BY DEF IInv, BooksAgree, SendsAgree
  <2>3. Unhandled(s, q, Send) => sq[s][q] = "idle"
    BY DEF IInv, BooksAgree, SendsAgree
  <2>4. SendSlotFree(s, q) /\ (o = Recv => ~Unhandled(s, q, Send))
    <3>1. CASE o = Send
      BY <3>1, <2>3 DEF SendSlotFree, Recv, Send
    <3>2. CASE o = Recv
      <4>1. Send \notin pending[s][q]
        BY <3>2, <1>3 DEF Recv, Send
      <4>2. sq[s][q] = "idle" /\ ~Unhandled(s, q, Send)
        BY <4>1, <2>2
      <4>3. batch[s] \in Nat /\ Len(cq[s]) \in Nat
        BY DEF IInv, TypeOK
      <4>4. Unpolled(s, q, Send) = {}
        <5>1. \A i \in (batch[s] + 1)..Len(cq[s]) : i \in 1..Len(cq[s])
          BY <4>3
        <5> QED
          BY <5>1, <4>2 DEF Unhandled, HasCqe, Unpolled
      <4> QED
        BY <4>2, <4>4 DEF SendSlotFree
    <3> QED
      BY <3>1, <3>2
  <2>5. /\ pc' = pc
        /\ pending' = [pending EXCEPT ![s][q] = {Recv, Send}]
        /\ sq' = [sq EXCEPT ![s][q] = "wire"]
    BY <2>1, <2>4 DEF PostSend
  <2>6. /\ pending' \in [Sides -> [QPs -> SUBSET {Recv, Send}]]
        /\ pending'[s][q] = {Recv, Send}
        /\ \A t \in Sides, r \in QPs : ~(t = s /\ r = q) => pending'[t][r] = pending[t][r]
    BY <2>5 DEF IInv, TypeOK
  <2>7. /\ sq' \in [Sides -> [QPs -> {"idle", "wire", "arrived"}]]
        /\ sq'[s][q] = "wire"
        /\ \A t \in Sides, r \in QPs : ~(t = s /\ r = q) => sq'[t][r] = sq[t][r]
    BY <2>5 DEF IInv, TypeOK
  <2> QED
    BY <1>3, <2>4, <2>5, <2>6, <2>7 DEF SendSlotFree, Posted
<1> QED
  BY <1>2, <1>3

(* A completed send is handled: what changes on the queue pair q.           *)
LEMMA HandleSendFacts ==
  ASSUME IInv, NEW s \in Sides, HandleSend(s), NEW q, q = NextCompletion(s).qp
  PROVE  /\ q \in QPs /\ pc[s] = "run" /\ pc' = pc
         /\ scnt' = [scnt EXCEPT ![s] = @ + 1]
         /\ UNCHANGED <<routs, rcnt, rq>>
         /\ cq' \in [Sides -> Seq(Completions)]
         /\ batch' \in [Sides -> Nat]
         /\ \A t \in Sides : batch'[t] <= Len(cq'[t])
         /\ Unhandled(s, q, Send)
         /\ \A t \in Sides : \A r, o : Unhandled(t, r, o)'
              <=> Unhandled(t, r, o) /\ ~(t = s /\ r = q /\ o = Send)
         /\ QueueAgrees'
         /\ pending' \in [Sides -> [QPs -> SUBSET {Recv, Send}]]
         /\ sq' \in [Sides -> [QPs -> {"idle", "wire", "arrived"}]]
         /\ \A t \in Sides, r \in QPs : ~(t = s /\ r = q) =>
              pending'[t][r] = pending[t][r] /\ sq'[t][r] = sq[t][r]
         /\ Kept(s, q, Send) \/ (Posted(s, q, Send) /\ scnt[s] + 1 < Iters)
<1> DEFINE c == NextCompletion(s)
<1>1. /\ Handling(s) /\ Consume(s) /\ c.op = Send /\ pc[s] = "run"
      /\ scnt' = [scnt EXCEPT ![s] = @ + 1]
      /\ ClearAndMaybeSend(s, q, Send, scnt[s] + 1)
      /\ UNCHANGED <<routs, rcnt, rq>>
  BY DEF HandleSend, Handling
<1>2. /\ c \in Completions
      /\ cq' \in [Sides -> Seq(Completions)]
      /\ batch' \in [Sides -> Nat]
      /\ \A t \in Sides : batch'[t] <= Len(cq'[t])
      /\ Unhandled(s, q, Send)
      /\ \A t \in Sides : \A r, o : Unhandled(t, r, o)'
           <=> Unhandled(t, r, o) /\ ~(t = s /\ r = q /\ o = Send)
      /\ Unpolled(s, q, Send) = {}
      /\ QueueAgrees'
  BY <1>1, ConsumeFacts
<1>3. q \in QPs
  BY <1>2 DEF Completions
<1> HIDE DEF c
<1>4. scnt[s] + 1 \in Nat
  BY DEF IInv, TypeOK
<1>5. /\ pc' = pc
      /\ pending' \in [Sides -> [QPs -> SUBSET {Recv, Send}]]
      /\ sq' \in [Sides -> [QPs -> {"idle", "wire", "arrived"}]]
      /\ \A t \in Sides, r \in QPs : ~(t = s /\ r = q) =>
           pending'[t][r] = pending[t][r] /\ sq'[t][r] = sq[t][r]
      /\ Kept(s, q, Send) \/ (Posted(s, q, Send) /\ scnt[s] + 1 < Iters)
  <2>1. Send = Recv => Recv \in pending[s][q]
    BY DEF Recv, Send
  <2>2. Send \in {Recv, Send}
    OBVIOUS
  <2> QED
    BY <1>1, <1>2, <1>3, <1>4, <2>1, <2>2, ClearFacts
<1> QED
  BY <1>1, <1>2, <1>3, <1>5

LEMMA HandleSendIInv ==
  ASSUME IInv, NEW s \in Sides, HandleSend(s) PROVE IInv'
<1>0. PICK q : q = NextCompletion(s).qp
  OBVIOUS
<1>1. /\ pc[s] = "run"
      /\ scnt' = [scnt EXCEPT ![s] = @ + 1]
      /\ UNCHANGED <<routs, rcnt, rq>>
  BY <1>0, HandleSendFacts
<1>2. /\ cq' \in [Sides -> Seq(Completions)]
      /\ batch' \in [Sides -> Nat]
      /\ \A t \in Sides : batch'[t] <= Len(cq'[t])
      /\ Unhandled(s, q, Send)
      /\ \A t \in Sides : \A r, o : Unhandled(t, r, o)'
           <=> Unhandled(t, r, o) /\ ~(t = s /\ r = q /\ o = Send)
      /\ QueueAgrees'
  BY <1>0, HandleSendFacts
<1>3. q \in QPs
  BY <1>0, HandleSendFacts
<1>4. scnt[s] + 1 \in Nat
  BY DEF IInv, TypeOK
<1>5. /\ pc' = pc
      /\ pending' \in [Sides -> [QPs -> SUBSET {Recv, Send}]]
      /\ sq' \in [Sides -> [QPs -> {"idle", "wire", "arrived"}]]
      /\ \A t \in Sides, r \in QPs : ~(t = s /\ r = q) =>
           pending'[t][r] = pending[t][r] /\ sq'[t][r] = sq[t][r]
      /\ Kept(s, q, Send) \/ (Posted(s, q, Send) /\ scnt[s] + 1 < Iters)
  BY <1>0, HandleSendFacts
<1>6. \A t \in Sides, r \in QPs : Landed(t, r)' <=> Landed(t, r)
  BY <1>2 DEF Landed, Recv, Send
<1>7. sq[s][q] = "idle"
  BY <1>2, <1>3 DEF IInv, BooksAgree, SendsAgree
<1>8. TypeOK'
  <2>1. scnt' \in [Sides -> Nat]
    BY <1>1, <1>4 DEF IInv, TypeOK
  <2>2. err' = err
    BY DEF HandleSend
  <2> QED
    BY <2>1, <2>2, <1>1, <1>2, <1>5 DEF IInv, TypeOK
<1>9. PostsAccepted'
  BY <1>5 DEF IInv, PostsAccepted
<1>10. OneBall'
  <2>1. \A t \in Sides, r \in QPs : ~(t = s /\ r = q) =>
          (Holds(t, r)' <=> Holds(t, r)) /\ (Flying(t, r)' <=> Flying(t, r))
    BY <1>5 DEF Holds, Flying
  <2>2. CASE Kept(s, q, Send)
    <3>1. (Holds(s, q)' <=> Holds(s, q)) /\ (Flying(s, q)' <=> Flying(s, q))
      BY <1>1, <1>5, <2>2 DEF Kept, Holds, Flying, Recv, Send
    <3> QED
      BY <2>1, <3>1, <1>6, TwoSides DEF IInv, OneBall
  <2>3. CASE Posted(s, q, Send)
    <3>1. Holds(s, q) /\ ~Holds(s, q)' /\ Flying(s, q)'
      BY <1>1, <1>5, <2>3 DEF Posted, Holds, Flying, Recv, Send
    <3> QED
      BY <2>1, <3>1, <1>3, <1>6, TwoSides DEF IInv, OneBall
  <2> QED
    BY <1>5, <2>2, <2>3
<1>11. ReceivesAgree'
  BY <1>1, <1>6 DEF IInv, BooksAgree, ReceivesAgree
<1>12. SendsAgree'
  <2> SUFFICES ASSUME NEW t \in Sides, NEW r \in QPs
               PROVE  /\ Unhandled(t, r, Send)' => sq'[t][r] = "idle"
                      /\ pc'[t] = "start" => sq'[t][r] = "idle" /\ ~Unhandled(t, r, Send)'
                      /\ pc'[t] = "run" => (Send \in pending'[t][r]
                                             <=> sq'[t][r] # "idle" \/ Unhandled(t, r, Send)')
    BY DEF SendsAgree
  <2>1. CASE t = s /\ r = q
    <3>1. ~Unhandled(t, r, Send)' /\ pc'[t] = "run"
      BY <2>1, <1>1, <1>2, <1>5
    <3>2. Send \in pending'[t][r] <=> sq'[t][r] # "idle"
      BY <2>1, <1>5, <1>7 DEF Kept, Posted
    <3> QED
      BY <3>1, <3>2
  <2>2. CASE ~(t = s /\ r = q)
    <3>1. /\ Unhandled(t, r, Send)' <=> Unhandled(t, r, Send)
          /\ pending'[t][r] = pending[t][r] /\ sq'[t][r] = sq[t][r] /\ pc'[t] = pc[t]
      BY <2>2, <1>2, <1>5
    <3> QED
      BY <3>1 DEF IInv, BooksAgree, SendsAgree
  <2> QED
    BY <2>1, <2>2
<1> QED
  BY <1>2, <1>8, <1>9, <1>10, <1>11, <1>12 DEF IInv, BooksAgree

(* An arrived message is handled: every post is accepted, and the books of  *)
(* the queue pair q end up equal to the receives posted.                    *)
LEMMA HandleRecvFacts ==
  ASSUME IInv, NEW s \in Sides, HandleRecv(s), NEW q, q = NextCompletion(s).qp
  PROVE  /\ q \in QPs /\ pc[s] = "run" /\ pc' = pc
         /\ UNCHANGED scnt /\ rcnt' = [rcnt EXCEPT ![s] = @ + 1]
         /\ cq' \in [Sides -> Seq(Completions)]
         /\ batch' \in [Sides -> Nat]
         /\ \A t \in Sides : batch'[t] <= Len(cq'[t])
         /\ Unhandled(s, q, Recv)
         /\ \A t \in Sides : \A r, o : Unhandled(t, r, o)'
              <=> Unhandled(t, r, o) /\ ~(t = s /\ r = q /\ o = Recv)
         /\ QueueAgrees'
         /\ routs' \in [Sides -> [QPs -> 0..RxDepth]]
         /\ rq' \in [Sides -> [QPs -> 0..RxDepth]]
         /\ routs'[s][q] = rq'[s][q] /\ routs'[s][q] >= 2
         /\ Recv \in pending[s][q]
         /\ pending' \in [Sides -> [QPs -> SUBSET {Recv, Send}]]
         /\ sq' \in [Sides -> [QPs -> {"idle", "wire", "arrived"}]]
         /\ \A t \in Sides, r \in QPs : ~(t = s /\ r = q) =>
              /\ pending'[t][r] = pending[t][r] /\ sq'[t][r] = sq[t][r]
              /\ routs'[t][r] = routs[t][r] /\ rq'[t][r] = rq[t][r]
         /\ \/ Kept(s, q, Recv)
            \/ Posted(s, q, Recv) /\ scnt[s] < Iters /\ ~Unhandled(s, q, Send)
<1> DEFINE c == NextCompletion(s)
           left == routs[s][q] - 1
           now  == left + Reposted(s, q)
<1>1. /\ Handling(s) /\ Consume(s) /\ c.op = Recv /\ pc[s] = "run"
      /\ routs' = [routs EXCEPT ![s][q] = now]
      /\ rq' = [rq EXCEPT ![s][q] = @ + Reposted(s, q)]
      /\ IF left <= 1 /\ now < RxDepth
         THEN /\ pc' = [pc EXCEPT ![s] = "recvRejected"]
              /\ UNCHANGED <<rcnt, pending, sq>>
         ELSE /\ rcnt' = [rcnt EXCEPT ![s] = @ + 1]
              /\ ClearAndMaybeSend(s, q, Recv, scnt[s])
      /\ UNCHANGED scnt
  BY DEF HandleRecv, Handling
<1>2. /\ c \in Completions
      /\ cq' \in [Sides -> Seq(Completions)]
      /\ batch' \in [Sides -> Nat]
      /\ \A t \in Sides : batch'[t] <= Len(cq'[t])
      /\ Unhandled(s, q, Recv)
      /\ \A t \in Sides : \A r, o : Unhandled(t, r, o)'
           <=> Unhandled(t, r, o) /\ ~(t = s /\ r = q /\ o = Recv)
      /\ Unpolled(s, q, Recv) = {}
      /\ QueueAgrees'
  BY <1>1, ConsumeFacts
<1>3. q \in QPs
  BY <1>2 DEF Completions
<1> HIDE DEF c
<1>4. RecvRoom(s, q) = RxDepth - rq[s][q]
  <2>1. Cardinality({}) = 0
    BY FS_EmptySet
  <2>2. rq[s][q] \in Int /\ RxDepth \in Int
    BY <1>3, RxDepthAssumption DEF IInv, TypeOK
  <2> QED
    BY <1>2, <2>1, <2>2 DEF RecvRoom
(* The books before the step: the completion being handled is the only     *)
(* difference between routs and the receives still posted.                 *)
<1>5. /\ routs[s][q] \in 2..RxDepth /\ rq[s][q] = routs[s][q] - 1
      /\ RxDepth \in Nat
  BY <1>2, <1>3, RxDepthAssumption
     DEF IInv, TypeOK, BooksAgree, ReceivesAgree, Landed
<1>6. /\ Reposted(s, q) \in Nat
      /\ now \in 2..RxDepth /\ now = rq[s][q] + Reposted(s, q)
      /\ left <= 1 => now = RxDepth
  <2>1. CASE left > 1
    BY <2>1, <1>5 DEF Reposted
  <2>2. CASE ~(left > 1)
    <3>1. Reposted(s, q) = RxDepth - left
      BY <2>2, <1>4, <1>5 DEF Reposted
    <3> QED
      BY <3>1, <2>2, <1>5, RxDepthAssumption
  <2> QED
    BY <2>1, <2>2
<1> HIDE DEF now, left
<1>7. rcnt' = [rcnt EXCEPT ![s] = @ + 1] /\ ClearAndMaybeSend(s, q, Recv, scnt[s])
  BY <1>1, <1>5, <1>6
<1>8. Recv \in pending[s][q] /\ ~Holds(s, q) /\ Landed(s, q)
  BY <1>1, <1>2, <1>3 DEF IInv, OneBall, Holds, Landed
<1>9. /\ pc' = pc
      /\ pending' \in [Sides -> [QPs -> SUBSET {Recv, Send}]]
      /\ sq' \in [Sides -> [QPs -> {"idle", "wire", "arrived"}]]
      /\ \A t \in Sides, r \in QPs : ~(t = s /\ r = q) =>
           pending'[t][r] = pending[t][r] /\ sq'[t][r] = sq[t][r]
      /\ \/ Kept(s, q, Recv)
         \/ Posted(s, q, Recv) /\ scnt[s] < Iters /\ ~Unhandled(s, q, Send)
  <2>1. scnt[s] \in Nat /\ Recv \in {Recv, Send}
    BY DEF IInv, TypeOK
  <2> QED
    BY <1>1, <1>2, <1>3, <1>7, <1>8, <2>1, ClearFacts
<1>10. \A t \in Sides, r \in QPs : Landed(t, r)' <=> Landed(t, r) /\ ~(t = s /\ r = q)
  BY <1>2 DEF Landed
<1>11. /\ routs' \in [Sides -> [QPs -> 0..RxDepth]] /\ routs'[s][q] = now
       /\ rq' \in [Sides -> [QPs -> 0..RxDepth]] /\ rq'[s][q] = now
       /\ \A t \in Sides, r \in QPs : ~(t = s /\ r = q) =>
            routs'[t][r] = routs[t][r] /\ rq'[t][r] = rq[t][r]
  <2>1. routs' = [routs EXCEPT ![s][q] = now] /\ rq' = [rq EXCEPT ![s][q] = now]
    BY <1>1, <1>6
  <2>2. now \in 0..RxDepth
    BY <1>5, <1>6
  <2> QED
    BY <1>3, <2>1, <2>2 DEF IInv, TypeOK
<1> QED
  BY <1>1, <1>2, <1>3, <1>6, <1>7, <1>8, <1>9, <1>11

LEMMA HandleRecvIInv ==
  ASSUME IInv, NEW s \in Sides, HandleRecv(s) PROVE IInv'
<1>0. PICK q : q = NextCompletion(s).qp
  OBVIOUS
<1>1. /\ q \in QPs /\ pc[s] = "run" /\ pc' = pc
      /\ UNCHANGED scnt /\ rcnt' = [rcnt EXCEPT ![s] = @ + 1]
  BY <1>0, HandleRecvFacts
<1>2. /\ cq' \in [Sides -> Seq(Completions)]
      /\ batch' \in [Sides -> Nat]
      /\ \A t \in Sides : batch'[t] <= Len(cq'[t])
      /\ Unhandled(s, q, Recv)
      /\ \A t \in Sides : \A r, o : Unhandled(t, r, o)'
           <=> Unhandled(t, r, o) /\ ~(t = s /\ r = q /\ o = Recv)
      /\ QueueAgrees'
  BY <1>0, HandleRecvFacts
<1>3. /\ routs' \in [Sides -> [QPs -> 0..RxDepth]]
      /\ rq' \in [Sides -> [QPs -> 0..RxDepth]]
      /\ routs'[s][q] = rq'[s][q] /\ routs'[s][q] >= 2
  BY <1>0, HandleRecvFacts
<1>4. /\ Recv \in pending[s][q]
      /\ pending' \in [Sides -> [QPs -> SUBSET {Recv, Send}]]
      /\ sq' \in [Sides -> [QPs -> {"idle", "wire", "arrived"}]]
      /\ \A t \in Sides, r \in QPs : ~(t = s /\ r = q) =>
           /\ pending'[t][r] = pending[t][r] /\ sq'[t][r] = sq[t][r]
           /\ routs'[t][r] = routs[t][r] /\ rq'[t][r] = rq[t][r]
  BY <1>0, HandleRecvFacts
<1>5. \/ Kept(s, q, Recv)
      \/ Posted(s, q, Recv) /\ scnt[s] < Iters /\ ~Unhandled(s, q, Send)
  BY <1>0, HandleRecvFacts
<1>6. /\ ~Holds(s, q) /\ Landed(s, q)
      /\ \A t \in Sides, r \in QPs : Landed(t, r)' <=> Landed(t, r) /\ ~(t = s /\ r = q)
  BY <1>1, <1>2, <1>4 DEF Holds, Landed
<1>7. TypeOK'
  <2>1. rcnt' \in [Sides -> Nat]
    BY <1>1 DEF IInv, TypeOK
  <2>2. err' = err
    BY DEF HandleRecv
  <2> QED
    BY <2>1, <2>2, <1>1, <1>2, <1>3, <1>4 DEF IInv, TypeOK
<1>8. PostsAccepted'
  BY <1>1 DEF IInv, PostsAccepted
<1>9. OneBall'
  <2>1. \A t \in Sides, r \in QPs : ~(t = s /\ r = q) =>
          (Holds(t, r)' <=> Holds(t, r)) /\ (Flying(t, r)' <=> Flying(t, r))
    BY <1>1, <1>4 DEF Holds, Flying
  <2>2. ~Flying(s, q) /\ ~Flying(Peer(s), q) /\ ~Landed(Peer(s), q) /\ ~Holds(Peer(s), q)
    BY <1>1, <1>6, TwoSides DEF IInv, OneBall
  <2>3. CASE Kept(s, q, Recv)
    <3>1. ~Flying(s, q)' /\ ~Landed(s, q)'
      BY <1>1, <1>6, <2>2, <2>3 DEF Kept, Flying
    <3> QED
      BY <2>1, <2>2, <3>1, <1>1, <1>6, TwoSides DEF IInv, OneBall
  <2>4. CASE Posted(s, q, Recv)
    <3>1. ~Holds(s, q)' /\ ~Landed(s, q)'
      BY <1>1, <1>4, <1>6, <2>4 DEF Posted, Holds
    <3> QED
      BY <2>1, <2>2, <3>1, <1>1, <1>6, TwoSides DEF IInv, OneBall
  <2> QED
    BY <1>5, <2>3, <2>4
<1>10. ReceivesAgree'
  <2> SUFFICES ASSUME NEW t \in Sides, NEW r \in QPs
               PROVE  /\ routs'[t][r] = rq'[t][r] + (IF Landed(t, r)' THEN 1 ELSE 0)
                      /\ routs'[t][r] >= 2
    BY DEF ReceivesAgree
  <2>1. CASE t = s /\ r = q
    BY <2>1, <1>1, <1>3, <1>6
  <2>2. CASE ~(t = s /\ r = q)
    BY <2>2, <1>4, <1>6 DEF IInv, BooksAgree, ReceivesAgree
  <2> QED
    BY <2>1, <2>2
<1>11. SendsAgree'
  <2> SUFFICES ASSUME NEW t \in Sides, NEW r \in QPs
               PROVE  /\ Unhandled(t, r, Send)' => sq'[t][r] = "idle"
                      /\ pc'[t] = "start" => sq'[t][r] = "idle" /\ ~Unhandled(t, r, Send)'
                      /\ pc'[t] = "run" => (Send \in pending'[t][r]
                                             <=> sq'[t][r] # "idle" \/ Unhandled(t, r, Send)')
    BY DEF SendsAgree
  <2>0. Unhandled(t, r, Send)' <=> Unhandled(t, r, Send)
    BY <1>2 DEF Recv, Send
  <2>1. CASE t = s /\ r = q
    <3>1. /\ Unhandled(t, r, Send) => sq[t][r] = "idle"
          /\ Send \in pending[t][r] <=> sq[t][r] # "idle" \/ Unhandled(t, r, Send)
      BY <2>1, <1>1 DEF IInv, BooksAgree, SendsAgree
    <3> QED
      BY <2>0, <2>1, <3>1, <1>1, <1>4, <1>5 DEF Kept, Posted, Recv, Send
  <2>2. CASE ~(t = s /\ r = q)
    BY <2>0, <2>2, <1>1, <1>4 DEF IInv, BooksAgree, SendsAgree
  <2> QED
    BY <2>1, <2>2
<1> QED
  BY <1>2, <1>7, <1>8, <1>9, <1>10, <1>11 DEF IInv, BooksAgree

-----------------------------------------------------------------------------
(* The theorems.                                                           *)

LEMMA StepIInv == IInv /\ [Next]_vars => IInv'
<1> SUFFICES ASSUME IInv, [Next]_vars PROVE IInv'
  OBVIOUS
<1>1. ASSUME NEW s \in Sides, Program(s) PROVE IInv'
  BY <1>1, StartIInv, PollIInv, LeaveIInv, HandleBadStatusIInv, HandleSendIInv,
     HandleRecvIInv DEF Program
<1>2. ASSUME NEW s \in Sides, NEW q \in QPs, Fabric(s, q) PROVE IInv'
  BY <1>2, DeliverIInv, CompleteSendIInv DEF Fabric
<1>3. CASE UNCHANGED vars
  BY <1>3, QuietIInv DEF vars, loopVars, hcaVars, IInv, TypeOK
<1>4. CASE Settled
  BY <1>4, <1>3 DEF Settled
<1> QED
  BY <1>1, <1>2, <1>3, <1>4 DEF Next

THEOREM Invariance == Spec => []IInv
BY InitIInv, StepIInv, PTL DEF Spec

(* Every variable keeps its type: routs_arr and the receive queue of the   *)
(* HCA stay within rx_depth, the batch within the completion queue.        *)
THEOREM TypeCorrect == Spec => []TypeOK
<1>1. IInv => TypeOK
  BY DEF IInv
<1> QED
  BY <1>1, Invariance, PTL

(* No post of the loop is ever refused (lines 776-780 and 795-799 are      *)
(* never reached).                                                         *)
THEOREM NoPostRefused == Spec => []PostsAccepted
<1>1. IInv => PostsAccepted
  BY DEF IInv
<1> QED
  BY <1>1, Invariance, PTL

(* The message of a queue pair is never in two places.                     *)
THEOREM OneMessagePerQP == Spec => []OneBall
<1>1. IInv => OneBall
  BY DEF IInv
<1> QED
  BY <1>1, Invariance, PTL

(* routs_arr and pending_qp mirror the state of the HCA.                   *)
THEOREM BooksMirrorHca == Spec => []BooksAgree
<1>1. IInv => BooksAgree
  BY DEF IInv
<1> QED
  BY <1>1, Invariance, PTL

(* A message on the wire always finds a posted receive.                    *)
THEOREM NeverNotReady == Spec => []ReceiverReady
<1>1. IInv => ReceiverReady
  <2> SUFFICES ASSUME IInv, NEW s \in Sides, NEW q \in QPs, sq[s][q] = "wire"
               PROVE  rq[Peer(s)][q] > 0
    BY DEF ReceiverReady
  <2>1. ~Landed(Peer(s), q)
    BY DEF IInv, OneBall, Flying
  <2> QED
    BY <2>1, TwoSides DEF IInv, TypeOK, BooksAgree, ReceivesAgree
<1> QED
  BY <1>1, Invariance, PTL

-----------------------------------------------------------------------------
(* Counting.                                                               *)

(* There is a completion of operation o on queue pair q with outcome k.    *)
HasWc(Q, q, o, k) == \E i \in 1..Len(Q) : Q[i].qp = q /\ Q[i].op = o /\ Q[i].ok = k

(* The queue pairs on which a message has arrived at side s, a send of     *)
(* side s is complete or has failed, and a send of side s is not yet       *)
(* handled.                                                                *)
Landings(s) == {q \in QPs : Landed(s, q)}
Good(s)     == {q \in QPs : HasWc(cq[s], q, Send, TRUE)}
Broken(s)   == {q \in QPs : HasWc(cq[s], q, Send, FALSE)}
Out(s)      == {q \in QPs : sq[s][q] # "idle" \/ Unhandled(s, q, Send)}

(* The queue pairs on which the server was the last to take in a message.  *)
Turn(q) == Holds("server", q) \/ Flying("server", q) \/ q \in Broken("server") \/ Landed("client", q)
Turns   == {q \in QPs : Turn(q)}

LEMMA AppendWc ==
  ASSUME NEW Q \in Seq(Completions), NEW c \in Completions
  PROVE  \A q, o, k : HasWc(Append(Q, c), q, o, k)
                        <=> HasWc(Q, q, o, k) \/ (c.qp = q /\ c.op = o /\ c.ok = k)
<1> DEFINE A == Append(Q, c)
<1>1. Len(A) = Len(Q) + 1 /\ Len(Q) \in Nat
  OBVIOUS
<1>2. \A i \in 1..Len(Q) : i \in 1..Len(A) /\ A[i] = Q[i]
  OBVIOUS
<1>3. Len(A) \in 1..Len(A) /\ A[Len(A)] = c
  OBVIOUS
<1>4. \A i \in 1..Len(A) : i = Len(A) \/ i \in 1..Len(Q)
  BY <1>1
<1> HIDE DEF A
<1>5. \A q, o, k : HasWc(A, q, o, k)
                     <=> HasWc(Q, q, o, k) \/ (c.qp = q /\ c.op = o /\ c.ok = k)
  BY <1>2, <1>3, <1>4 DEF HasWc
<1> QED
  BY <1>5 DEF A

LEMMA TailWc ==
  ASSUME NEW Q \in Seq(Completions), Q # << >>, Distinct(Q)
  PROVE  /\ HasWc(Q, Head(Q).qp, Head(Q).op, Head(Q).ok)
         /\ \A q, o, k : HasWc(Tail(Q), q, o, k)
                           <=> HasWc(Q, q, o, k) /\ ~(Head(Q).qp = q /\ Head(Q).op = o)
<1> DEFINE T == Tail(Q)
<1>1. Head(Q) = Q[1] /\ Len(T) = Len(Q) - 1 /\ Len(Q) > 0 /\ Len(Q) \in Nat
  OBVIOUS
<1>2. \A i \in 1..Len(T) : i + 1 \in 1..Len(Q) /\ T[i] = Q[i + 1]
  OBVIOUS
<1>3. \A j \in 1..Len(Q) : j = 1 \/ (j - 1 \in 1..Len(T) /\ T[j - 1] = Q[j])
  <2>1. \A j \in 1..Len(Q) : j = 1 \/ (j - 1 \in 1..Len(T) /\ (j - 1) + 1 = j)
    BY <1>1
  <2> QED
    BY <2>1, <1>2
<1>4. 1 \in 1..Len(Q)
  BY <1>1
<1>5. \A i \in 1..Len(T) : i + 1 # 1
  BY <1>1
<1> HIDE DEF T
<1>6. HasWc(Q, Head(Q).qp, Head(Q).op, Head(Q).ok)
  BY <1>1, <1>4 DEF HasWc
<1>7. ASSUME NEW q, NEW o, NEW k, HasWc(T, q, o, k)
      PROVE  HasWc(Q, q, o, k) /\ ~(Head(Q).qp = q /\ Head(Q).op = o)
  <2>1. PICK i \in 1..Len(T) : T[i].qp = q /\ T[i].op = o /\ T[i].ok = k
    BY <1>7 DEF HasWc
  <2>2. i + 1 \in 1..Len(Q) /\ Q[i + 1].qp = q /\ Q[i + 1].op = o /\ Q[i + 1].ok = k /\ i + 1 # 1
    BY <2>1, <1>2, <1>5
  <2> QED
    BY <2>2, <1>1, <1>4 DEF HasWc, Distinct
<1>8. ASSUME NEW q, NEW o, NEW k, HasWc(Q, q, o, k), ~(Head(Q).qp = q /\ Head(Q).op = o)
      PROVE  HasWc(T, q, o, k)
  BY <1>8, <1>1, <1>3 DEF HasWc
<1> QED
  BY <1>6, <1>7, <1>8 DEF T

(* The completions of one operation and outcome, and their queue pairs.    *)
Places(Q, o, k) == {i \in 1..Len(Q) : Q[i].op = o /\ Q[i].ok = k}
Owners(Q, o, k) == {q \in QPs : HasWc(Q, q, o, k)}

(* In a queue without two equal completions, the completions of one kind   *)
(* are as many as the queue pairs they belong to.                          *)
LEMMA CountCqes ==
  ASSUME NEW Q \in Seq(Completions), Distinct(Q), NEW o, NEW k
  PROVE  Cardinality(Places(Q, o, k)) = Cardinality(Owners(Q, o, k))
<1>0. \A i \in 1..Len(Q) : Q[i] \in Completions
  OBVIOUS
<1> DEFINE I == {i \in 1..Len(Q) : Q[i].op = o /\ Q[i].ok = k}
           S == Owners(Q, o, k)
           f == [i \in I |-> Q[i].qp]
<1>1. \A i \in 1..Len(Q) : Q[i].qp \in QPs
  BY <1>0 DEF Completions
<1>2. f \in [I -> S]
  BY <1>1 DEF HasWc, Owners
<1>3. ASSUME NEW i \in I, NEW j \in I, f[i] = f[j] PROVE i = j
  <2>1. i \in 1..Len(Q) /\ j \in 1..Len(Q) /\ Q[i].qp = Q[j].qp /\ Q[i].op = Q[j].op
    BY <1>3
  <2> QED
    BY ONLY <2>1, Distinct(Q) DEF Distinct
<1>4. \A q \in S : \E i \in I : f[i] = q
  BY DEF HasWc, Owners
<1>5. IsFiniteSet(I)
  <2>1. Len(Q) \in Nat
    OBVIOUS
  <2>2. IsFiniteSet(1..Len(Q)) /\ I \in SUBSET (1..Len(Q))
    BY <2>1, FS_Interval
  <2> QED
    BY <2>2, FS_Subset
<1> HIDE DEF I, S, f
<1>6. f \in Bijection(I, S)
  BY <1>2, <1>3, <1>4 DEF Bijection, Injection, Surjection, IsInjective
<1>7. ExistsBijection(I, S)
  BY <1>6 DEF ExistsBijection
<1>8. Cardinality(S) = Cardinality(I)
  BY <1>5, <1>7, FS_Bijection
<1> QED
  BY <1>8 DEF I, S, Places

(* Sets of queue pairs are finite.                                         *)
LEMMA Cards ==
  ASSUME NEW S \in SUBSET QPs
  PROVE  /\ IsFiniteSet(S) /\ Cardinality(S) \in Nat /\ Cardinality(QPs) \in Nat
         /\ Cardinality(S) <= Cardinality(QPs)
         /\ \A x \in QPs \ S : Cardinality(S \cup {x}) = Cardinality(S) + 1
         /\ \A x \in S : Cardinality(S \ {x}) = Cardinality(S) - 1
         /\ \A T \in SUBSET S : Cardinality(T) <= Cardinality(S)
<1>1. IsFiniteSet(S) /\ Cardinality(S) <= Cardinality(QPs)
  BY QPsAssumption, FS_Subset
<1>2. Cardinality(S) \in Nat /\ Cardinality(QPs) \in Nat
  BY <1>1, QPsAssumption, FS_CardinalityType
<1>3. \A x \in QPs \ S : Cardinality(S \cup {x}) = Cardinality(S) + 1
  BY <1>1, FS_AddElement
<1>4. \A x \in S : Cardinality(S \ {x}) = Cardinality(S) - 1
  BY <1>1, FS_RemoveElement
<1>5. \A T \in SUBSET S : Cardinality(T) <= Cardinality(S)
  BY <1>1, FS_Subset
<1> QED
  BY <1>1, <1>2, <1>3, <1>4, <1>5
-----------------------------------------------------------------------------
(* The inductive invariant of the counters.                                *)

(* Every message the sender has counted or will count was taken in, or     *)
(* waits to be, on the other side; the two agree exactly unless an         *)
(* acknowledgement can be lost.                                            *)
SentAgainstTaken ==
  \A s \in Sides :
    LET sent  == scnt[s] + Cardinality(Good(s)) + Cardinality(AckDue(s))
        taken == rcnt[Peer(s)] + Cardinality(Landings(Peer(s)))
    IN  sent <= taken /\ (~AckLoss => sent = taken)

(* A send is posted only below iters, one per queue pair.                  *)
SendsBounded ==
  \A s \in Sides : /\ scnt[s] + Cardinality(Out(s)) <= Iters + Cardinality(QPs) - 1
                   /\ pc[s] = "start" => scnt[s] = 0

(* The server has counted one message more than the client on exactly the  *)
(* queue pairs on which it was the last to take one in.                    *)
TurnsAgree ==
  ~AckLoss =>
    /\ Alive("client") \/ Alive("server") =>
         rcnt["server"] = rcnt["client"] + Cardinality(Turns)
    /\ \A s \in Sides : rcnt[s] - rcnt[Peer(s)] <= Cardinality(QPs)

(* The message of a failed send is nowhere else.                           *)
BrokenAlone ==
  ~AckLoss =>
    \A s \in Sides : \A q \in Broken(s) :
      /\ ~Holds(s, q) /\ ~Flying(s, q) /\ ~Landed(s, q)
      /\ ~Holds(Peer(s), q) /\ ~Flying(Peer(s), q) /\ ~Landed(Peer(s), q)
      /\ q \notin Broken(Peer(s))

(* A side that closed has counted what it wanted; a send fails only on a   *)
(* side whose peer has left.                                               *)
ClosedCounted == \A s \in Sides : pc[s] = "done" => rcnt[s] >= Iters /\ scnt[s] >= Iters
BrokenPeerGone ==
  \A s \in Sides : Broken(s) # {} \/ pc[s] = "badStatus" => ~Alive(Peer(s))

(* Under a patient retry timer, a send that fails after the peer closed    *)
(* finds its own side with everything counted, about to close as well.     *)
CleanClose ==
  ~AckLoss /\ PatientRetry =>
    \A s \in Sides : pc[Peer(s)] = "done" =>
      /\ Broken(s) # {} => batch[s] = 0 /\ ~LoopGoesOn(s)
      /\ pc[s] # "badStatus"

Counts ==
  /\ SentAgainstTaken /\ SendsBounded /\ TurnsAgree /\ BrokenAlone
  /\ ClosedCounted /\ BrokenPeerGone /\ CleanClose
CInv == IInv /\ Counts

-----------------------------------------------------------------------------
(* What steps do to the sets that are counted.                             *)

LEMMA SendCqe ==
  ASSUME IInv, NEW s \in Sides, NEW q \in QPs
  PROVE  /\ Unhandled(s, q, Send) <=> q \in Good(s) \/ q \in Broken(s)
         /\ ~(q \in Good(s) /\ q \in Broken(s))
         /\ Landed(s, q) <=> HasWc(cq[s], q, Recv, TRUE)
<1>1. /\ cq[s] \in Seq(Completions) /\ Distinct(cq[s])
      /\ \A i \in 1..Len(cq[s]) : ~cq[s][i].ok => cq[s][i].op = Send
  BY DEF IInv, TypeOK, BooksAgree, QueueAgrees
<1>2. \A i \in 1..Len(cq[s]) : cq[s][i].ok \in BOOLEAN
  <2>1. \A i \in 1..Len(cq[s]) : cq[s][i] \in Completions
    BY <1>1
  <2> QED
    BY <2>1 DEF Completions
<1>3. Unhandled(s, q, Send) <=> q \in Good(s) \/ q \in Broken(s)
  BY <1>2 DEF Unhandled, HasCqe, HasWc, Good, Broken
<1>4. ~(q \in Good(s) /\ q \in Broken(s))
  BY <1>1 DEF Distinct, HasWc, Good, Broken
<1>5. Landed(s, q) <=> HasWc(cq[s], q, Recv, TRUE)
  BY <1>1, <1>2 DEF Landed, Unhandled, HasCqe, HasWc, Recv, Send
<1> QED
  BY <1>3, <1>4, <1>5

LEMMA ConsumeWc ==
  ASSUME IInv, NEW s \in Sides, Handling(s), Consume(s)
  PROVE  LET c == NextCompletion(s)
         IN  /\ HasWc(cq[s], c.qp, c.op, c.ok)
             /\ \A t \in Sides : \A q, o, k :
                  HasWc(cq'[t], q, o, k)
                    <=> HasWc(cq[t], q, o, k) /\ ~(t = s /\ q = c.qp /\ o = c.op)
<1>1. cq[s] \in Seq(Completions) /\ cq[s] # << >> /\ Distinct(cq[s])
  BY DEF IInv, TypeOK, BooksAgree, QueueAgrees, Handling
<1>2. /\ HasWc(cq[s], Head(cq[s]).qp, Head(cq[s]).op, Head(cq[s]).ok)
      /\ \A q, o, k : HasWc(Tail(cq[s]), q, o, k)
           <=> HasWc(cq[s], q, o, k) /\ ~(Head(cq[s]).qp = q /\ Head(cq[s]).op = o)
  BY <1>1, TailWc
<1>3. cq'[s] = Tail(cq[s]) /\ \A t \in Sides : t # s => cq'[t] = cq[t]
  BY DEF IInv, TypeOK, Consume
<1> QED
  BY <1>2, <1>3 DEF NextCompletion

LEMMA ArriveWc ==
  ASSUME IInv, NEW t \in Sides, NEW c \in Completions,
         cq' = [cq EXCEPT ![t] = Append(@, c)]
  PROVE  \A u \in Sides : \A q, o, k :
           HasWc(cq'[u], q, o, k)
             <=> HasWc(cq[u], q, o, k) \/ (u = t /\ q = c.qp /\ o = c.op /\ k = c.ok)
<1>1. cq[t] \in Seq(Completions)
  BY DEF IInv, TypeOK
<1>2. \A q, o, k : HasWc(Append(cq[t], c), q, o, k)
                     <=> HasWc(cq[t], q, o, k) \/ (c.qp = q /\ c.op = o /\ c.ok = k)
  BY <1>1, AppendWc
<1>3. cq'[t] = Append(cq[t], c) /\ \A u \in Sides : u # t => cq'[u] = cq[u]
  BY DEF IInv, TypeOK
<1> QED
  BY <1>2, <1>3

(* Good and Out are sets of queue pairs with a send in them.               *)
LEMMA SetFacts ==
  ASSUME IInv, NEW s \in Sides
  PROVE  /\ Good(s) \in SUBSET QPs /\ Broken(s) \in SUBSET QPs
         /\ AckDue(s) \in SUBSET QPs /\ Out(s) \in SUBSET QPs
         /\ Landings(s) \in SUBSET QPs /\ Turns \in SUBSET QPs
         /\ scnt[s] \in Nat /\ rcnt[s] \in Nat /\ Iters \in Nat
         /\ Cardinality(Good(s)) + Cardinality(AckDue(s)) <= Cardinality(Out(s))
<1>1. /\ Good(s) \in SUBSET QPs /\ Broken(s) \in SUBSET QPs
      /\ AckDue(s) \in SUBSET QPs /\ Out(s) \in SUBSET QPs
      /\ Landings(s) \in SUBSET QPs /\ Turns \in SUBSET QPs
  BY DEF Good, Broken, AckDue, Out, Landings, Turns
<1>2. Good(s) \cap AckDue(s) = {} /\ Good(s) \cup AckDue(s) \in SUBSET Out(s)
  BY SendCqe DEF IInv, BooksAgree, SendsAgree, Good, AckDue, Out
<1>3. /\ IsFiniteSet(Good(s)) /\ IsFiniteSet(AckDue(s))
      /\ Cardinality(Good(s) \cup AckDue(s)) <= Cardinality(Out(s))
      /\ Cardinality(Good(s)) \in Nat /\ Cardinality(AckDue(s)) \in Nat
  BY <1>1, <1>2, Cards
<1>4. Cardinality(Good(s) \cup AckDue(s)) = Cardinality(Good(s)) + Cardinality(AckDue(s))
  <2>1. Cardinality(Good(s) \cup AckDue(s)) = Cardinality(Good(s)) + Cardinality(AckDue(s))
                                                - Cardinality(Good(s) \cap AckDue(s))
    BY <1>3, FS_Union
  <2>2. Cardinality(Good(s) \cap AckDue(s)) = 0
    BY <1>2, FS_EmptySet
  <2> QED
    BY <2>1, <2>2, <1>3
<1> QED
  BY <1>1, <1>3, <1>4, ItersAssumption DEF IInv, TypeOK

-----------------------------------------------------------------------------
(* What steps do to the place of the messages.                             *)

LEMMA StartMoves ==
  ASSUME IInv, NEW s \in Sides, Start(s), NEW t \in Sides, NEW q \in QPs
  PROVE  /\ Holds(t, q)' <=> Holds(t, q) /\ t # s
         /\ Flying(t, q)' <=> Flying(t, q) \/ (t = s /\ s = "client")
         /\ Landed(t, q)' <=> Landed(t, q)
         /\ Holds(s, q) <=> s = "client"
<1>1. /\ pc[s] = "start" /\ pc'[s] = "run" /\ (t # s => pc'[t] = pc[t])
      /\ cq' = cq /\ (t # s => pending'[t] = pending[t] /\ sq'[t] = sq[t])
  BY DEF Start, IInv, TypeOK
<1>2. \A r \in QPs : /\ Recv \in pending'[s][r]
                     /\ sq[s][r] = "idle"
                     /\ sq'[s][r] = IF s = "client" THEN "wire" ELSE "idle"
  <2>1. \A r \in QPs : sq[s][r] = "idle"
    BY <1>1 DEF IInv, BooksAgree, SendsAgree
  <2>2. CASE s = "client"
    <3>1. /\ pending'[s] = [r \in QPs |-> {Recv, Send}]
          /\ sq'[s] = [r \in QPs |-> "wire"]
      BY <2>2 DEF Start, IInv, TypeOK
    <3> QED
      BY <2>1, <2>2, <3>1
  <2>3. CASE s # "client"
    <3>1. pending'[s] = [r \in QPs |-> {Recv}] /\ sq' = sq
      BY <2>3 DEF Start, IInv, TypeOK
    <3> QED
      BY <2>1, <2>3, <3>1
  <2> QED
    BY <2>2, <2>3
<1> QED
  BY <1>1, <1>2 DEF Holds, Flying, Landed, Unhandled

LEMMA DeliverMoves ==
  ASSUME IInv, NEW s \in Sides, NEW q \in QPs, Deliver(s, q)
  PROVE  LET p == Peer(s)
         IN  /\ Flying(s, q) /\ ~Flying(p, q) /\ ~Landed(p, q) /\ ~Landed(s, q)
             /\ ~Holds(s, q) /\ ~Holds(p, q)
             /\ \A t \in Sides, r \in QPs :
                  /\ Holds(t, r)' <=> Holds(t, r)
                  /\ Flying(t, r)' <=> Flying(t, r) /\ ~(t = s /\ r = q)
                  /\ Landed(t, r)' <=> Landed(t, r) \/ (t = p /\ r = q)
                  /\ Unhandled(t, r, Send)' <=> Unhandled(t, r, Send)
<1> DEFINE p == Peer(s)
           c == Wc(q, Recv, TRUE)
<1>1. p \in Sides /\ c \in Completions /\ c.qp = q /\ c.op = Recv /\ c.ok
  BY TwoSides DEF Wc, Completions
<1>2. /\ sq[s][q] = "wire"
      /\ cq' = [cq EXCEPT ![p] = Append(@, c)]
      /\ \A t \in Sides, r \in QPs :
           sq'[t][r] = IF t = s /\ r = q THEN "arrived" ELSE sq[t][r]
      /\ UNCHANGED <<pc, pending, batch>>
  BY DEF Deliver, loopVars, IInv, TypeOK
<1> HIDE DEF c
<1>3. Flying(s, q) /\ ~Landed(p, q) /\ ~Landed(s, q) /\ ~Flying(p, q)
      /\ ~Holds(s, q) /\ ~Holds(p, q)
  BY <1>1, <1>2, TwoSides DEF IInv, OneBall, Flying
<1>4. \A t \in Sides : \A r, o : Unhandled(t, r, o)'
        <=> Unhandled(t, r, o) \/ (t = p /\ r = c.qp /\ o = c.op)
  <2>1. ~Unhandled(p, c.qp, c.op)
    BY <1>1, <1>3 DEF Landed
  <2> QED
    BY <1>1, <1>2, <2>1, AppendFacts
<1>5. \A t \in Sides, r \in QPs :
        /\ Unhandled(t, r, Send)' <=> Unhandled(t, r, Send)
        /\ Landed(t, r)' <=> Landed(t, r) \/ (t = p /\ r = q)
  BY <1>1, <1>4 DEF Landed, Recv, Send
<1>6. \A t \in Sides, r \in QPs :
        /\ Holds(t, r)' <=> Holds(t, r)
        /\ Flying(t, r)' <=> Flying(t, r) /\ ~(t = s /\ r = q)
  BY <1>2 DEF Holds, Flying
<1> QED
  BY <1>3, <1>5, <1>6

LEMMA CompleteSendMoves ==
  ASSUME IInv, NEW s \in Sides, NEW q \in QPs,
         Acknowledge(s, q) \/ RetryExceeded(s, q)
  PROVE  /\ ~Unhandled(s, q, Send)
         /\ \A t \in Sides, r \in QPs :
              /\ Holds(t, r)' <=> Holds(t, r)
              /\ Flying(t, r)' <=> Flying(t, r) /\ ~(t = s /\ r = q)
              /\ Landed(t, r)' <=> Landed(t, r)
              /\ Unhandled(t, r, Send)' <=> Unhandled(t, r, Send) \/ (t = s /\ r = q)
<1>1. PICK k \in BOOLEAN : /\ cq' = [cq EXCEPT ![s] = Append(@, Wc(q, Send, k))]
                           /\ sq' = [sq EXCEPT ![s][q] = "idle"]
                           /\ UNCHANGED <<pc, loopVars, batch, rq>>
                           /\ sq[s][q] # "idle"
  BY DEF Acknowledge, RetryExceeded
<1> DEFINE c == Wc(q, Send, k)
<1>2. /\ c \in Completions /\ c.qp = q /\ c.op = Send
      /\ cq' = [cq EXCEPT ![s] = Append(@, c)] /\ batch' = batch
  BY <1>1 DEF Wc, Completions
<1> HIDE DEF c
<1>3. ~Unhandled(s, q, Send)
  BY <1>1 DEF IInv, BooksAgree, SendsAgree
<1>4. \A t \in Sides : \A r, o : Unhandled(t, r, o)'
        <=> Unhandled(t, r, o) \/ (t = s /\ r = c.qp /\ o = c.op)
  BY <1>2, <1>3, AppendFacts
<1>5. \A t \in Sides, r \in QPs :
        /\ Unhandled(t, r, Send)' <=> Unhandled(t, r, Send) \/ (t = s /\ r = q)
        /\ Landed(t, r)' <=> Landed(t, r)
  BY <1>2, <1>4 DEF Landed, Recv, Send
<1>6. \A t \in Sides, r \in QPs :
        /\ Holds(t, r)' <=> Holds(t, r)
        /\ Flying(t, r)' <=> Flying(t, r) /\ ~(t = s /\ r = q)
  BY <1>1 DEF loopVars, IInv, TypeOK, Holds, Flying
<1> QED
  BY <1>3, <1>5, <1>6

LEMMA HandleBadStatusMoves ==
  ASSUME IInv, NEW s \in Sides, HandleBadStatus(s)
  PROVE  \A t \in Sides, r \in QPs : /\ Holds(t, r)' <=> Holds(t, r)
                                     /\ Flying(t, r)' <=> Flying(t, r)
                                     /\ Landed(t, r)' <=> Landed(t, r)
<1> DEFINE c == NextCompletion(s)
<1>1. /\ Handling(s) /\ Consume(s) /\ ~c.ok
      /\ pc[s] = "run" /\ pc'[s] = "badStatus" /\ \A t \in Sides : t # s => pc'[t] = pc[t]
      /\ UNCHANGED <<pending, sq>>
  BY DEF HandleBadStatus, Handling, loopVars, IInv, TypeOK
<1>2. /\ c.op = Send
      /\ \A t \in Sides : \A r, o : Unhandled(t, r, o)'
           <=> Unhandled(t, r, o) /\ ~(t = s /\ r = c.qp /\ o = c.op)
  BY <1>1, ConsumeFacts
<1> HIDE DEF c
<1> QED
  BY <1>1, <1>2 DEF Landed, Holds, Flying, Recv, Send

(* A handled send leaves the message where it is, or sends it off.         *)
LEMMA HandleSendMoves ==
  ASSUME IInv, NEW s \in Sides, HandleSend(s), NEW q, q = NextCompletion(s).qp
  PROVE  /\ \A t \in Sides, r \in QPs :
              /\ Landed(t, r)' <=> Landed(t, r)
              /\ ~(t = s /\ r = q) => /\ Holds(t, r)' <=> Holds(t, r)
                                      /\ Flying(t, r)' <=> Flying(t, r)
         /\ \/ /\ Holds(s, q)' <=> Holds(s, q)
               /\ ~Flying(s, q)' /\ ~Flying(s, q)
               /\ Kept(s, q, Send)
            \/ /\ Holds(s, q) /\ ~Holds(s, q)' /\ Flying(s, q)'
               /\ Posted(s, q, Send) /\ scnt[s] + 1 < Iters
<1>1. /\ q \in QPs /\ pc[s] = "run" /\ pc' = pc /\ Unhandled(s, q, Send)
      /\ \A t \in Sides : \A r, o : Unhandled(t, r, o)'
           <=> Unhandled(t, r, o) /\ ~(t = s /\ r = q /\ o = Send)
      /\ \A t \in Sides, r \in QPs : ~(t = s /\ r = q) =>
           pending'[t][r] = pending[t][r] /\ sq'[t][r] = sq[t][r]
      /\ Kept(s, q, Send) \/ (Posted(s, q, Send) /\ scnt[s] + 1 < Iters)
  BY HandleSendFacts
<1>2. \A t \in Sides, r \in QPs :
        /\ Landed(t, r)' <=> Landed(t, r)
        /\ ~(t = s /\ r = q) => /\ Holds(t, r)' <=> Holds(t, r)
                                /\ Flying(t, r)' <=> Flying(t, r)
  BY <1>1 DEF Landed, Holds, Flying, Recv, Send
<1>3. CASE Kept(s, q, Send)
  <2>1. sq[s][q] = "idle"
    BY <1>1 DEF IInv, BooksAgree, SendsAgree
  <2>2. (Holds(s, q)' <=> Holds(s, q)) /\ ~Flying(s, q)' /\ ~Flying(s, q)
    BY <1>1, <1>3, <2>1 DEF Kept, Holds, Flying, Recv, Send
  <2> QED
    BY <1>2, <1>3, <2>2
<1>4. CASE Posted(s, q, Send) /\ scnt[s] + 1 < Iters
  <2>1. Holds(s, q) /\ ~Holds(s, q)' /\ Flying(s, q)'
    BY <1>1, <1>4 DEF Posted, Holds, Flying, Recv, Send
  <2> QED
    BY <1>2, <1>4, <2>1
<1> QED
  BY <1>1, <1>3, <1>4

(* A handled message is kept by the side it arrived at, or sent back.      *)
LEMMA HandleRecvMoves ==
  ASSUME IInv, NEW s \in Sides, HandleRecv(s), NEW q, q = NextCompletion(s).qp
  PROVE  LET p == Peer(s)
         IN  /\ Landed(s, q) /\ ~Landed(p, q) /\ ~Holds(s, q) /\ ~Holds(p, q)
             /\ ~Flying(s, q) /\ ~Flying(p, q)
             /\ \A t \in Sides, r \in QPs :
                  /\ Landed(t, r)' <=> Landed(t, r) /\ ~(t = s /\ r = q)
                  /\ Unhandled(t, r, Send)' <=> Unhandled(t, r, Send)
                  /\ ~(t = s /\ r = q) => /\ Holds(t, r)' <=> Holds(t, r)
                                          /\ Flying(t, r)' <=> Flying(t, r)
             /\ \/ Holds(s, q)' /\ ~Flying(s, q)' /\ Kept(s, q, Recv)
                \/ /\ ~Holds(s, q)' /\ Flying(s, q)'
                   /\ Posted(s, q, Recv) /\ scnt[s] < Iters /\ ~Unhandled(s, q, Send)
<1> DEFINE p == Peer(s)
<1>1. /\ q \in QPs /\ pc[s] = "run" /\ pc' = pc
      /\ Unhandled(s, q, Recv) /\ Recv \in pending[s][q]
      /\ \A t \in Sides : \A r, o : Unhandled(t, r, o)'
           <=> Unhandled(t, r, o) /\ ~(t = s /\ r = q /\ o = Recv)
      /\ \A t \in Sides, r \in QPs : ~(t = s /\ r = q) =>
           /\ pending'[t][r] = pending[t][r] /\ sq'[t][r] = sq[t][r]
           /\ routs'[t][r] = routs[t][r] /\ rq'[t][r] = rq[t][r]
      /\ \/ Kept(s, q, Recv)
         \/ Posted(s, q, Recv) /\ scnt[s] < Iters /\ ~Unhandled(s, q, Send)
  BY HandleRecvFacts
<1>2. Landed(s, q) /\ ~Holds(s, q)
  BY <1>1 DEF Landed, Holds
<1>3. ~Landed(p, q) /\ ~Holds(p, q) /\ ~Flying(s, q) /\ ~Flying(p, q)
  BY <1>1, <1>2, TwoSides DEF IInv, OneBall
<1>4. \A t \in Sides, r \in QPs :
        /\ Landed(t, r)' <=> Landed(t, r) /\ ~(t = s /\ r = q)
        /\ Unhandled(t, r, Send)' <=> Unhandled(t, r, Send)
        /\ ~(t = s /\ r = q) => /\ Holds(t, r)' <=> Holds(t, r)
                                /\ Flying(t, r)' <=> Flying(t, r)
  BY <1>1 DEF Landed, Holds, Flying, Recv, Send
<1>5. CASE Kept(s, q, Recv)
  <2>1. Holds(s, q)' /\ ~Flying(s, q)'
    BY <1>1, <1>3, <1>5 DEF Kept, Holds, Flying
  <2> QED
    BY <1>2, <1>3, <1>4, <1>5, <2>1
<1>6. CASE Posted(s, q, Recv) /\ scnt[s] < Iters /\ ~Unhandled(s, q, Send)
  <2>1. ~Holds(s, q)' /\ Flying(s, q)'
    BY <1>1, <1>6 DEF Posted, Holds, Flying
  <2> QED
    BY <1>2, <1>3, <1>4, <1>6, <2>1
<1> QED
  BY <1>1, <1>5, <1>6

-----------------------------------------------------------------------------
(* One lemma per action.                                                   *)

LEMMA InitCounts == Init => Counts
<1> SUFFICES ASSUME Init PROVE Counts
  OBVIOUS
<1> USE DEF Init
<1>1. \A s \in Sides : Good(s) = {} /\ Broken(s) = {} /\ AckDue(s) = {} /\ Out(s) = {}
                       /\ Landings(s) = {}
  BY DEF Good, Broken, AckDue, Out, Landings, Landed, Unhandled, HasCqe, HasWc
<1>2. Turns = {}
  BY <1>1, TwoSides DEF Turns, Turn, Holds, Flying, Landed, Unhandled, HasCqe
<1>3. /\ Cardinality(Turns) = 0
      /\ \A s \in Sides : /\ Cardinality(Good(s)) = 0 /\ Cardinality(AckDue(s)) = 0
                         /\ Cardinality(Out(s)) = 0 /\ Cardinality(Landings(s)) = 0
                         /\ scnt[s] = 0 /\ rcnt[s] = 0
  <2>1. Cardinality({}) = 0
    BY FS_EmptySet
  <2>2. Cardinality(Turns) = 0
    BY <1>2, <2>1
  <2>3. ASSUME NEW s \in Sides
        PROVE  /\ Cardinality(Good(s)) = 0 /\ Cardinality(AckDue(s)) = 0
               /\ Cardinality(Out(s)) = 0 /\ Cardinality(Landings(s)) = 0
    BY <1>1, <2>1
  <2> QED
    BY <2>2, <2>3
<1>4. Cardinality(QPs) \in Nat /\ Cardinality(QPs) # 0
  BY QPsAssumption, FS_CardinalityType, FS_EmptySet
<1>5. Iters \in Nat /\ Iters # 0
  BY ItersAssumption
<1>6. SentAgainstTaken
  BY <1>3, TwoSides DEF SentAgainstTaken
<1>7. SendsBounded
  BY <1>3, <1>4, <1>5 DEF SendsBounded
<1>8. TurnsAgree
  BY <1>3, <1>4, TwoSides DEF TurnsAgree
<1>9. BrokenAlone /\ ClosedCounted /\ BrokenPeerGone /\ CleanClose
  BY <1>1, TwoSides DEF BrokenAlone, ClosedCounted, BrokenPeerGone, CleanClose
<1> QED
  BY <1>6, <1>7, <1>8, <1>9 DEF Counts

(* A step that changes neither the queues nor the counters, and pc from    *)
(* "run" to a regular exit at most, keeps what does not speak of exits.    *)
LEMMA QuietCounts ==
  ASSUME IInv, Counts, UNCHANGED <<loopVars, hcaVars>>,
         \A t \in Sides : pc'[t] = pc[t] \/ (pc[t] = "run" /\ pc'[t] \in {"done", "pollFailed"})
  PROVE  /\ SentAgainstTaken' /\ SendsBounded' /\ TurnsAgree' /\ BrokenAlone' /\ BrokenPeerGone'
         /\ \A t \in Sides : Broken(t)' = Broken(t)
<1> USE DEF loopVars, hcaVars
<1>1. \A t \in Sides : /\ Good(t)' = Good(t) /\ Broken(t)' = Broken(t)
                       /\ AckDue(t)' = AckDue(t) /\ Out(t)' = Out(t)
                       /\ Landings(t)' = Landings(t)
                       /\ \A q \in QPs : /\ Holds(t, q)' <=> Holds(t, q)
                                         /\ Flying(t, q)' <=> Flying(t, q)
                                         /\ Landed(t, q)' <=> Landed(t, q)
  BY DEF Good, Broken, AckDue, Out, Landings, Holds, Flying, Landed, Unhandled
<1>2. Turns' = Turns
  BY <1>1, TwoSides DEF Turns, Turn
<1>3. SentAgainstTaken'
  BY <1>1, TwoSides DEF Counts, SentAgainstTaken
<1>4. SendsBounded'
  BY <1>1 DEF Counts, SendsBounded
<1>5. TurnsAgree'
  <2>1. \A t \in Sides : Alive(t)' => Alive(t)
    BY DEF Alive
  <2> QED
    BY <1>2, <2>1, TwoSides DEF Counts, TurnsAgree
<1>6. BrokenAlone'
  <2> SUFFICES ASSUME ~AckLoss, NEW t \in Sides, NEW q \in Broken(t)
               PROVE  /\ ~Holds(t, q)' /\ ~Flying(t, q)' /\ ~Landed(t, q)'
                      /\ ~Holds(Peer(t), q)' /\ ~Flying(Peer(t), q)' /\ ~Landed(Peer(t), q)'
                      /\ q \notin Broken(Peer(t))'
    BY <1>1 DEF BrokenAlone
  <2>1. q \in QPs
    BY DEF Broken
  <2> QED
    BY <1>1, <2>1, TwoSides DEF Counts, BrokenAlone
<1>7. BrokenPeerGone'
  BY <1>1, TwoSides DEF Counts, BrokenPeerGone, Alive
<1> QED
  BY <1>1, <1>3, <1>4, <1>5, <1>6, <1>7

LEMMA StutterCounts == CInv /\ UNCHANGED vars => Counts'
<1> SUFFICES ASSUME CInv, UNCHANGED vars PROVE Counts'
  OBVIOUS
<1>1. UNCHANGED <<loopVars, hcaVars>> /\ UNCHANGED <<pc, batch, rcnt, scnt>>
  BY DEF vars, loopVars
<1>2. /\ SentAgainstTaken' /\ SendsBounded' /\ TurnsAgree' /\ BrokenAlone' /\ BrokenPeerGone'
      /\ \A t \in Sides : Broken(t)' = Broken(t)
  BY <1>1, QuietCounts DEF CInv
<1>3. ClosedCounted' /\ CleanClose'
  BY <1>1, <1>2 DEF CInv, Counts, ClosedCounted, CleanClose, LoopGoesOn
<1> QED
  BY <1>2, <1>3 DEF Counts

LEMMA PollCounts == ASSUME CInv, NEW s \in Sides, Poll(s) PROVE Counts'
<1>1. /\ UNCHANGED <<loopVars, hcaVars>> /\ UNCHANGED <<pc, rcnt, scnt>>
      /\ LoopGoesOn(s) /\ \A t \in Sides : t # s => batch'[t] = batch[t]
  BY DEF Poll, loopVars, CInv, IInv, TypeOK
<1>2. /\ SentAgainstTaken' /\ SendsBounded' /\ TurnsAgree' /\ BrokenAlone' /\ BrokenPeerGone'
      /\ \A t \in Sides : Broken(t)' = Broken(t)
  BY <1>1, QuietCounts DEF CInv
<1>3. ClosedCounted'
  BY <1>1 DEF CInv, Counts, ClosedCounted
<1>4. CleanClose'
  BY <1>1, <1>2 DEF CInv, Counts, CleanClose, LoopGoesOn
<1> QED
  BY <1>2, <1>3, <1>4 DEF Counts

LEMMA LeaveCounts ==
  ASSUME CInv, NEW s \in Sides, PollFails(s) \/ Close(s) PROVE Counts'
<1>1. /\ UNCHANGED <<loopVars, hcaVars>> /\ UNCHANGED <<batch, rcnt, scnt>> /\ pc[s] = "run"
      /\ pc'[s] \in {"done", "pollFailed"} /\ (pc'[s] = "done" => ~LoopGoesOn(s))
      /\ \A t \in Sides : t # s => pc'[t] = pc[t]
  BY DEF PollFails, Close, loopVars, CInv, IInv, TypeOK
<1>2. /\ SentAgainstTaken' /\ SendsBounded' /\ TurnsAgree' /\ BrokenAlone' /\ BrokenPeerGone'
      /\ \A t \in Sides : Broken(t)' = Broken(t)
  BY <1>1, QuietCounts DEF CInv
<1>3. ClosedCounted'
  <2>1. rcnt[s] \in Nat /\ scnt[s] \in Nat /\ Iters \in Nat
    BY SetFacts DEF CInv
  <2> QED
    BY <1>1, <2>1 DEF CInv, Counts, ClosedCounted, LoopGoesOn
<1>4. CleanClose'
  <2> SUFFICES ASSUME ~AckLoss, PatientRetry, NEW t \in Sides, pc'[Peer(t)] = "done"
               PROVE  /\ Broken(t) # {} => batch[t] = 0 /\ ~LoopGoesOn(t)
                      /\ pc'[t] # "badStatus"
    BY <1>1, <1>2 DEF CleanClose, LoopGoesOn
  <2>1. CASE Peer(t) = s
    <3>1. Alive(Peer(t))
      BY <1>1, <2>1 DEF Alive
    <3> QED
      BY <1>1, <2>1, <3>1, TwoSides DEF CInv, Counts, BrokenPeerGone
  <2>2. CASE Peer(t) # s
    BY <1>1, <2>2, TwoSides DEF CInv, Counts, CleanClose
  <2> QED
    BY <2>1, <2>2
<1> QED
  BY <1>2, <1>3, <1>4 DEF Counts

LEMMA StartCounts == ASSUME CInv, NEW s \in Sides, Start(s) PROVE Counts'
<1>1. /\ pc[s] = "start" /\ pc'[s] = "run" /\ \A t \in Sides : t # s => pc'[t] = pc[t]
      /\ UNCHANGED <<routs, rcnt, scnt, cq, batch, rq>>
      /\ \A t \in Sides : t # s => pending'[t] = pending[t] /\ sq'[t] = sq[t]
  BY DEF Start, CInv, IInv, TypeOK
<1>2. \A q \in QPs : /\ Recv \in pending'[s][q]
                     /\ sq[s][q] = "idle"
                     /\ sq'[s][q] = IF s = "client" THEN "wire" ELSE "idle"
  BY <1>1 DEF Start, CInv, IInv, TypeOK, BooksAgree, SendsAgree
<1>3. \A t \in Sides : Alive(t)' <=> Alive(t)
  BY <1>1 DEF Alive
<1>4. \A t \in Sides : /\ Good(t)' = Good(t) /\ Broken(t)' = Broken(t)
                       /\ Landings(t)' = Landings(t)
                       /\ \A q \in QPs : Landed(t, q)' <=> Landed(t, q)
  BY <1>1 DEF Good, Broken, Landings, Landed, Unhandled
<1>5. \A t \in Sides : AckDue(t)' = AckDue(t) /\ (t # s => Out(t)' = Out(t))
  BY <1>1, <1>2 DEF AckDue, Out, Unhandled
<1>6. \A t \in Sides, q \in QPs :
        /\ Holds(t, q)' <=> Holds(t, q) /\ t # s
        /\ Flying(t, q)' <=> Flying(t, q) \/ (t = s /\ s = "client")
        /\ Holds(s, q) <=> s = "client"
  BY StartMoves DEF CInv
<1>7. SentAgainstTaken'
  BY <1>1, <1>4, <1>5, TwoSides DEF CInv, Counts, SentAgainstTaken
<1>8. SendsBounded'
  <2> SUFFICES ASSUME NEW t \in Sides
               PROVE  /\ scnt[t] + Cardinality(Out(t)') <= Iters + Cardinality(QPs) - 1
                      /\ pc'[t] = "start" => scnt[t] = 0
    BY <1>1 DEF SendsBounded
  <2>1. CASE t = s
    <3>1. Out(t)' \in SUBSET QPs
      BY DEF Out
    <3>2. Cardinality(Out(t)') <= Cardinality(QPs) /\ Cardinality(Out(t)') \in Nat
          /\ Cardinality(QPs) \in Nat
      BY <3>1, Cards
    <3>3. scnt[t] = 0
      BY <1>1, <2>1 DEF CInv, Counts, SendsBounded
    <3>4. Iters \in Nat /\ Iters >= 1
      BY ItersAssumption
    <3> QED
      BY <1>1, <2>1, <3>2, <3>3, <3>4
  <2>2. CASE t # s
    BY <1>1, <1>5, <2>2 DEF CInv, Counts, SendsBounded
  <2> QED
    BY <2>1, <2>2
<1>9. TurnsAgree'
  <2>1. Turns' = Turns
    BY <1>4, <1>6, TwoSides DEF Turns, Turn
  <2> QED
    BY <1>1, <1>3, <2>1, TwoSides DEF CInv, Counts, TurnsAgree
<1>10. BrokenAlone'
  <2> SUFFICES ASSUME ~AckLoss, NEW t \in Sides, NEW q \in Broken(t)
               PROVE  /\ ~Holds(t, q)' /\ ~Flying(t, q)' /\ ~Landed(t, q)'
                      /\ ~Holds(Peer(t), q)' /\ ~Flying(Peer(t), q)' /\ ~Landed(Peer(t), q)'
                      /\ q \notin Broken(Peer(t))'
    BY <1>4 DEF BrokenAlone
  <2>1. /\ ~Holds(t, q) /\ ~Flying(t, q) /\ ~Landed(t, q)
        /\ ~Holds(Peer(t), q) /\ ~Flying(Peer(t), q) /\ ~Landed(Peer(t), q)
        /\ q \notin Broken(Peer(t))
    BY DEF CInv, Counts, BrokenAlone
  <2>2. q \in QPs
    BY DEF Broken
  <2> QED
    BY <1>4, <1>6, <2>1, <2>2, TwoSides
<1>11. ClosedCounted' /\ BrokenPeerGone' /\ CleanClose'
  BY <1>1, <1>3, <1>4, TwoSides
     DEF CInv, Counts, ClosedCounted, BrokenPeerGone, CleanClose, LoopGoesOn
<1> QED
  BY <1>7, <1>8, <1>9, <1>10, <1>11 DEF Counts

LEMMA DeliverCounts ==
  ASSUME CInv, NEW s \in Sides, NEW q \in QPs, Deliver(s, q) PROVE Counts'
<1> DEFINE p == Peer(s)
           c == Wc(q, Recv, TRUE)
<1>1. /\ p \in Sides /\ p # s /\ Peer(p) = s /\ \A t \in Sides : t = s \/ t = p
      /\ c \in Completions /\ c.qp = q /\ c.op = Recv /\ c.ok = TRUE
  BY TwoSides DEF Wc, Completions
<1>2. /\ sq[s][q] = "wire"
      /\ cq' = [cq EXCEPT ![p] = Append(@, c)]
      /\ \A t \in Sides, r \in QPs :
           sq'[t][r] = IF t = s /\ r = q THEN "arrived" ELSE sq[t][r]
      /\ UNCHANGED <<pc, pending, rcnt, scnt, batch>>
  BY DEF Deliver, loopVars, CInv, IInv, TypeOK
<1> HIDE DEF p, c
<1>3. \A t \in Sides : \A r, o, k :
        HasWc(cq'[t], r, o, k)
          <=> HasWc(cq[t], r, o, k) \/ (t = p /\ r = q /\ o = Recv /\ k = TRUE)
  <2>0. IInv /\ p \in Sides /\ c \in Completions /\ cq' = [cq EXCEPT ![p] = Append(@, c)]
    BY <1>1, <1>2 DEF CInv
  <2>1. \A t \in Sides : \A r, o, k :
          HasWc(cq'[t], r, o, k)
            <=> HasWc(cq[t], r, o, k) \/ (t = p /\ r = c.qp /\ o = c.op /\ k = c.ok)
    BY <2>0, ArriveWc
  <2> QED
    BY <1>1, <2>1
<1>4. IInv
  BY DEF CInv
<1>5. Flying(s, q) /\ ~Landed(p, q) /\ ~Landed(s, q) /\ ~Flying(p, q)
      /\ ~Holds(s, q) /\ ~Holds(p, q)
  BY <1>4, DeliverMoves DEF p
<1>6. \A t \in Sides, r \in QPs :
        /\ Unhandled(t, r, Send)' <=> Unhandled(t, r, Send)
        /\ Landed(t, r)' <=> Landed(t, r) \/ (t = p /\ r = q)
  BY <1>4, DeliverMoves DEF p
<1>7. \A t \in Sides, r \in QPs :
        /\ Holds(t, r)' <=> Holds(t, r)
        /\ Flying(t, r)' <=> Flying(t, r) /\ ~(t = s /\ r = q)
  BY <1>4, DeliverMoves DEF p
<1>8. \A t \in Sides : /\ Good(t)' = Good(t) /\ Broken(t)' = Broken(t)
                       /\ AckDue(t)' = (IF t = s THEN AckDue(t) \cup {q} ELSE AckDue(t))
                       /\ Landings(t)' = (IF t = p THEN Landings(t) \cup {q} ELSE Landings(t))
                       /\ Out(t)' = Out(t)
  <2>1. \A t \in Sides : Good(t)' = Good(t) /\ Broken(t)' = Broken(t)
    <3>1. \A t \in Sides : \A r, k : HasWc(cq'[t], r, Send, k) <=> HasWc(cq[t], r, Send, k)
      BY <1>3 DEF Recv, Send
    <3> QED
      BY <3>1 DEF Good, Broken
  <2>2. \A t \in Sides : AckDue(t)' = (IF t = s THEN AckDue(t) \cup {q} ELSE AckDue(t))
    BY <1>2 DEF AckDue
  <2>3. \A t \in Sides : Landings(t)' = (IF t = p THEN Landings(t) \cup {q} ELSE Landings(t))
    BY <1>6 DEF Landings
  <2>4. \A t \in Sides : Out(t)' = Out(t)
    BY <1>2, <1>6 DEF Out
  <2> QED
    BY <2>1, <2>2, <2>3, <2>4
<1>9. q \in QPs \ AckDue(s) /\ q \in QPs \ Landings(p)
  BY <1>2, <1>5 DEF AckDue, Landings
<1>10. SentAgainstTaken'
  <2>1. /\ Cardinality(AckDue(s)') = Cardinality(AckDue(s)) + 1
        /\ Cardinality(Landings(p)') = Cardinality(Landings(p)) + 1
    <3>1. AckDue(s) \in SUBSET QPs /\ Landings(p) \in SUBSET QPs
      BY <1>1, <1>4, SetFacts
    <3> QED
      BY <1>1, <1>8, <1>9, <3>1, Cards
  <2>2. \A t \in Sides : /\ Cardinality(Good(t)) \in Nat /\ Cardinality(AckDue(t)) \in Nat
                         /\ Cardinality(Landings(t)) \in Nat
                         /\ scnt[t] \in Nat /\ rcnt[t] \in Nat
    BY <1>4, SetFacts, Cards
  <2> SUFFICES ASSUME NEW t \in Sides
               PROVE  LET sent  == scnt[t] + Cardinality(Good(t)') + Cardinality(AckDue(t)')
                          taken == rcnt[Peer(t)] + Cardinality(Landings(Peer(t))')
                      IN  sent <= taken /\ (~AckLoss => sent = taken)
    BY <1>2 DEF SentAgainstTaken
  <2>3. LET sent  == scnt[t] + Cardinality(Good(t)) + Cardinality(AckDue(t))
            taken == rcnt[Peer(t)] + Cardinality(Landings(Peer(t)))
        IN  sent <= taken /\ (~AckLoss => sent = taken)
    BY DEF CInv, Counts, SentAgainstTaken
  <2>4. CASE t = s
    BY <1>1, <1>8, <2>1, <2>2, <2>3, <2>4 DEF p
  <2>5. CASE t = p
    BY <1>1, <1>8, <2>1, <2>2, <2>3, <2>5
  <2> QED
    BY <1>1, <2>4, <2>5
<1>11. SendsBounded'
  BY <1>2, <1>8 DEF CInv, Counts, SendsBounded
<1>12. TurnsAgree'
  <2>1. ASSUME ~AckLoss PROVE Turns' = Turns
    <3>1. q \notin Broken("server")
      BY <1>1, <1>5, <2>1, TwoSides DEF CInv, Counts, BrokenAlone
    <3>2. \A r \in QPs : r # q => (Turn(r)' <=> Turn(r))
      BY <1>6, <1>7, <1>8, TwoSides DEF Turn
    <3>3. Turn(q)' <=> Turn(q)
      BY <1>1, <1>5, <1>6, <1>7, <1>8, <3>1, TwoSides DEF Turn
    <3> QED
      BY <3>2, <3>3 DEF Turns
  <2>2. \A t \in Sides : Alive(t)' <=> Alive(t)
    BY <1>2 DEF Alive
  <2> QED
    BY <1>2, <2>1, <2>2, TwoSides DEF CInv, Counts, TurnsAgree
<1>13. BrokenAlone'
  <2> SUFFICES ASSUME ~AckLoss, NEW t \in Sides, NEW r \in Broken(t)
               PROVE  /\ ~Holds(t, r)' /\ ~Flying(t, r)' /\ ~Landed(t, r)'
                      /\ ~Holds(Peer(t), r)' /\ ~Flying(Peer(t), r)' /\ ~Landed(Peer(t), r)'
                      /\ r \notin Broken(Peer(t))'
    BY <1>8 DEF BrokenAlone
  <2>1. /\ ~Holds(t, r) /\ ~Flying(t, r) /\ ~Landed(t, r)
        /\ ~Holds(Peer(t), r) /\ ~Flying(Peer(t), r) /\ ~Landed(Peer(t), r)
        /\ r \notin Broken(Peer(t))
    BY DEF CInv, Counts, BrokenAlone
  <2>2. r \in QPs /\ r # q
    BY <1>1, <1>5, <2>1, TwoSides DEF Broken
  <2> QED
    BY <1>6, <1>7, <1>8, <2>1, <2>2, TwoSides
<1>14. ClosedCounted' /\ BrokenPeerGone' /\ CleanClose'
  BY <1>2, <1>8, TwoSides
     DEF CInv, Counts, ClosedCounted, BrokenPeerGone, CleanClose, LoopGoesOn, Alive
<1> QED
  BY <1>10, <1>11, <1>12, <1>13, <1>14 DEF Counts

(* The two ways a send completes: acknowledged (k) or failed.              *)
LEMMA CompleteSendCounts ==
  ASSUME CInv, NEW s \in Sides, NEW q \in QPs,
         Acknowledge(s, q) \/ RetryExceeded(s, q)
  PROVE  Counts'
<1>1. PICK k \in BOOLEAN :
        /\ cq' = [cq EXCEPT ![s] = Append(@, Wc(q, Send, k))]
        /\ sq' = [sq EXCEPT ![s][q] = "idle"]
        /\ UNCHANGED <<pc, loopVars, batch, rq>>
        /\ Alive(s) /\ sq[s][q] # "idle"
        /\ IF k THEN sq[s][q] = "arrived"
                ELSE /\ sq[s][q] = "wire" \/ AckLoss
                     /\ ~Alive(Peer(s))
                     /\ PatientRetry => cq[s] = <<>> /\ \A r \in QPs : sq[s][r] # "arrived"
  BY DEF Acknowledge, RetryExceeded
<1> DEFINE c == Wc(q, Send, k)
           p == Peer(s)
<1>2. /\ p \in Sides /\ p # s /\ Peer(p) = s /\ \A t \in Sides : t = s \/ t = p
      /\ c \in Completions /\ c.qp = q /\ c.op = Send /\ c.ok = k
      /\ cq' = [cq EXCEPT ![s] = Append(@, c)] /\ IInv
  BY <1>1, TwoSides DEF Wc, Completions, CInv
<1>3. /\ \A t \in Sides, r \in QPs :
           sq'[t][r] = IF t = s /\ r = q THEN "idle" ELSE sq[t][r]
      /\ UNCHANGED <<pc, pending, rcnt, scnt, batch>>
  BY <1>1, <1>2 DEF loopVars, IInv, TypeOK
<1> HIDE DEF c
<1>4. ~Unhandled(s, q, Send)
  BY <1>2, CompleteSendMoves
<1>5. \A t \in Sides : \A r, o, b :
        HasWc(cq'[t], r, o, b)
          <=> HasWc(cq[t], r, o, b) \/ (t = s /\ r = q /\ o = Send /\ b = k)
  <2>1. \A t \in Sides : \A r, o, b :
          HasWc(cq'[t], r, o, b)
            <=> HasWc(cq[t], r, o, b) \/ (t = s /\ r = c.qp /\ o = c.op /\ b = c.ok)
    BY <1>2, ArriveWc
  <2> QED
    BY <1>2, <2>1
<1>6. \A t \in Sides, r \in QPs :
        /\ Unhandled(t, r, Send)' <=> Unhandled(t, r, Send) \/ (t = s /\ r = q)
        /\ Landed(t, r)' <=> Landed(t, r)
  BY <1>2, CompleteSendMoves
<1>7. \A t \in Sides, r \in QPs :
        /\ Holds(t, r)' <=> Holds(t, r)
        /\ Flying(t, r)' <=> Flying(t, r) /\ ~(t = s /\ r = q)
  BY <1>2, CompleteSendMoves
<1>8. \A t \in Sides : /\ Good(t)' = (IF t = s /\ k THEN Good(t) \cup {q} ELSE Good(t))
                       /\ Broken(t)' = (IF t = s /\ ~k THEN Broken(t) \cup {q} ELSE Broken(t))
                       /\ AckDue(t)' = (IF t = s THEN AckDue(t) \ {q} ELSE AckDue(t))
                       /\ Landings(t)' = Landings(t)
                       /\ Out(t)' = Out(t)
  <2>1. \A t \in Sides : Good(t)' = (IF t = s /\ k THEN Good(t) \cup {q} ELSE Good(t))
    BY <1>5 DEF Good
  <2>2. \A t \in Sides : Broken(t)' = (IF t = s /\ ~k THEN Broken(t) \cup {q} ELSE Broken(t))
    BY <1>5 DEF Broken
  <2>3. \A t \in Sides : AckDue(t)' = (IF t = s THEN AckDue(t) \ {q} ELSE AckDue(t))
    BY <1>3 DEF AckDue
  <2>4. \A t \in Sides : Landings(t)' = Landings(t)
    BY <1>6 DEF Landings
  <2>5. \A t \in Sides : Out(t)' = Out(t)
    BY <1>1, <1>3, <1>6 DEF Out
  <2> QED
    BY <2>1, <2>2, <2>3, <2>4, <2>5
<1>9. /\ q \in QPs \ Good(s)
      /\ k => q \in AckDue(s)
      /\ ~k /\ ~AckLoss => Flying(s, q) /\ q \notin AckDue(s)
  BY <1>1, <1>2, <1>4, SendCqe DEF AckDue, Flying
<1>10. SentAgainstTaken'
  <2>1. \A t \in Sides : /\ Good(t) \in SUBSET QPs /\ AckDue(t) \in SUBSET QPs
                         /\ Landings(t) \in SUBSET QPs
                         /\ scnt[t] \in Nat /\ rcnt[t] \in Nat
    BY <1>2, SetFacts
  <2>2. \A t \in Sides : /\ Cardinality(Good(t)) \in Nat /\ Cardinality(AckDue(t)) \in Nat
                         /\ Cardinality(Landings(t)) \in Nat
    BY <2>1, Cards
  <2>3. /\ Cardinality(Good(s) \cup {q}) = Cardinality(Good(s)) + 1
        /\ q \in AckDue(s) => Cardinality(AckDue(s) \ {q}) = Cardinality(AckDue(s)) - 1
        /\ q \notin AckDue(s) => AckDue(s) \ {q} = AckDue(s)
    BY <1>9, <2>1, Cards
  <2> SUFFICES ASSUME NEW t \in Sides
               PROVE  LET sent  == scnt[t] + Cardinality(Good(t)') + Cardinality(AckDue(t)')
                          taken == rcnt[Peer(t)] + Cardinality(Landings(Peer(t))')
                      IN  sent <= taken /\ (~AckLoss => sent = taken)
    BY <1>3 DEF SentAgainstTaken
  <2>4. LET sent  == scnt[t] + Cardinality(Good(t)) + Cardinality(AckDue(t))
            taken == rcnt[Peer(t)] + Cardinality(Landings(Peer(t)))
        IN  sent <= taken /\ (~AckLoss => sent = taken)
    BY DEF CInv, Counts, SentAgainstTaken
  <2>7. /\ Cardinality(Good(t)) \in Nat /\ Cardinality(AckDue(t)) \in Nat /\ scnt[t] \in Nat
        /\ Cardinality(Landings(Peer(t))) \in Nat /\ rcnt[Peer(t)] \in Nat
    BY <2>1, <2>2, TwoSides
  <2>5. CASE t = s
    <3>1. /\ Cardinality(Landings(Peer(t))') = Cardinality(Landings(Peer(t)))
          /\ Peer(t) \in Sides
      BY <1>8, TwoSides
    <3>2. CASE k
      <4>1. /\ Cardinality(Good(t)') = Cardinality(Good(t)) + 1
            /\ Cardinality(AckDue(t)') = Cardinality(AckDue(t)) - 1
        BY <1>8, <1>9, <2>3, <2>5, <3>2
      <4> QED
        BY <2>4, <2>7, <3>1, <4>1
    <3>3. CASE ~k
      <4>1. /\ Cardinality(Good(t)') = Cardinality(Good(t))
            /\ \/ Cardinality(AckDue(t)') = Cardinality(AckDue(t))
               \/ AckLoss /\ Cardinality(AckDue(t)') = Cardinality(AckDue(t)) - 1
        BY <1>8, <1>9, <2>3, <2>5, <3>3
      <4> QED
        BY <2>4, <2>7, <3>1, <4>1
    <3> QED
      BY <3>2, <3>3
  <2>6. CASE t # s
    BY <1>8, <2>4, <2>6, TwoSides
  <2> QED
    BY <2>5, <2>6
<1>11. SendsBounded'
  BY <1>3, <1>8 DEF CInv, Counts, SendsBounded
<1>12. ASSUME ~AckLoss, ~k
       PROVE  /\ ~Landed(s, q) /\ ~Flying(p, q) /\ ~Landed(p, q)
              /\ ~Holds(s, q) /\ ~Holds(p, q)
              /\ q \notin Broken(s) /\ q \notin Broken(p)
  BY <1>2, <1>9, <1>12 DEF CInv, Counts, IInv, OneBall, BrokenAlone
<1>13. TurnsAgree'
  <2>1. ASSUME ~AckLoss PROVE Turns' = Turns
    <3>1. \A r \in QPs : r # q => (Turn(r)' <=> Turn(r))
      BY <1>6, <1>7, <1>8, TwoSides DEF Turn
    <3>2. Turn(q)' <=> Turn(q)
      <4>1. CASE k
        <5>1. ~Flying(s, q)
          BY <1>1, <4>1 DEF Flying
        <5> QED
          BY <1>6, <1>7, <1>8, <4>1, <5>1, TwoSides DEF Turn
      <4>2. CASE ~k /\ s = "server"
        BY <1>8, <1>9, <2>1, <4>2 DEF Turn
      <4>3. CASE ~k /\ s = "client"
        <5>1. p = "server"
          BY <4>3 DEF Peer
        <5> QED
          BY <1>2, <1>6, <1>7, <1>8, <1>12, <2>1, <4>3, <5>1 DEF Turn
      <4> QED
        BY <4>1, <4>2, <4>3, TwoSides
    <3> QED
      BY <3>1, <3>2 DEF Turns
  <2>2. \A t \in Sides : Alive(t)' <=> Alive(t)
    BY <1>3 DEF Alive
  <2> QED
    BY <1>3, <2>1, <2>2, TwoSides DEF CInv, Counts, TurnsAgree
<1>14. BrokenAlone'
  <2> SUFFICES ASSUME ~AckLoss, NEW t \in Sides, NEW r \in Broken(t)'
               PROVE  /\ ~Holds(t, r)' /\ ~Flying(t, r)' /\ ~Landed(t, r)'
                      /\ ~Holds(Peer(t), r)' /\ ~Flying(Peer(t), r)' /\ ~Landed(Peer(t), r)'
                      /\ r \notin Broken(Peer(t))'
    BY DEF BrokenAlone
  <2>1. r \in QPs /\ Peer(t) \in Sides
    BY TwoSides DEF Broken
  <2>2. CASE t = s /\ ~k /\ r = q
    BY <1>2, <1>6, <1>7, <1>8, <1>12, <2>1, <2>2
  <2>3. CASE ~(t = s /\ ~k /\ r = q)
    <3>1. r \in Broken(t)
      BY <1>8, <2>3
    <3>2. /\ ~Holds(t, r) /\ ~Flying(t, r) /\ ~Landed(t, r)
          /\ ~Holds(Peer(t), r) /\ ~Flying(Peer(t), r) /\ ~Landed(Peer(t), r)
          /\ r \notin Broken(Peer(t))
      BY <3>1 DEF CInv, Counts, BrokenAlone
    <3>3. ~(r = q /\ ~k)
      BY <1>2, <1>9, <3>2
    <3> QED
      BY <1>6, <1>7, <1>8, <2>1, <3>2, <3>3
  <2> QED
    BY <2>2, <2>3
<1>15. ClosedCounted'
  BY <1>3 DEF CInv, Counts, ClosedCounted
<1>16. BrokenPeerGone'
  BY <1>1, <1>3, <1>8, TwoSides DEF CInv, Counts, BrokenPeerGone, Alive
<1>17. CleanClose'
  <2> SUFFICES ASSUME ~AckLoss, PatientRetry, NEW t \in Sides, pc[Peer(t)] = "done"
               PROVE  /\ Broken(t)' # {} => batch[t] = 0 /\ ~LoopGoesOn(t)
                      /\ pc[t] # "badStatus"
    BY <1>3 DEF CleanClose, LoopGoesOn
  <2>1. CASE ~(t = s /\ ~k)
    BY <1>8, <2>1 DEF CInv, Counts, CleanClose
  <2>2. CASE t = s /\ ~k
    <3>1. cq[s] = <<>> /\ (\A r \in QPs : sq[s][r] # "arrived") /\ pc[s] # "badStatus"
      BY <1>1, <2>2 DEF Alive
    <3>2. batch[s] = 0
      <4>1. batch[s] \in Nat /\ batch[s] <= Len(cq[s]) /\ Len(cq[s]) = 0
        BY <1>2, <3>1 DEF IInv, TypeOK
      <4> QED
        BY <4>1
    <3>3. Good(s) = {} /\ AckDue(s) = {} /\ Landings(s) = {}
      BY <3>1 DEF Good, AckDue, Landings, Landed, Unhandled, HasCqe, HasWc
    <3>4. /\ Cardinality(Good(s)) = 0 /\ Cardinality(AckDue(s)) = 0
          /\ Cardinality(Landings(s)) = 0
      BY <3>3, FS_EmptySet
    <3>5. /\ Cardinality(Good(p)) \in Nat /\ Cardinality(AckDue(p)) \in Nat
          /\ Cardinality(Landings(p)) \in Nat
          /\ scnt[s] \in Nat /\ rcnt[s] \in Nat /\ scnt[p] \in Nat /\ rcnt[p] \in Nat
          /\ Iters \in Nat
      BY <1>2, SetFacts, Cards
    <3>6. /\ scnt[s] + Cardinality(Good(s)) + Cardinality(AckDue(s))
               = rcnt[p] + Cardinality(Landings(p))
          /\ scnt[p] + Cardinality(Good(p)) + Cardinality(AckDue(p))
               = rcnt[s] + Cardinality(Landings(s))
      BY <1>2 DEF CInv, Counts, SentAgainstTaken
    <3>7. rcnt[p] >= Iters /\ scnt[p] >= Iters
      BY <1>2, <2>2 DEF CInv, Counts, ClosedCounted
    <3>8. rcnt[s] >= Iters /\ scnt[s] >= Iters
      BY <3>4, <3>5, <3>6, <3>7
    <3> QED
      BY <2>2, <3>1, <3>2, <3>5, <3>8 DEF LoopGoesOn
  <2> QED
    BY <2>1, <2>2
<1> QED
  BY <1>10, <1>11, <1>13, <1>14, <1>15, <1>16, <1>17 DEF Counts

LEMMA HandleBadStatusCounts ==
  ASSUME CInv, NEW s \in Sides, HandleBadStatus(s) PROVE Counts'
<1> DEFINE c == NextCompletion(s)
<1>0. PICK q : q = c.qp
  OBVIOUS
<1>1. /\ IInv /\ Handling(s) /\ Consume(s) /\ ~c.ok
      /\ pc[s] = "run" /\ pc'[s] = "badStatus" /\ \A t \in Sides : t # s => pc'[t] = pc[t]
      /\ UNCHANGED <<pending, rcnt, scnt, sq>> /\ batch[s] > 0
      /\ \A t \in Sides : t # s => batch'[t] = batch[t]
  BY DEF HandleBadStatus, Handling, Consume, loopVars, CInv, IInv, TypeOK
<1>2. /\ c \in Completions /\ c.op = Send
      /\ \A t \in Sides : \A r, o : Unhandled(t, r, o)'
           <=> Unhandled(t, r, o) /\ ~(t = s /\ r = q /\ o = Send)
  BY <1>0, <1>1, ConsumeFacts
<1>3. /\ HasWc(cq[s], q, Send, FALSE)
      /\ \A t \in Sides : \A r, o, k :
           HasWc(cq'[t], r, o, k)
             <=> HasWc(cq[t], r, o, k) /\ ~(t = s /\ r = q /\ o = Send)
  <2>1. c.ok = FALSE
    BY <1>1, <1>2 DEF Completions
  <2> QED
    BY <1>0, <1>1, <1>2, <2>1, ConsumeWc
<1>4. q \in Broken(s) /\ q \in QPs /\ q \notin Good(s)
  <2>1. q \in QPs
    BY <1>0, <1>2 DEF Completions
  <2> QED
    BY <1>1, <1>3, <2>1, SendCqe DEF Broken
<1> HIDE DEF c
<1>5. \A t \in Sides, r \in QPs :
        /\ Landed(t, r)' <=> Landed(t, r)
        /\ Holds(t, r)' <=> Holds(t, r)
        /\ Flying(t, r)' <=> Flying(t, r)
  BY <1>1, HandleBadStatusMoves
<1>6. \A t \in Sides : /\ Good(t)' = Good(t) /\ Broken(t)' \in SUBSET Broken(t)
                       /\ AckDue(t)' = AckDue(t) /\ Landings(t)' = Landings(t)
                       /\ Out(t)' \in SUBSET Out(t)
  <2>1. \A t \in Sides : Good(t)' = Good(t) /\ Broken(t)' \in SUBSET Broken(t)
    BY <1>3, <1>4 DEF Good, Broken
  <2>2. \A t \in Sides : AckDue(t)' = AckDue(t) /\ Landings(t)' = Landings(t)
    BY <1>1, <1>5 DEF AckDue, Landings
  <2>3. \A t \in Sides : Out(t)' \in SUBSET Out(t)
    BY <1>1, <1>2 DEF Out
  <2> QED
    BY <2>1, <2>2, <2>3
<1>7. ~Alive(Peer(s)) /\ ~Alive(Peer(s))' /\ ~Alive(s)'
  BY <1>1, <1>4, TwoSides DEF CInv, Counts, BrokenPeerGone, Alive
<1>8. SentAgainstTaken'
  BY <1>1, <1>6, TwoSides DEF CInv, Counts, SentAgainstTaken
<1>9. SendsBounded'
  <2> SUFFICES ASSUME NEW t \in Sides
               PROVE  /\ scnt[t] + Cardinality(Out(t)') <= Iters + Cardinality(QPs) - 1
                      /\ pc'[t] = "start" => scnt[t] = 0
    BY <1>1 DEF SendsBounded
  <2>1. Cardinality(Out(t)') <= Cardinality(Out(t)) /\ Cardinality(Out(t)) \in Nat
        /\ Cardinality(Out(t)') \in Nat /\ Cardinality(QPs) \in Nat
        /\ scnt[t] \in Nat /\ Iters \in Nat
    <3>1. Out(t) \in SUBSET QPs /\ scnt[t] \in Nat /\ Iters \in Nat
      BY <1>1, SetFacts
    <3>2. Out(t)' \in SUBSET QPs
      BY <1>6, <3>1
    <3> QED
      BY <1>6, <3>1, <3>2, Cards
  <2>2. /\ scnt[t] + Cardinality(Out(t)) <= Iters + Cardinality(QPs) - 1
        /\ pc[t] = "start" => scnt[t] = 0
    BY DEF CInv, Counts, SendsBounded
  <2> QED
    BY <1>1, <2>1, <2>2
<1>10. TurnsAgree'
  BY <1>1, <1>7, TwoSides DEF CInv, Counts, TurnsAgree
<1>11. BrokenAlone'
  <2> SUFFICES ASSUME ~AckLoss, NEW t \in Sides, NEW r \in Broken(t)'
               PROVE  /\ ~Holds(t, r)' /\ ~Flying(t, r)' /\ ~Landed(t, r)'
                      /\ ~Holds(Peer(t), r)' /\ ~Flying(Peer(t), r)' /\ ~Landed(Peer(t), r)'
                      /\ r \notin Broken(Peer(t))'
    BY DEF BrokenAlone
  <2>1. r \in Broken(t) /\ r \in QPs /\ Peer(t) \in Sides
    BY <1>6, TwoSides DEF Broken
  <2>2. /\ ~Holds(t, r) /\ ~Flying(t, r) /\ ~Landed(t, r)
        /\ ~Holds(Peer(t), r) /\ ~Flying(Peer(t), r) /\ ~Landed(Peer(t), r)
        /\ r \notin Broken(Peer(t))
    BY <2>1 DEF CInv, Counts, BrokenAlone
  <2> QED
    BY <1>5, <1>6, <2>1, <2>2
<1>12. ClosedCounted'
  BY <1>1 DEF CInv, Counts, ClosedCounted
<1>13. BrokenPeerGone'
  BY <1>1, <1>6, <1>7, TwoSides DEF CInv, Counts, BrokenPeerGone, Alive
<1>14. CleanClose'
  <2> SUFFICES ASSUME ~AckLoss, PatientRetry, NEW t \in Sides, pc'[Peer(t)] = "done"
               PROVE  /\ Broken(t)' # {} => batch'[t] = 0 /\ ~LoopGoesOn(t)
                      /\ pc'[t] # "badStatus"
    BY <1>1 DEF CleanClose, LoopGoesOn
  <2>1. CASE t = s
    <3>1. batch[s] = 0
      BY <1>1, <1>4, <2>1, TwoSides DEF CInv, Counts, CleanClose
    <3> QED
      BY <1>1, <3>1 DEF IInv, TypeOK
  <2>2. CASE t # s
    BY <1>1, <2>2, TwoSides
  <2> QED
    BY <2>1, <2>2
<1> QED
  BY <1>8, <1>9, <1>10, <1>11, <1>12, <1>13, <1>14 DEF Counts

LEMMA HandleSendCounts ==
  ASSUME CInv, NEW s \in Sides, HandleSend(s) PROVE Counts'
<1> DEFINE p == Peer(s)
<1>0. PICK q : q = NextCompletion(s).qp
  OBVIOUS
<1>1. /\ IInv /\ q \in QPs /\ pc[s] = "run" /\ pc' = pc /\ UNCHANGED rcnt
      /\ scnt[s] \in Nat /\ scnt'[s] = scnt[s] + 1
      /\ \A t \in Sides : t # s => scnt'[t] = scnt[t]
  <2>1. IInv
    BY DEF CInv
  <2>2. /\ q \in QPs /\ pc[s] = "run" /\ pc' = pc /\ UNCHANGED rcnt
        /\ scnt' = [scnt EXCEPT ![s] = @ + 1]
    BY <1>0, <2>1, HandleSendFacts
  <2> QED
    BY <2>1, <2>2 DEF IInv, TypeOK
<1>2. /\ \A t \in Sides : \A r, o : Unhandled(t, r, o)'
           <=> Unhandled(t, r, o) /\ ~(t = s /\ r = q /\ o = Send)
      /\ \A t \in Sides, r \in QPs : ~(t = s /\ r = q) =>
           pending'[t][r] = pending[t][r] /\ sq'[t][r] = sq[t][r]
      /\ Kept(s, q, Send) \/ (Posted(s, q, Send) /\ scnt[s] + 1 < Iters)
  BY <1>0, <1>1, HandleSendFacts
<1>3. /\ HasWc(cq[s], q, Send, TRUE) /\ batch[s] > 0
      /\ \A t \in Sides : t # s => batch'[t] = batch[t]
      /\ \A t \in Sides : \A r, o, k :
           HasWc(cq'[t], r, o, k)
             <=> HasWc(cq[t], r, o, k) /\ ~(t = s /\ r = q /\ o = Send)
  <2>1. /\ Handling(s) /\ Consume(s) /\ NextCompletion(s).ok
        /\ NextCompletion(s).op = Send
    BY DEF HandleSend
  <2>2. NextCompletion(s).ok = TRUE
    <3>1. NextCompletion(s) \in Completions
      BY <1>1, <2>1, ConsumeFacts
    <3> QED
      BY <2>1, <3>1 DEF Completions
  <2>3. /\ HasWc(cq[s], q, Send, TRUE)
        /\ \A t \in Sides : \A r, o, k :
             HasWc(cq'[t], r, o, k)
               <=> HasWc(cq[t], r, o, k) /\ ~(t = s /\ r = q /\ o = Send)
    BY <1>0, <1>1, <2>1, <2>2, ConsumeWc
  <2> QED
    BY <1>1, <2>1, <2>3 DEF Handling, Consume, IInv, TypeOK
<1>4. q \in Good(s) /\ q \notin Broken(s) /\ q \in Out(s) /\ q \notin AckDue(s)
      /\ sq[s][q] = "idle"
  <2>1. q \in Good(s)
    BY <1>1, <1>3 DEF Good
  <2> QED
    BY <1>1, <2>1, SendCqe DEF Out, AckDue, IInv, BooksAgree, SendsAgree
<1>5. \A t \in Sides, r \in QPs :
        /\ Landed(t, r)' <=> Landed(t, r)
        /\ ~(t = s /\ r = q) => /\ Holds(t, r)' <=> Holds(t, r)
                                /\ Flying(t, r)' <=> Flying(t, r)
  BY <1>0, <1>1, HandleSendMoves
<1>6. \/ /\ Holds(s, q)' <=> Holds(s, q)
         /\ ~Flying(s, q)' /\ ~Flying(s, q)
         /\ Kept(s, q, Send)
      \/ /\ Holds(s, q) /\ ~Holds(s, q)' /\ Flying(s, q)'
         /\ Posted(s, q, Send) /\ scnt[s] + 1 < Iters
  BY <1>0, <1>1, HandleSendMoves
<1>7. \A t \in Sides : /\ Good(t)' = (IF t = s THEN Good(t) \ {q} ELSE Good(t))
                       /\ Broken(t)' = Broken(t)
                       /\ AckDue(t)' = AckDue(t) /\ Landings(t)' = Landings(t)
                       /\ t # s => Out(t)' = Out(t)
  <2>1. \A t \in Sides : /\ Good(t)' = (IF t = s THEN Good(t) \ {q} ELSE Good(t))
                         /\ Broken(t)' = Broken(t)
    BY <1>3, <1>4 DEF Good, Broken
  <2>2. \A t \in Sides : Landings(t)' = Landings(t)
    BY <1>5 DEF Landings
  <2>3. \A t \in Sides : AckDue(t)' = AckDue(t)
    BY <1>2, <1>4 DEF AckDue, Kept, Posted
  <2>4. \A t \in Sides : t # s => Out(t)' = Out(t)
    BY <1>2 DEF Out
  <2> QED
    BY <2>1, <2>2, <2>3, <2>4
<1>8. SentAgainstTaken'
  <2> SUFFICES ASSUME NEW t \in Sides
               PROVE  LET sent  == scnt'[t] + Cardinality(Good(t)') + Cardinality(AckDue(t)')
                          taken == rcnt[Peer(t)] + Cardinality(Landings(Peer(t))')
                      IN  sent <= taken /\ (~AckLoss => sent = taken)
    BY <1>1 DEF SentAgainstTaken
  <2>1. LET sent  == scnt[t] + Cardinality(Good(t)) + Cardinality(AckDue(t))
            taken == rcnt[Peer(t)] + Cardinality(Landings(Peer(t)))
        IN  sent <= taken /\ (~AckLoss => sent = taken)
    BY DEF CInv, Counts, SentAgainstTaken
  <2>2. CASE t = s
    <3>1. Good(t) \in SUBSET QPs /\ AckDue(t) \in SUBSET QPs
      BY <1>1, SetFacts
    <3>2. /\ Cardinality(Good(t)) \in Nat /\ Cardinality(AckDue(t)) \in Nat
          /\ Cardinality(Good(t)') = Cardinality(Good(t)) - 1
          /\ Cardinality(AckDue(t)') = Cardinality(AckDue(t))
      BY <1>4, <1>7, <2>2, <3>1, Cards
    <3>3. Cardinality(Landings(Peer(t))') = Cardinality(Landings(Peer(t)))
      BY <1>7, TwoSides
    <3>4. scnt'[t] + Cardinality(Good(t)') + Cardinality(AckDue(t)')
            = scnt[t] + Cardinality(Good(t)) + Cardinality(AckDue(t))
      BY <1>1, <2>2, <3>2
    <3> QED
      BY <2>1, <3>3, <3>4
  <2>3. CASE t # s
    BY <1>1, <1>7, <2>1, <2>3, TwoSides
  <2> QED
    BY <2>2, <2>3
<1>9. SendsBounded'
  <2> SUFFICES ASSUME NEW t \in Sides
               PROVE  /\ scnt'[t] + Cardinality(Out(t)') <= Iters + Cardinality(QPs) - 1
                      /\ pc[t] = "start" => scnt'[t] = 0
    BY <1>1 DEF SendsBounded
  <2>1. /\ scnt[t] + Cardinality(Out(t)) <= Iters + Cardinality(QPs) - 1
        /\ pc[t] = "start" => scnt[t] = 0
    BY DEF CInv, Counts, SendsBounded
  <2>2. CASE t = s
    <3>1. Out(t) \in SUBSET QPs /\ Out(t)' \in SUBSET QPs /\ Iters \in Nat
      BY <1>1, SetFacts DEF Out
    <3>2. /\ Cardinality(Out(t)) \in Nat /\ Cardinality(QPs) \in Nat
          /\ Cardinality(Out(t)') \in Nat /\ Cardinality(Out(t)') <= Cardinality(QPs)
          /\ Cardinality(Out(t) \ {q}) = Cardinality(Out(t)) - 1
      BY <1>4, <2>2, <3>1, Cards
    <3>3. CASE Kept(s, q, Send)
      <4>1. Out(t)' = Out(t) \ {q}
        BY <1>2, <1>4, <2>2, <3>3 DEF Out, Kept
      <4> QED
        BY <1>1, <2>1, <2>2, <3>1, <3>2, <4>1
    <3>4. CASE scnt[s] + 1 < Iters
      BY <1>1, <2>2, <3>1, <3>2, <3>4
    <3> QED
      BY <1>2, <3>3, <3>4
  <2>3. CASE t # s
    BY <1>1, <1>7, <2>1, <2>3
  <2> QED
    BY <2>2, <2>3
<1>10. ~AckLoss => /\ Holds(s, q) => q \notin Broken(p)
                   /\ Holds(s, q) => ~Holds(p, q) /\ ~Flying(p, q) /\ ~Landed(s, q)
  BY <1>1, TwoSides DEF CInv, Counts, BrokenAlone, IInv, OneBall
<1>11. TurnsAgree'
  <2>1. ASSUME ~AckLoss PROVE Turns' = Turns
    <3>1. \A r \in QPs : r # q => (Turn(r)' <=> Turn(r))
      BY <1>5, <1>7, TwoSides DEF Turn
    <3>2. Turn(q)' <=> Turn(q)
      <4>1. CASE s = "server"
        BY <1>1, <1>5, <1>6, <1>7, <4>1, TwoSides DEF Turn
      <4>2. CASE s = "client"
        <5>1. p = "server"
          BY <4>2 DEF Peer
        <5> QED
          BY <1>1, <1>5, <1>6, <1>7, <4>2, <5>1, TwoSides DEF Turn
      <4> QED
        BY <4>1, <4>2, TwoSides
    <3> QED
      BY <3>1, <3>2 DEF Turns
  <2>2. \A t \in Sides : Alive(t)' <=> Alive(t)
    BY <1>1 DEF Alive
  <2> QED
    BY <1>1, <2>1, <2>2, TwoSides DEF CInv, Counts, TurnsAgree
<1>12. BrokenAlone'
  <2> SUFFICES ASSUME ~AckLoss, NEW t \in Sides, NEW r \in Broken(t)
               PROVE  /\ ~Holds(t, r)' /\ ~Flying(t, r)' /\ ~Landed(t, r)'
                      /\ ~Holds(Peer(t), r)' /\ ~Flying(Peer(t), r)' /\ ~Landed(Peer(t), r)'
                      /\ r \notin Broken(Peer(t))'
    BY <1>7 DEF BrokenAlone
  <2>1. r \in QPs /\ Peer(t) \in Sides
    BY TwoSides DEF Broken
  <2>2. /\ ~Holds(t, r) /\ ~Flying(t, r) /\ ~Landed(t, r)
        /\ ~Holds(Peer(t), r) /\ ~Flying(Peer(t), r) /\ ~Landed(Peer(t), r)
        /\ r \notin Broken(Peer(t))
    BY DEF CInv, Counts, BrokenAlone
  <2> QED
    BY <1>5, <1>6, <1>7, <2>1, <2>2, TwoSides
<1>13. ClosedCounted'
  BY <1>1, ItersAssumption DEF CInv, Counts, ClosedCounted
<1>14. BrokenPeerGone'
  BY <1>1, <1>7 DEF CInv, Counts, BrokenPeerGone, Alive
<1>15. CleanClose'
  <2> SUFFICES ASSUME ~AckLoss, PatientRetry, NEW t \in Sides, pc[Peer(t)] = "done"
               PROVE  /\ Broken(t) # {} => batch'[t] = 0 /\ ~LoopGoesOn(t)'
                      /\ pc[t] # "badStatus"
    BY <1>1, <1>7 DEF CleanClose
  <2>1. CASE t = s
    <3>1. Broken(s) = {}
      <4>1. Broken(s) # {} => batch[s] = 0
        BY <2>1 DEF CInv, Counts, CleanClose
      <4> QED
        BY <1>3, <4>1
    <3> QED
      BY <1>1, <2>1, <3>1
  <2>2. CASE t # s
    BY <1>1, <1>3, <2>2 DEF CInv, Counts, CleanClose, LoopGoesOn
  <2> QED
    BY <2>1, <2>2
<1> QED
  BY <1>8, <1>9, <1>11, <1>12, <1>13, <1>14, <1>15 DEF Counts

LEMMA HandleRecvCounts ==
  ASSUME CInv, NEW s \in Sides, HandleRecv(s) PROVE Counts'
<1> DEFINE p == Peer(s)
<1>0. PICK q : q = NextCompletion(s).qp
  OBVIOUS
<1>1. /\ IInv /\ q \in QPs /\ pc[s] = "run" /\ pc' = pc /\ UNCHANGED scnt
      /\ rcnt[s] \in Nat /\ rcnt'[s] = rcnt[s] + 1
      /\ \A t \in Sides : t # s => rcnt'[t] = rcnt[t]
  <2>1. IInv
    BY DEF CInv
  <2>2. /\ q \in QPs /\ pc[s] = "run" /\ pc' = pc /\ UNCHANGED scnt
        /\ rcnt' = [rcnt EXCEPT ![s] = @ + 1]
    BY <1>0, <2>1, HandleRecvFacts
  <2> QED
    BY <2>1, <2>2 DEF IInv, TypeOK
<1>2. /\ Unhandled(s, q, Recv) /\ Recv \in pending[s][q]
      /\ \A t \in Sides : \A r, o : Unhandled(t, r, o)'
           <=> Unhandled(t, r, o) /\ ~(t = s /\ r = q /\ o = Recv)
      /\ \A t \in Sides, r \in QPs : ~(t = s /\ r = q) =>
           /\ pending'[t][r] = pending[t][r] /\ sq'[t][r] = sq[t][r]
           /\ routs'[t][r] = routs[t][r] /\ rq'[t][r] = rq[t][r]
      /\ \/ Kept(s, q, Recv)
         \/ Posted(s, q, Recv) /\ scnt[s] < Iters /\ ~Unhandled(s, q, Send)
  BY <1>0, <1>1, HandleRecvFacts
<1>3. /\ batch[s] > 0
      /\ \A t \in Sides : t # s => batch'[t] = batch[t]
      /\ \A t \in Sides : \A r, k : HasWc(cq'[t], r, Send, k) <=> HasWc(cq[t], r, Send, k)
  <2>1. /\ Handling(s) /\ Consume(s) /\ NextCompletion(s).op = Recv
    BY DEF HandleRecv
  <2>2. \A t \in Sides : \A r, o, k :
          HasWc(cq'[t], r, o, k)
            <=> HasWc(cq[t], r, o, k) /\ ~(t = s /\ r = q /\ o = Recv)
    BY <1>0, <1>1, <2>1, ConsumeWc
  <2> QED
    BY <1>1, <2>1, <2>2 DEF Handling, Consume, IInv, TypeOK, Recv, Send
<1>4. /\ p \in Sides /\ p # s /\ Peer(p) = s /\ \A t \in Sides : t = s \/ t = p
      /\ Landed(s, q) /\ ~Landed(p, q) /\ ~Holds(s, q) /\ ~Holds(p, q)
      /\ ~Flying(s, q) /\ ~Flying(p, q)
      /\ ~AckLoss => q \notin Broken(s) /\ q \notin Broken(p)
  <2>1. p \in Sides /\ p # s /\ Peer(p) = s /\ \A t \in Sides : t = s \/ t = p
    BY TwoSides
  <2>2. Landed(s, q) /\ ~Holds(s, q)
    BY <1>0, <1>1, HandleRecvMoves
  <2>3. ~Landed(p, q) /\ ~Holds(p, q) /\ ~Flying(s, q) /\ ~Flying(p, q)
    BY <1>0, <1>1, HandleRecvMoves
  <2>4. ~AckLoss => q \notin Broken(s) /\ q \notin Broken(p)
    BY <2>1, <2>2 DEF CInv, Counts, BrokenAlone
  <2> QED
    BY <2>1, <2>2, <2>3, <2>4
<1>5. \A t \in Sides, r \in QPs :
        /\ Landed(t, r)' <=> Landed(t, r) /\ ~(t = s /\ r = q)
        /\ Unhandled(t, r, Send)' <=> Unhandled(t, r, Send)
        /\ ~(t = s /\ r = q) => /\ Holds(t, r)' <=> Holds(t, r)
                                /\ Flying(t, r)' <=> Flying(t, r)
  BY <1>0, <1>1, HandleRecvMoves
<1>6. \/ Holds(s, q)' /\ ~Flying(s, q)' /\ Kept(s, q, Recv)
      \/ /\ ~Holds(s, q)' /\ Flying(s, q)'
         /\ Posted(s, q, Recv) /\ scnt[s] < Iters /\ ~Unhandled(s, q, Send)
  BY <1>0, <1>1, HandleRecvMoves
<1>7. \A t \in Sides : /\ Good(t)' = Good(t) /\ Broken(t)' = Broken(t)
                       /\ AckDue(t)' = AckDue(t)
                       /\ Landings(t)' = (IF t = s THEN Landings(t) \ {q} ELSE Landings(t))
                       /\ t # s => Out(t)' = Out(t)
  <2>1. \A t \in Sides : Good(t)' = Good(t) /\ Broken(t)' = Broken(t)
    BY <1>3 DEF Good, Broken
  <2>2. \A t \in Sides : Landings(t)' = (IF t = s THEN Landings(t) \ {q} ELSE Landings(t))
    BY <1>5 DEF Landings
  <2>3. \A t \in Sides : AckDue(t)' = AckDue(t)
    BY <1>2 DEF AckDue, Kept, Posted
  <2>4. \A t \in Sides : t # s => Out(t)' = Out(t)
    BY <1>2, <1>5 DEF Out
  <2> QED
    BY <2>1, <2>2, <2>3, <2>4
<1>8. SentAgainstTaken'
  <2> SUFFICES ASSUME NEW t \in Sides
               PROVE  LET sent  == scnt[t] + Cardinality(Good(t)') + Cardinality(AckDue(t)')
                          taken == rcnt'[Peer(t)] + Cardinality(Landings(Peer(t))')
                      IN  sent <= taken /\ (~AckLoss => sent = taken)
    BY <1>1 DEF SentAgainstTaken
  <2>1. LET sent  == scnt[t] + Cardinality(Good(t)) + Cardinality(AckDue(t))
            taken == rcnt[Peer(t)] + Cardinality(Landings(Peer(t)))
        IN  sent <= taken /\ (~AckLoss => sent = taken)
    BY DEF CInv, Counts, SentAgainstTaken
  <2>2. Good(t)' = Good(t) /\ AckDue(t)' = AckDue(t)
    BY <1>7
  <2>3. rcnt'[Peer(t)] + Cardinality(Landings(Peer(t))')
          = rcnt[Peer(t)] + Cardinality(Landings(Peer(t)))
    <3>1. CASE t = p
      <4>1. Landings(s) \in SUBSET QPs /\ q \in Landings(s)
        BY <1>1, <1>4 DEF Landings
      <4>2. /\ Cardinality(Landings(s)') = Cardinality(Landings(s)) - 1
            /\ Cardinality(Landings(s)) \in Nat
        BY <1>7, <4>1, Cards
      <4> QED
        BY <1>1, <1>4, <3>1, <4>2
    <3>2. CASE t = s
      BY <1>1, <1>4, <1>7, <3>2
    <3> QED
      BY <1>4, <3>1, <3>2
  <2> QED
    BY <2>1, <2>2, <2>3
<1>9. SendsBounded'
  <2> SUFFICES ASSUME NEW t \in Sides
               PROVE  /\ scnt[t] + Cardinality(Out(t)') <= Iters + Cardinality(QPs) - 1
                      /\ pc[t] = "start" => scnt[t] = 0
    BY <1>1 DEF SendsBounded
  <2>1. /\ scnt[t] + Cardinality(Out(t)) <= Iters + Cardinality(QPs) - 1
        /\ pc[t] = "start" => scnt[t] = 0
    BY DEF CInv, Counts, SendsBounded
  <2>2. CASE t = s
    <3>1. Out(t)' \in SUBSET QPs /\ Iters \in Nat /\ scnt[t] \in Nat
      BY <1>1, SetFacts DEF Out
    <3>2. /\ Cardinality(QPs) \in Nat
          /\ Cardinality(Out(t)') \in Nat /\ Cardinality(Out(t)') <= Cardinality(QPs)
      BY <3>1, Cards
    <3>3. CASE Kept(s, q, Recv)
      <4>1. Out(t)' = Out(t)
        BY <1>2, <1>5, <2>2, <3>3 DEF Out, Kept
      <4> QED
        BY <2>1, <4>1
    <3>4. CASE scnt[s] < Iters
      BY <1>1, <2>2, <3>1, <3>2, <3>4
    <3> QED
      BY <1>2, <3>3, <3>4
  <2>3. CASE t # s
    BY <1>7, <2>1, <2>3
  <2> QED
    BY <2>2, <2>3
<1>10. TurnsAgree'
  <2> SUFFICES ASSUME ~AckLoss
               PROVE  /\ rcnt'["server"] = rcnt'["client"] + Cardinality(Turns')
                      /\ \A t \in Sides : rcnt'[t] - rcnt'[Peer(t)] <= Cardinality(QPs)
    BY DEF TurnsAgree
  <2>1. /\ rcnt["server"] = rcnt["client"] + Cardinality(Turns)
        /\ rcnt["server"] \in Nat /\ rcnt["client"] \in Nat
    <3>1. Alive("client") \/ Alive("server")
      BY <1>1, TwoSides DEF Alive
    <3> QED
      BY <1>1, <3>1, TwoSides DEF CInv, Counts, TurnsAgree, IInv, TypeOK
  <2>2. \A r \in QPs : r # q => (Turn(r)' <=> Turn(r))
    BY <1>5, <1>7, TwoSides DEF Turn
  <2>3. Turns \in SUBSET QPs /\ Turns' \in SUBSET QPs
    BY DEF Turns
  <2>4. rcnt'["server"] = rcnt'["client"] + Cardinality(Turns')
    <3>1. CASE s = "server"
      <4>1. ~Turn(q) /\ Turn(q)'
        <5>1. p = "client"
          BY <3>1 DEF Peer
        <5> QED
          BY <1>4, <1>6, <3>1, <5>1 DEF Turn
      <4>2. Turns' = Turns \cup {q} /\ q \in QPs \ Turns
        BY <1>1, <2>2, <4>1 DEF Turns
      <4>3. Cardinality(Turns') = Cardinality(Turns) + 1 /\ Cardinality(Turns) \in Nat
        BY <2>3, <4>2, Cards
      <4> QED
        BY <1>1, <2>1, <3>1, <4>3, TwoSides
    <3>2. CASE s = "client"
      <4>1. Turn(q) /\ ~Turn(q)'
        <5>1. p = "server"
          BY <3>2 DEF Peer
        <5>2. Turn(q)
          BY <1>4, <3>2 DEF Turn
        <5>3. ~Holds(p, q)' /\ ~Flying(p, q)' /\ q \notin Broken(p)' /\ ~Landed(s, q)'
          BY <1>1, <1>4, <1>5, <1>7
        <5> QED
          BY <3>2, <5>1, <5>2, <5>3 DEF Turn
      <4>2. Turns' = Turns \ {q} /\ q \in Turns
        BY <1>1, <2>2, <4>1 DEF Turns
      <4>3. Cardinality(Turns') = Cardinality(Turns) - 1 /\ Cardinality(Turns) \in Nat
        BY <2>3, <4>2, Cards
      <4> QED
        BY <1>1, <2>1, <3>2, <4>3, TwoSides
    <3> QED
      BY <3>1, <3>2, TwoSides
  <2>5. /\ Cardinality(Turns') \in Nat /\ Cardinality(QPs) \in Nat
        /\ Cardinality(Turns') <= Cardinality(QPs)
        /\ rcnt'["server"] \in Nat /\ rcnt'["client"] \in Nat
    <3>1. rcnt'["server"] \in Nat /\ rcnt'["client"] \in Nat
      BY <1>1, <2>1, TwoSides
    <3> QED
      BY <2>3, <3>1, Cards
  <2>6. ASSUME NEW t \in Sides PROVE rcnt'[t] - rcnt'[Peer(t)] <= Cardinality(QPs)
    <3>1. CASE t = "server"
      BY <2>4, <2>5, <3>1 DEF Peer
    <3>2. CASE t = "client"
      BY <2>4, <2>5, <3>2 DEF Peer
    <3> QED
      BY <3>1, <3>2, TwoSides
  <2> QED
    BY <2>4, <2>6
<1>11. BrokenAlone'
  <2> SUFFICES ASSUME ~AckLoss, NEW t \in Sides, NEW r \in Broken(t)
               PROVE  /\ ~Holds(t, r)' /\ ~Flying(t, r)' /\ ~Landed(t, r)'
                      /\ ~Holds(Peer(t), r)' /\ ~Flying(Peer(t), r)' /\ ~Landed(Peer(t), r)'
                      /\ r \notin Broken(Peer(t))'
    BY <1>7 DEF BrokenAlone
  <2>1. r \in QPs /\ Peer(t) \in Sides
    BY TwoSides DEF Broken
  <2>2. /\ ~Holds(t, r) /\ ~Flying(t, r) /\ ~Landed(t, r)
        /\ ~Holds(Peer(t), r) /\ ~Flying(Peer(t), r) /\ ~Landed(Peer(t), r)
        /\ r \notin Broken(Peer(t))
    BY DEF CInv, Counts, BrokenAlone
  <2>3. r # q
    BY <1>4
  <2> QED
    BY <1>5, <1>7, <2>1, <2>2, <2>3
<1>12. ClosedCounted'
  BY <1>1 DEF CInv, Counts, ClosedCounted
<1>13. BrokenPeerGone'
  BY <1>1, <1>7 DEF CInv, Counts, BrokenPeerGone, Alive
<1>14. CleanClose'
  <2> SUFFICES ASSUME ~AckLoss, PatientRetry, NEW t \in Sides, pc[Peer(t)] = "done"
               PROVE  /\ Broken(t) # {} => batch'[t] = 0 /\ ~LoopGoesOn(t)'
                      /\ pc[t] # "badStatus"
    BY <1>1, <1>7 DEF CleanClose
  <2>1. CASE t = s
    <3>1. Broken(s) = {}
      <4>1. Broken(s) # {} => batch[s] = 0
        BY <2>1 DEF CInv, Counts, CleanClose
      <4> QED
        BY <1>3, <4>1
    <3> QED
      BY <1>1, <2>1, <3>1
  <2>2. CASE t # s
    BY <1>1, <1>3, <2>2 DEF CInv, Counts, CleanClose, LoopGoesOn
  <2> QED
    BY <2>1, <2>2
<1> QED
  BY <1>8, <1>9, <1>10, <1>11, <1>12, <1>13, <1>14 DEF Counts

LEMMA StepCounts == CInv /\ [Next]_vars => Counts'
<1> SUFFICES ASSUME CInv, [Next]_vars PROVE Counts'
  OBVIOUS
<1>1. ASSUME NEW s \in Sides, Program(s) PROVE Counts'
  BY <1>1, StartCounts, PollCounts, LeaveCounts, HandleBadStatusCounts, HandleSendCounts,
     HandleRecvCounts DEF Program
<1>2. ASSUME NEW s \in Sides, NEW q \in QPs, Fabric(s, q) PROVE Counts'
  BY <1>2, DeliverCounts, CompleteSendCounts DEF Fabric
<1>3. CASE UNCHANGED vars
  BY <1>3, StutterCounts
<1>4. CASE Settled
  BY <1>4, <1>3 DEF Settled
<1> QED
  BY <1>1, <1>2, <1>3, <1>4 DEF Next

THEOREM CountInvariance == Spec => []CInv
<1>1. Init => CInv
  BY InitIInv, InitCounts DEF CInv
<1>2. CInv /\ [Next]_vars => CInv'
  BY StepIInv, StepCounts DEF CInv
<1> QED
  BY <1>1, <1>2, PTL DEF Spec

-----------------------------------------------------------------------------
(* The completion queue.                                                   *)

(* Why a queue pair is in error: its send has failed and waits to be       *)
(* handled, which ends the loop; and the peer has gone.                    *)
Errors ==
  \A s \in Sides : /\ err[s] # {} => ~Alive(Peer(s))
                   /\ Alive(s) => err[s] \subseteq Broken(s)

(* A step that puts no queue pair in error, revives no side and consumes   *)
(* no failed completion of a side that goes on.                            *)
LEMMA ErrorsKept ==
  ASSUME IInv, Errors, err' = err,
         \A t \in Sides : Alive(t)' => Alive(t),
         \A t \in Sides, q \in QPs :
           Alive(t)' /\ HasWc(cq[t], q, Send, FALSE) => HasWc(cq'[t], q, Send, FALSE)
  PROVE  Errors'
<1> SUFFICES ASSUME NEW s \in Sides
             PROVE  /\ err'[s] # {} => ~Alive(Peer(s))'
                    /\ Alive(s)' => err'[s] \subseteq Broken(s)'
  BY DEF Errors
<1>1. err'[s] # {} => ~Alive(Peer(s))'
  BY TwoSides DEF Errors, Peer
<1>2. Alive(s)' => err'[s] \subseteq Broken(s)'
  BY DEF Errors, Broken
<1> QED
  BY <1>1, <1>2

LEMMA ProgramErrors ==
  ASSUME IInv, Errors, NEW s \in Sides, Program(s) PROVE Errors'
<1>1. CASE Start(s) \/ Poll(s) \/ PollFails(s) \/ Close(s)
  <2>1. err' = err /\ cq' = cq
    BY <1>1 DEF Start, Poll, PollFails, Close, hcaVars
  <2>2. \A t \in Sides : Alive(t)' => Alive(t)
    BY <1>1 DEF Start, Poll, PollFails, Close, Alive, IInv, TypeOK
  <2> QED
    BY <2>1, <2>2, ErrorsKept
<1>2. CASE HandleBadStatus(s)
  <2>1. /\ err' = err /\ ~Alive(s)'
        /\ \A t \in Sides : t # s => pc'[t] = pc[t] /\ cq'[t] = cq[t]
    BY <1>2 DEF HandleBadStatus, Consume, Alive, IInv, TypeOK
  <2> QED
    BY <2>1, ErrorsKept DEF Alive
<1>3. CASE HandleSend(s)
  <2> DEFINE c == NextCompletion(s)
  <2>1. err' = err /\ Handling(s) /\ Consume(s) /\ c.ok /\ c.op = Send
    BY <1>3 DEF HandleSend
  <2>2. pc' = pc /\ c.qp \in QPs
    BY <1>3, HandleSendFacts
  <2>3. c.ok = TRUE
    <3>1. c \in Completions
      BY <2>1, ConsumeFacts
    <3> QED
      BY <2>1, <3>1 DEF Completions
  <2>4. /\ HasWc(cq[s], c.qp, c.op, c.ok)
        /\ \A t \in Sides : \A q, o, k :
             HasWc(cq'[t], q, o, k)
               <=> HasWc(cq[t], q, o, k) /\ ~(t = s /\ q = c.qp /\ o = c.op)
    BY <2>1, ConsumeWc
  <2> HIDE DEF c
  <2>5. c.qp \in Good(s)
    BY <2>1, <2>2, <2>3, <2>4 DEF Good
  <2>6. ~HasWc(cq[s], c.qp, Send, FALSE)
    BY <2>2, <2>5, SendCqe DEF Broken
  <2> QED
    BY <2>1, <2>2, <2>4, <2>6, ErrorsKept DEF Alive
<1>4. CASE HandleRecv(s)
  <2> DEFINE c == NextCompletion(s)
  <2>1. err' = err /\ Handling(s) /\ Consume(s) /\ c.op # Send
    BY <1>4 DEF HandleRecv, Recv, Send
  <2>2. pc' = pc
    BY <1>4, HandleRecvFacts
  <2>3. \A t \in Sides : \A q, o, k :
          HasWc(cq'[t], q, o, k)
            <=> HasWc(cq[t], q, o, k) /\ ~(t = s /\ q = c.qp /\ o = c.op)
    BY <2>1, ConsumeWc
  <2> HIDE DEF c
  <2> QED
    BY <2>1, <2>2, <2>3, ErrorsKept DEF Alive
<1> QED
  BY <1>1, <1>2, <1>3, <1>4 DEF Program

LEMMA FabricErrors ==
  ASSUME IInv, Errors, NEW s \in Sides, NEW q \in QPs, Fabric(s, q) PROVE Errors'
<1>1. pc' = pc
  BY DEF Fabric, Deliver, Acknowledge, RetryExceeded
<1>2. PICK t \in Sides, c \in Completions :
        /\ cq' = [cq EXCEPT ![t] = Append(@, c)]
        /\ RetryExceeded(s, q) => t = s /\ c = Wc(q, Send, FALSE)
  <2>1. \A k \in BOOLEAN, o \in {Recv, Send} : Wc(q, o, k) \in Completions
    BY DEF Wc, Completions
  <2>2. CASE Deliver(s, q) /\ ~RetryExceeded(s, q)
    BY <2>1, <2>2, TwoSides DEF Deliver
  <2>3. CASE Acknowledge(s, q) /\ ~RetryExceeded(s, q)
    BY <2>1, <2>3 DEF Acknowledge
  <2>4. CASE RetryExceeded(s, q)
    BY <2>1, <2>4 DEF RetryExceeded
  <2> QED
    BY <2>2, <2>3, <2>4 DEF Fabric
<1>3. \A u \in Sides : \A r, o, k :
        HasWc(cq'[u], r, o, k)
          <=> HasWc(cq[u], r, o, k) \/ (u = t /\ r = c.qp /\ o = c.op /\ k = c.ok)
  BY <1>2, ArriveWc
<1>4. CASE RetryExceeded(s, q)
  <2>0. t = s /\ c = Wc(q, Send, FALSE)
    BY <1>2, <1>4
  <2>1. /\ ~Alive(Peer(s)) /\ err' = [err EXCEPT ![s] = @ \cup {q}]
        /\ c.qp = q /\ c.op = Send /\ c.ok = FALSE /\ t = s
    <3>1. ~Alive(Peer(s)) /\ err' = [err EXCEPT ![s] = @ \cup {q}]
      BY <1>4 DEF RetryExceeded
    <3>2. c.qp = q /\ c.op = Send /\ c.ok = FALSE
      BY <2>0 DEF Wc
    <3> QED
      BY <2>0, <3>1, <3>2
  <2>2. /\ err'[s] = err[s] \cup {q}
        /\ \A u \in Sides : u # s => err'[u] = err[u]
    BY <2>1 DEF IInv, TypeOK
  <2> SUFFICES ASSUME NEW u \in Sides
               PROVE  /\ err'[u] # {} => ~Alive(Peer(u))'
                      /\ Alive(u)' => err'[u] \subseteq Broken(u)'
    BY DEF Errors
  <2>3. err'[u] # {} => ~Alive(Peer(u))'
    BY <1>1, <2>1, <2>2, TwoSides DEF Errors, Alive, Peer
  <2>4. Alive(u)' => err'[u] \subseteq Broken(u)'
    BY <1>1, <1>3, <2>1, <2>2 DEF Errors, Alive, Broken
  <2> QED
    BY <2>3, <2>4
<1>5. CASE ~RetryExceeded(s, q)
  <2>1. err' = err
    BY <1>5 DEF Fabric, Deliver, Acknowledge
  <2> QED
    BY <1>1, <1>3, <2>1, ErrorsKept DEF Alive
<1> QED
  BY <1>4, <1>5

THEOREM ErrorsExplained == Spec => [](CInv /\ Errors)
<1>1. Init => Errors
  BY DEF Init, Errors
<1>2. IInv /\ Errors /\ [Next]_vars => Errors'
  <2> SUFFICES ASSUME IInv, Errors, [Next]_vars PROVE Errors'
    OBVIOUS
  <2>1. CASE UNCHANGED vars
    BY <2>1, ErrorsKept DEF vars, hcaVars, Alive
  <2>2. CASE Settled
    BY <2>1, <2>2 DEF Settled
  <2> QED
    BY <2>1, <2>2, ProgramErrors, FabricErrors DEF Next
<1> QED
  BY <1>1, <1>2, Invariance, CountInvariance, PTL DEF Spec

LEMMA UpTo == \A n \in Nat : IsFiniteSet(1..n) /\ Cardinality(1..n) = n
<1> SUFFICES ASSUME NEW n \in Nat PROVE IsFiniteSet(1..n) /\ Cardinality(1..n) = n
  OBVIOUS
<1>1. IsFiniteSet(1..n) /\ Cardinality(1..n) = IF 1 > n THEN 0 ELSE n - 1 + 1
  BY FS_Interval
<1> QED
  BY <1>1

(* The completions that wait are at most one of each kind for each queue   *)
(* pair; with what the HCA flushes they may be more than the completion    *)
(* queue has entries only after a send failed.                             *)
LEMMA CqFitsLemma == IInv /\ Errors => CqFits
<1> SUFFICES ASSUME IInv, Errors, NEW s \in Sides
             PROVE  /\ Len(cq[s]) <= 2 * Cardinality(QPs)
                    /\ Overrun(s) => err[s] # {} /\ ~Alive(Peer(s))
  BY DEF CqFits
<1> DEFINE Kinds == QPs \X {Recv, Send}
           f == [i \in 1..Len(cq[s]) |-> <<cq[s][i].qp, cq[s][i].op>>]
<1>1. Len(cq[s]) \in Nat /\ batch[s] \in Nat /\ Distinct(cq[s])
  BY DEF IInv, TypeOK, BooksAgree, QueueAgrees
<1>2. f \in Injection(1..Len(cq[s]), Kinds)
  <2>1. \A i \in 1..Len(cq[s]) : cq[s][i] \in Completions
    BY DEF IInv, TypeOK
  <2>2. \A i \in 1..Len(cq[s]) : cq[s][i].qp \in QPs /\ cq[s][i].op \in {Recv, Send}
    BY <2>1 DEF Completions
  <2>3. f \in [1..Len(cq[s]) -> Kinds]
    BY <2>2
  <2>4. ASSUME NEW i \in 1..Len(cq[s]), NEW j \in 1..Len(cq[s]), f[i] = f[j]
        PROVE  i = j
    BY <1>1, <2>4 DEF Distinct
  <2> HIDE DEF f
  <2> QED
    BY <2>3, <2>4 DEF Injection, IsInjective
<1>3. IsFiniteSet({Recv, Send}) /\ Cardinality({Recv, Send}) = 2
  <2>1. IsFiniteSet({}) /\ Cardinality({}) = 0
    BY FS_EmptySet
  <2>2. IsFiniteSet({Send}) /\ Cardinality({Send}) = 1
    BY FS_Singleton
  <2>3. Recv \notin {Send} /\ {Send} \cup {Recv} = {Recv, Send}
    BY DEF Recv, Send
  <2> QED
    BY <2>2, <2>3, FS_AddElement
<1>4. IsFiniteSet(Kinds) /\ Cardinality(Kinds) = Cardinality(QPs) * 2
  BY <1>3, QPsAssumption, FS_Product
<1>5. IsFiniteSet(1..Len(cq[s])) /\ Cardinality(1..Len(cq[s])) = Len(cq[s])
  BY <1>1, UpTo
<1>6. Cardinality(1..Len(cq[s])) <= Cardinality(Kinds)
  BY <1>2, <1>4, FS_Injection
<1>7. Cardinality(QPs) \in Nat
  BY QPsAssumption, FS_CardinalityType
<1>8. Len(cq[s]) <= 2 * Cardinality(QPs)
  BY <1>1, <1>4, <1>5, <1>6, <1>7
<1>9. ASSUME Overrun(s) PROVE err[s] # {} /\ ~Alive(Peer(s))
  <2>1. err[s] # {}
    <3> SUFFICES ASSUME err[s] = {} PROVE FALSE
      OBVIOUS
    <3>1. Flushed(s) = {}
      BY DEF Flushed
    <3>2. Cardinality(Flushed(s)) = 0
      BY <3>1, FS_EmptySet
    <3>3. Len(cq[s]) - batch[s] + Cardinality(Flushed(s)) > RxDepth + 1
      BY <1>9 DEF Overrun
    <3> QED
      BY <3>2, <3>3, <1>1, <1>7, <1>8, CqAssumption, RxDepthAssumption
  <2> QED
    BY <2>1 DEF Errors
<1> QED
  BY <1>8, <1>9

(* One poll reads at most two completions of each queue pair, and the      *)
(* completion queue of rx_depth + 1 entries overruns at most on a side     *)
(* whose peer has died and some of whose sends have failed.                *)
THEOREM CompletionQueueSuffices == Spec => []CqFits
BY ErrorsExplained, CqFitsLemma, PTL DEF CInv

(* The bounded queues of the HCA suffice: nothing is refused or held back, *)
(* whatever dies, and the completion queue does not overrun before a send  *)
(* has failed for want of a peer.                                          *)
THEOREM QueuesSuffice == Spec => []QueuesHold
<1>1. PostsAccepted /\ ReceiverReady /\ CqFits <=> QueuesHold
  BY DEF QueuesHold
<1> QED
  BY <1>1, NoPostRefused, NeverNotReady, CompletionQueueSuffices, PTL

(* With one queue pair the completion queue of rx_depth + 1 entries is     *)
(* just large enough (line 420): the completions that wait, and all the    *)
(* receives the HCA flushes when the send fails, have room in it.          *)
THEOREM OneQueuePairNeverOverruns ==
  ASSUME Cardinality(QPs) = 1
  PROVE  Spec => [](\A s \in Sides : ~Overrun(s))
<1>1. IInv => \A s \in Sides : ~Overrun(s)
  <2> SUFFICES ASSUME IInv, NEW s \in Sides PROVE ~Overrun(s)
    OBVIOUS
  <2>1. PICK q : QPs = {q}
    BY QPsAssumption, FS_Singleton
  <2> DEFINE n == Len(cq[s])
             m == IF Landed(s, q) THEN 1 ELSE 0
             K == IF Landed(s, q) THEN {Recv, Send} ELSE {Send}
             f == [i \in 1..n |-> cq[s][i].op]
             g == [x \in Flushed(s) |-> x[2]]
  <2>2. n \in Nat /\ batch[s] \in Nat /\ Distinct(cq[s])
    BY DEF IInv, TypeOK, BooksAgree, QueueAgrees
  <2>3. \A i \in 1..n : cq[s][i].qp = q /\ cq[s][i].op \in {Recv, Send}
    <3>1. \A i \in 1..n : cq[s][i] \in Completions
      BY DEF IInv, TypeOK
    <3> QED
      BY <2>1, <3>1 DEF Completions
  <2>4. f \in Injection(1..n, K)
    <3>1. \A i \in 1..n : cq[s][i].op \in K
      BY <2>3 DEF Landed, Unhandled, HasCqe
    <3>2. ASSUME NEW i \in 1..n, NEW j \in 1..n, f[i] = f[j] PROVE i = j
      BY <2>2, <2>3, <3>2 DEF Distinct
    <3> QED
      BY <3>1, <3>2 DEF Injection, IsInjective
  <2>5. IsFiniteSet(K) /\ Cardinality(K) = 1 + m
    <3>1. IsFiniteSet({}) /\ Cardinality({}) = 0
      BY FS_EmptySet
    <3>2. IsFiniteSet({Send}) /\ Cardinality({Send}) = 1
      BY FS_Singleton
    <3>3. Recv \notin {Send} /\ {Send} \cup {Recv} = {Recv, Send}
      BY DEF Recv, Send
    <3>4. IsFiniteSet({Recv, Send}) /\ Cardinality({Recv, Send}) = 2
      BY <3>2, <3>3, FS_AddElement
    <3> QED
      BY <3>2, <3>4
  <2>6. n <= 1 + m
    <3>1. IsFiniteSet(1..n) /\ Cardinality(1..n) = n
      BY <2>2, UpTo
    <3>2. Cardinality(1..n) <= Cardinality(K)
      BY <2>4, <2>5, FS_Injection
    <3> QED
      BY <3>1, <3>2, <2>5
  <2>7. rq[s][q] \in Nat /\ rq[s][q] + m <= RxDepth
    <3>1. q \in QPs
      BY <2>1
    <3>2. routs[s][q] = rq[s][q] + m
      BY <3>1 DEF IInv, BooksAgree, ReceivesAgree
    <3>3. routs[s][q] \in 0..RxDepth /\ rq[s][q] \in 0..RxDepth
      BY <3>1 DEF IInv, TypeOK
    <3> QED
      BY <3>2, <3>3, RxDepthAssumption
  <2>8. Cardinality(Flushed(s)) <= rq[s][q] /\ Cardinality(Flushed(s)) \in Nat
    <3>1. \A x \in Flushed(s) : x = <<q, x[2]>> /\ x[2] \in 1..rq[s][q]
      <4>1. err[s] \subseteq {q}
        BY <2>1 DEF IInv, TypeOK
      <4> QED
        BY <4>1, <2>7, RxDepthAssumption DEF Flushed
    <3>2. g \in Injection(Flushed(s), 1..rq[s][q])
      <4>1. ASSUME NEW x \in Flushed(s), NEW y \in Flushed(s), g[x] = g[y] PROVE x = y
        BY <3>1, <4>1
      <4> QED
        BY <3>1, <4>1 DEF Injection, IsInjective
    <3>3. IsFiniteSet(1..rq[s][q]) /\ Cardinality(1..rq[s][q]) = rq[s][q]
      BY <2>7, UpTo
    <3>4. IsFiniteSet(Flushed(s)) /\ Cardinality(Flushed(s)) <= rq[s][q]
      BY <3>2, <3>3, FS_Injection
    <3> QED
      BY <3>4, FS_CardinalityType
  <2> QED
    BY <2>2, <2>6, <2>7, <2>8, RxDepthAssumption DEF Overrun
<1> QED
  BY <1>1, Invariance, PTL

-----------------------------------------------------------------------------
(* What the theorems say of the counters.                                  *)

(* What the counters of both sides tell of each other, in terms of the     *)
(* completion queues: each completion waiting belongs to a queue pair of   *)
(* its own.                                                                *)
LEMMA WaitingCompletions ==
  ASSUME IInv, NEW s \in Sides
  PROVE  /\ Cardinality(Receipts(s)) = Cardinality(Landings(s))
         /\ Cardinality(SendsDone(s)) = Cardinality(Good(s))
<1>1. cq[s] \in Seq(Completions) /\ Distinct(cq[s])
  BY DEF IInv, TypeOK, BooksAgree, QueueAgrees
<1>2. \A i \in 1..Len(cq[s]) : cq[s][i] \in Completions
  BY <1>1
<1>3. \A i \in 1..Len(cq[s]) : cq[s][i].ok \in BOOLEAN
  BY <1>2 DEF Completions
<1>4. Receipts(s) = Places(cq[s], Recv, TRUE) /\ SendsDone(s) = Places(cq[s], Send, TRUE)
  BY <1>3 DEF Receipts, SendsDone, Places
<1>5. Landings(s) = Owners(cq[s], Recv, TRUE) /\ Good(s) = Owners(cq[s], Send, TRUE)
  BY SendCqe DEF Landings, Good, Owners
<1> QED
  BY <1>1, <1>4, <1>5, CountCqes

LEMMA CountsAgreeLemma == ~AckLoss /\ CInv => CountsAgree
<1> SUFFICES ASSUME ~AckLoss, CInv, NEW s \in Sides
             PROVE  /\ scnt[s] + Cardinality(SendsDone(s)) + Cardinality(AckDue(s))
                         = rcnt[Peer(s)] + Cardinality(Receipts(Peer(s)))
                    /\ rcnt[s] - rcnt[Peer(s)] <= Cardinality(QPs)
  BY DEF CountsAgree
<1>1. /\ scnt[s] + Cardinality(Good(s)) + Cardinality(AckDue(s))
           = rcnt[Peer(s)] + Cardinality(Landings(Peer(s)))
      /\ rcnt[s] - rcnt[Peer(s)] <= Cardinality(QPs)
  BY DEF CInv, Counts, SentAgainstTaken, TurnsAgree
<1>2. /\ Cardinality(SendsDone(s)) = Cardinality(Good(s))
      /\ Cardinality(Receipts(Peer(s))) = Cardinality(Landings(Peer(s)))
  BY TwoSides, WaitingCompletions DEF CInv
<1> QED
  BY <1>1, <1>2

(* Both sides count the same messages, and neither counts many more than   *)
(* iters, as long as no acknowledgement is lost.                           *)
THEOREM CountersConserved == ASSUME ~AckLoss PROVE Spec => []Conservation
<1>1. CInv => CountsAgree
  BY CountsAgreeLemma
<1>2. CInv => BoundedOvershoot
  <2> SUFFICES ASSUME CInv, NEW s \in Sides
               PROVE  /\ scnt[s] <= Iters + Cardinality(QPs) - 1
                      /\ rcnt[s] <= Iters + Cardinality(QPs) - 1
    BY DEF BoundedOvershoot
  <2> DEFINE p == Peer(s)
  <2>1. p \in Sides /\ Peer(p) = s /\ IInv
    BY TwoSides DEF CInv
  <2>2. /\ scnt[s] + Cardinality(Out(s)) <= Iters + Cardinality(QPs) - 1
        /\ scnt[p] + Cardinality(Out(p)) <= Iters + Cardinality(QPs) - 1
        /\ scnt[p] + Cardinality(Good(p)) + Cardinality(AckDue(p))
             = rcnt[s] + Cardinality(Landings(s))
    BY <2>1 DEF CInv, Counts, SendsBounded, SentAgainstTaken
  <2>3. /\ Cardinality(Good(p)) + Cardinality(AckDue(p)) <= Cardinality(Out(p))
        /\ scnt[s] \in Nat /\ scnt[p] \in Nat /\ rcnt[s] \in Nat /\ Iters \in Nat
        /\ Cardinality(Out(s)) \in Nat /\ Cardinality(Out(p)) \in Nat
        /\ Cardinality(Good(p)) \in Nat /\ Cardinality(AckDue(p)) \in Nat
        /\ Cardinality(Landings(s)) \in Nat /\ Cardinality(QPs) \in Nat
    BY <2>1, SetFacts, Cards
  <2> HIDE DEF p
  <2> QED
    BY <2>2, <2>3
<1>3. CountsAgree /\ BoundedOvershoot => Conservation
  BY DEF Conservation
<1> QED
  BY <1>1, <1>2, <1>3, CountInvariance, PTL

(* Whatever acknowledgements are lost, no side sends more than iters and   *)
(* one message per queue pair.                                             *)
THEOREM SendsAreBounded ==
  Spec => [](\A s \in Sides : scnt[s] <= Iters + Cardinality(QPs) - 1)
<1>1. CInv => \A s \in Sides : scnt[s] <= Iters + Cardinality(QPs) - 1
  <2> SUFFICES ASSUME CInv, NEW s \in Sides
               PROVE  scnt[s] <= Iters + Cardinality(QPs) - 1
    OBVIOUS
  <2>1. scnt[s] + Cardinality(Out(s)) <= Iters + Cardinality(QPs) - 1
    BY DEF CInv, Counts, SendsBounded
  <2>2. /\ scnt[s] \in Nat /\ Iters \in Nat
        /\ Cardinality(Out(s)) \in Nat /\ Cardinality(QPs) \in Nat
    BY SetFacts, Cards DEF CInv
  <2> QED
    BY <2>1, <2>2
<1> QED
  BY <1>1, CountInvariance, PTL

(* When one side has closed, the other has all it needs to close too.      *)
THEOREM NobodyStranded == ASSUME ~AckLoss PROVE Spec => []NoStranding
<1>1. CInv => NoStranding
  <2> SUFFICES ASSUME CInv, NEW s \in Sides, pc[Peer(s)] = "done"
               PROVE  /\ rcnt[s] + Cardinality(Receipts(s)) >= Iters
                      /\ scnt[s] + Cardinality(SendsDone(s)) + Cardinality(AckDue(s)) >= Iters
    BY DEF NoStranding
  <2> DEFINE p == Peer(s)
  <2>1. p \in Sides /\ Peer(p) = s /\ IInv
    BY TwoSides DEF CInv
  <2>2. rcnt[p] >= Iters /\ scnt[p] >= Iters
    BY <2>1 DEF CInv, Counts, ClosedCounted
  <2>3. /\ scnt[s] + Cardinality(SendsDone(s)) + Cardinality(AckDue(s))
             = rcnt[p] + Cardinality(Receipts(p))
        /\ scnt[p] + Cardinality(SendsDone(p)) + Cardinality(AckDue(p))
             = rcnt[s] + Cardinality(Receipts(s))
    BY <2>1, CountsAgreeLemma DEF CountsAgree
  <2>4. /\ Cardinality(SendsDone(p)) \in Nat /\ Cardinality(AckDue(p)) \in Nat
        /\ Cardinality(Receipts(p)) \in Nat
        /\ scnt[p] \in Nat /\ rcnt[p] \in Nat /\ Iters \in Nat
    BY <2>1, SetFacts, Cards, WaitingCompletions
  <2> HIDE DEF p
  <2> QED
    BY <2>2, <2>3, <2>4
<1> QED
  BY <1>1, CountInvariance, PTL

(* A failed completion is seen only by a side whose peer failed, when no   *)
(* acknowledgement is lost and the retry timer is patient.                 *)
THEOREM BadStatusExplained ==
  ASSUME ~AckLoss, PatientRetry PROVE Spec => []BadStatusMeansPeerFailed
<1>1. CInv => BadStatusMeansPeerFailed
  BY DEF CInv, Counts, BrokenPeerGone, CleanClose, BadStatusMeansPeerFailed, Alive
<1> QED
  BY <1>1, CountInvariance, PTL

-----------------------------------------------------------------------------
(* The refinement of Rally.                                                *)

At(s)      == IF s = "client" THEN "atClient" ELSE "atServer"
To(s)      == IF s = "client" THEN "toClient" ELSE "toServer"
StateOf(s) == IF Alive(s) THEN "playing" ELSE IF pc[s] = "done" THEN "done" ELSE "failed"

(* Where the ball is, said in terms of the two sides.                      *)
OnItsWay(s, q) == Flying(Peer(s), q) \/ Landed(s, q)

LEMMA BallPlace ==
  ASSUME IInv, NEW q \in QPs
  PROVE  /\ \A s \in Sides : /\ Holds(s, q) <=> Ball(q) = At(s)
                             /\ OnItsWay(s, q) <=> Ball(q) = To(s)
         /\ (\A s \in Sides : ~Holds(s, q) /\ ~OnItsWay(s, q)) <=> Ball(q) = "lost"
<1>1. Peer("client") = "server" /\ Peer("server") = "client"
  BY DEF Peer
<1>2. /\ Holds("client", q) => ~Holds("server", q)
      /\ \A s \in Sides : Holds(s, q) => \A t \in Sides : ~Flying(t, q) /\ ~Landed(t, q)
      /\ \A s \in Sides : Flying(s, q) => \A t \in Sides : ~Landed(t, q)
      /\ Flying("client", q) => ~Flying("server", q)
      /\ Landed("client", q) => ~Landed("server", q)
  BY <1>1, TwoSides DEF IInv, OneBall
<1>3. CASE \E s \in Sides : Holds(s, q)
  <2>1. Ball(q) = IF Holds("client", q) THEN "atClient" ELSE "atServer"
    BY <1>2, <1>3 DEF Ball
  <2> QED
    BY <1>1, <1>2, <1>3, <2>1, TwoSides DEF At, To, OnItsWay
<1>4. CASE \E s \in Sides : Flying(s, q)
  <2>1. Ball(q) = IF Flying("client", q) THEN "toServer" ELSE "toClient"
    BY <1>2, <1>4 DEF Ball
  <2> QED
    BY <1>1, <1>2, <1>4, <2>1, TwoSides DEF At, To, OnItsWay
<1>5. CASE \E s \in Sides : Landed(s, q)
  <2>1. Ball(q) = IF Landed("client", q) THEN "toClient" ELSE "toServer"
    BY <1>2, <1>5 DEF Ball
  <2> QED
    BY <1>1, <1>2, <1>5, <2>1, TwoSides DEF At, To, OnItsWay
<1>6. CASE \A s \in Sides : ~Holds(s, q) /\ ~Flying(s, q) /\ ~Landed(s, q)
  <2>1. Ball(q) = "lost"
    BY <1>6 DEF Ball
  <2> QED
    BY <1>6, <2>1, TwoSides DEF At, To, OnItsWay
<1> QED
  BY <1>3, <1>4, <1>5, <1>6

(* The steps of the rally, in terms of Ball, rcnt and StateOf.             *)
StateKept == \A s \in Sides : StateOf(s)' = StateOf(s)
BallKept  == \A q \in QPs : Ball(q)' = Ball(q)
BallTo(q, place) == Ball(q)' = place /\ \A r \in QPs : r # q => Ball(r)' = Ball(r)

LEMMA RallyStutter ==
  ASSUME StateKept, BallKept, rcnt' = rcnt PROVE UNCHANGED Abstract!vars
BY DEF StateKept, BallKept, StateOf, Abstract!vars

LEMMA RallyHit ==
  ASSUME NEW s \in Sides, NEW q \in QPs, StateKept, rcnt' = rcnt,
         StateOf(s) = "playing", Ball(q) = At(s), BallTo(q, To(Peer(s)))
  PROVE  Abstract!Next
<1>1. Abstract!Hit(s, q)
  BY DEF StateKept, StateOf, BallTo, At, To, Peer,
         Abstract!Hit, Abstract!At, Abstract!To, Abstract!Other
<1> QED
  BY <1>1 DEF Abstract!Next, Abstract!Sides, Sides

LEMMA RallyCatch ==
  ASSUME NEW s \in Sides, NEW q \in QPs, StateKept, rcnt' = [rcnt EXCEPT ![s] = @ + 1],
         StateOf(s) = "playing", Ball(q) = To(s),
         BallTo(q, At(s)) \/ BallTo(q, To(Peer(s)))
  PROVE  Abstract!Next
<1>1. Abstract!Catch(s, q)
  <2>1. StateKept /\ StateOf(s) = "playing" /\ Ball(q) = To(s)
    OBVIOUS
  <2>2. ASSUME NEW place \in {At(s), To(Peer(s))}, BallTo(q, place)
        PROVE  Abstract!Catch(s, q)
    BY <2>1, <2>2
       DEF StateKept, StateOf, BallTo, At, To, Peer,
           Abstract!Catch, Abstract!At, Abstract!To, Abstract!Other
  <2> QED
    BY <2>2
<1> QED
  BY <1>1 DEF Abstract!Next, Abstract!Sides, Sides

LEMMA RallyLose ==
  ASSUME NEW s \in Sides, NEW q \in QPs, StateKept, rcnt' = rcnt,
         StateOf(s) # "playing", Ball(q) = To(s), BallTo(q, "lost")
  PROVE  Abstract!Next
<1>1. Abstract!Lose(s, q)
  BY DEF StateKept, StateOf, BallTo, To, Abstract!Lose, Abstract!To
<1> QED
  BY <1>1 DEF Abstract!Next, Abstract!Sides, Sides

LEMMA RallyServe ==
  ASSUME StateKept, rcnt' = rcnt, StateOf("client") = "playing",
         \A q \in QPs : Ball(q) = At("client") /\ Ball(q)' = To("server")
  PROVE  Abstract!Next
<1>1. Abstract!Serve
  BY TwoSides DEF StateKept, StateOf, At, To, Abstract!Serve, Abstract!At, Abstract!To
<1> QED
  BY <1>1 DEF Abstract!Next

LEMMA RallyLeave ==
  ASSUME NEW s \in Sides, BallKept, rcnt' = rcnt,
         StateOf(s) = "playing", StateOf(s)' = "done",
         \A t \in Sides : t # s => StateOf(t)' = StateOf(t),
         rcnt[s] >= Iters,
         rcnt[Peer(s)] + Cardinality({q \in QPs : Ball(q) = To(Peer(s))}) >= Iters
  PROVE  Abstract!Next
<1>1. Abstract!Leave(s)
  <2>1. {q \in QPs : [r \in QPs |-> Ball(r)][q] = Abstract!To(Abstract!Other(s))}
          = {q \in QPs : Ball(q) = To(Peer(s))}
    BY DEF Abstract!To, Abstract!Other, To, Peer
  <2>2. Peer(s) = Abstract!Other(s)
    BY DEF Abstract!Other, Peer
  <2>3. \A S : Abstract!Cardinality(S) = Cardinality(S)
    BY DEF Abstract!Cardinality, Cardinality
  <2>4. rcnt[Abstract!Other(s)]
          + Abstract!Cardinality({q \in QPs : [r \in QPs |-> Ball(r)][q]
                                                = Abstract!To(Abstract!Other(s))})
          >= Iters
    BY <2>1, <2>2, <2>3
  <2> QED
    BY <2>4 DEF BallKept, StateOf, Abstract!Leave
<1> QED
  BY <1>1 DEF Abstract!Next, Abstract!Sides, Sides

LEMMA RallyQuit ==
  ASSUME NEW s \in Sides, BallKept, rcnt' = rcnt,
         StateOf(s) = "playing", StateOf(s)' = "failed",
         \A t \in Sides : t # s => StateOf(t)' = StateOf(t),
         \/ s \in Faulty
         \/ StateOf(Peer(s)) = "failed"
         \/ StateOf(Peer(s)) = "done" /\ (AckLoss \/ ~PatientRetry)
  PROVE  Abstract!Next
<1>1. Abstract!Quit(s)
  <2>1. Peer(s) = Abstract!Other(s) /\ Peer(s) \in Sides
    BY TwoSides DEF Abstract!Other, Peer
  <2> QED
    BY <2>1 DEF BallKept, StateOf, Abstract!Quit
<1> QED
  BY <1>1 DEF Abstract!Next, Abstract!Sides, Sides

(* The place of the balls, of all queue pairs, and after a step.           *)
Placed(q) ==
  /\ \A s \in Sides : /\ Holds(s, q) <=> Ball(q) = At(s)
                      /\ OnItsWay(s, q) <=> Ball(q) = To(s)
  /\ (\A s \in Sides : ~Holds(s, q) /\ ~OnItsWay(s, q)) <=> Ball(q) = "lost"
AllPlaced == \A q \in QPs : Placed(q)

LEMMA BallsPlaced == IInv => AllPlaced
BY BallPlace DEF AllPlaced, Placed

LEMMA BallsPlacedNext == IInv' => AllPlaced'
BY BallsPlaced, PTL

(* A ball that no side takes, receives or sends stays.                     *)
LEMMA BallStays ==
  ASSUME IInv, IInv', NEW q \in QPs,
         \A s \in Sides : (Holds(s, q)' <=> Holds(s, q)) /\ (OnItsWay(s, q)' <=> OnItsWay(s, q))
  PROVE  Ball(q)' = Ball(q)
<1>1. Placed(q) /\ Placed(q)'
  BY BallsPlaced, BallsPlacedNext DEF AllPlaced
<1>2. CASE \E s \in Sides : Holds(s, q)
  BY <1>1, <1>2 DEF Placed, At
<1>3. CASE \E s \in Sides : OnItsWay(s, q)
  BY <1>1, <1>3 DEF Placed, To
<1>4. CASE \A s \in Sides : ~Holds(s, q) /\ ~OnItsWay(s, q)
  BY <1>1, <1>4 DEF Placed
<1> QED
  BY <1>2, <1>3, <1>4

-----------------------------------------------------------------------------
(* Each action of the loop and of the fabric, as a step of the rally.      *)
Mapped == Abstract!Next \/ UNCHANGED Abstract!vars

LEMMA StartMapped == ASSUME IInv, IInv', NEW s \in Sides, Start(s) PROVE Mapped
<1>1. /\ pc[s] = "start" /\ pc'[s] = "run" /\ \A t \in Sides : t # s => pc'[t] = pc[t]
      /\ rcnt' = rcnt
  BY DEF Start, IInv, TypeOK
<1>2. StateKept /\ StateOf(s) = "playing"
  BY <1>1 DEF StateKept, StateOf, Alive
<1>3. \A t \in Sides, q \in QPs :
        /\ Holds(t, q)' <=> Holds(t, q) /\ t # s
        /\ Flying(t, q)' <=> Flying(t, q) \/ (t = s /\ s = "client")
        /\ Landed(t, q)' <=> Landed(t, q)
        /\ Holds(s, q) <=> s = "client"
  BY StartMoves
<1>4. CASE s = "client"
  <2>1. ASSUME NEW q \in QPs PROVE Ball(q) = At("client") /\ Ball(q)' = To("server")
    <3>1. Placed(q) /\ Placed(q)'
      BY BallsPlaced, BallsPlacedNext DEF AllPlaced
    <3>2. Holds("client", q) /\ OnItsWay("server", q)'
      BY <1>3, <1>4, TwoSides DEF OnItsWay, Peer
    <3> QED
      BY <3>1, <3>2, TwoSides DEF Placed
  <2> QED
    BY <1>1, <1>2, <1>4, <2>1, RallyServe DEF Mapped
<1>5. CASE s # "client"
  <2>1. BallKept
    BY <1>3, <1>5, BallStays, TwoSides DEF BallKept, OnItsWay
  <2> QED
    BY <1>1, <1>2, <2>1, RallyStutter DEF Mapped
<1> QED
  BY <1>4, <1>5

(* Steps that move no message at all.                                      *)
LEMMA NothingMoves ==
  ASSUME UNCHANGED <<pc, loopVars, hcaVars>> PROVE UNCHANGED Abstract!vars
<1>1. StateKept /\ rcnt' = rcnt
  BY DEF StateKept, StateOf, Alive, loopVars
<1>2. BallKept
  BY DEF BallKept, Ball, Holds, Flying, Landed, Unhandled, loopVars, hcaVars
<1> QED
  BY <1>1, <1>2, RallyStutter

LEMMA PollFailsMapped ==
  ASSUME CInv, Errors, IInv', NEW s \in Sides, PollFails(s) PROVE Mapped
<1> DEFINE p == Peer(s)
<1>0. IInv
  BY DEF CInv
<1>1. /\ pc[s] = "run" /\ pc'[s] = "pollFailed"
      /\ \A t \in Sides : t # s => pc'[t] = pc[t]
      /\ rcnt' = rcnt /\ UNCHANGED <<pending, cq, sq>>
  BY <1>0 DEF PollFails, loopVars, hcaVars, IInv, TypeOK
<1>2. /\ StateOf(s) = "playing" /\ StateOf(s)' = "failed"
      /\ \A t \in Sides : t # s => StateOf(t)' = StateOf(t)
  BY <1>1 DEF StateOf, Alive
<1>3. BallKept
  BY <1>0, <1>1, BallStays DEF BallKept, OnItsWay, Holds, Flying, Landed, Unhandled
<1>4. CASE s \in Faulty
  BY <1>1, <1>2, <1>3, <1>4, RallyQuit DEF Mapped
<1>5. CASE Overrun(s)
  <2>1. err[s] # {} /\ ~Alive(p)
    BY <1>0, <1>5, CqFitsLemma DEF CqFits
  <2>2. Broken(s) # {}
    BY <1>1, <2>1 DEF Errors, Alive
  <2>3. pc[p] = "done" => AckLoss \/ ~PatientRetry
    BY <2>2 DEF PollFails, CInv, Counts, CleanClose
  <2>4. StateOf(p) = "failed" \/ (StateOf(p) = "done" /\ (AckLoss \/ ~PatientRetry))
    BY <2>1, <2>3 DEF StateOf
  <2> QED
    BY <1>1, <1>2, <1>3, <2>4, RallyQuit DEF Mapped
<1> QED
  BY <1>4, <1>5 DEF PollFails

LEMMA CloseMapped == ASSUME CInv, IInv', NEW s \in Sides, Close(s) PROVE Mapped
<1> DEFINE p == Peer(s)
           W == {q \in QPs : Ball(q) = To(p)}
<1>1. /\ pc[s] = "run" /\ pc'[s] = "done" /\ ~LoopGoesOn(s)
      /\ \A t \in Sides : t # s => pc'[t] = pc[t]
      /\ rcnt' = rcnt /\ UNCHANGED <<pending, cq, sq>>
  BY DEF Close, loopVars, hcaVars, CInv, IInv, TypeOK
<1>2. /\ StateOf(s) = "playing" /\ StateOf(s)' = "done"
      /\ \A t \in Sides : t # s => StateOf(t)' = StateOf(t)
  BY <1>1 DEF StateOf, Alive
<1>3. BallKept
  BY <1>1, BallStays DEF CInv, BallKept, OnItsWay, Holds, Flying, Landed, Unhandled
<1>4. p \in Sides /\ IInv
  BY TwoSides DEF CInv
<1>5. Landings(p) \in SUBSET W
  BY <1>4, BallsPlaced DEF AllPlaced, Placed, OnItsWay, Landings
<1>6. W \in SUBSET QPs
  OBVIOUS
<1> HIDE DEF W
<1>7. Cardinality(Landings(p)) <= Cardinality(W) /\ Cardinality(W) \in Nat
      /\ Cardinality(Landings(p)) \in Nat
  BY <1>4, <1>5, <1>6, Cards, SetFacts
<1>8. /\ rcnt[s] \in Nat /\ scnt[s] \in Nat /\ rcnt[p] \in Nat /\ Iters \in Nat
      /\ Cardinality(Good(s)) \in Nat /\ Cardinality(AckDue(s)) \in Nat
  BY <1>4, SetFacts, Cards
<1>9. scnt[s] + Cardinality(Good(s)) + Cardinality(AckDue(s))
        <= rcnt[p] + Cardinality(Landings(p))
  BY DEF CInv, Counts, SentAgainstTaken
<1>10. rcnt[s] >= Iters /\ scnt[s] >= Iters
  BY <1>1, <1>8 DEF LoopGoesOn
<1>11. rcnt[p] + Cardinality(W) >= Iters
  BY <1>7, <1>8, <1>9, <1>10
<1>12. rcnt[p] + Cardinality({q \in QPs : Ball(q) = To(p)}) >= Iters
  BY <1>11 DEF W
<1> QED
  BY <1>1, <1>2, <1>3, <1>10, <1>12, RallyLeave DEF Mapped

LEMMA HandleBadStatusMapped ==
  ASSUME CInv, IInv', NEW s \in Sides, HandleBadStatus(s) PROVE Mapped
<1> DEFINE p == Peer(s)
           c == NextCompletion(s)
<1>1. /\ IInv /\ Handling(s) /\ Consume(s) /\ ~c.ok /\ batch[s] > 0
      /\ pc[s] = "run" /\ pc'[s] = "badStatus" /\ \A t \in Sides : t # s => pc'[t] = pc[t]
      /\ rcnt' = rcnt
  BY DEF HandleBadStatus, Handling, loopVars, CInv, IInv, TypeOK
<1>2. /\ StateOf(s) = "playing" /\ StateOf(s)' = "failed"
      /\ \A t \in Sides : t # s => StateOf(t)' = StateOf(t)
  BY <1>1 DEF StateOf, Alive
<1>3. BallKept
  BY <1>1, HandleBadStatusMoves, BallStays, TwoSides DEF BallKept, OnItsWay
<1>4. Broken(s) # {}
  <2>1. c \in Completions /\ c.op = Send
    BY <1>1, ConsumeFacts
  <2>2. c.ok = FALSE /\ c.qp \in QPs
    BY <1>1, <2>1 DEF Completions
  <2>3. HasWc(cq[s], c.qp, c.op, c.ok)
    BY <1>1, ConsumeWc
  <2>4. c.qp \in Broken(s)
    BY <2>1, <2>2, <2>3 DEF Broken
  <2> QED
    BY <2>4
<1>5. ~Alive(p)
  BY <1>4 DEF CInv, Counts, BrokenPeerGone
<1>6. pc[p] = "done" => AckLoss \/ ~PatientRetry
  <2>1. pc[p] = "done" /\ ~AckLoss /\ PatientRetry => batch[s] = 0
    BY <1>4 DEF CInv, Counts, CleanClose
  <2> QED
    BY <1>1, <2>1
<1>7. StateOf(p) = "failed" \/ (StateOf(p) = "done" /\ (AckLoss \/ ~PatientRetry))
  BY <1>5, <1>6 DEF StateOf
<1> QED
  BY <1>1, <1>2, <1>3, <1>7, RallyQuit DEF Mapped

LEMMA HandleSendMapped ==
  ASSUME IInv, IInv', NEW s \in Sides, HandleSend(s) PROVE Mapped
<1> DEFINE p == Peer(s)
<1>0. PICK q : q = NextCompletion(s).qp
  OBVIOUS
<1>1. q \in QPs /\ pc[s] = "run" /\ pc' = pc /\ rcnt' = rcnt
  BY <1>0, HandleSendFacts
<1>2. StateKept /\ StateOf(s) = "playing"
  BY <1>1 DEF StateKept, StateOf, Alive
<1>3. /\ \A t \in Sides, r \in QPs :
           /\ Landed(t, r)' <=> Landed(t, r)
           /\ ~(t = s /\ r = q) => /\ Holds(t, r)' <=> Holds(t, r)
                                   /\ Flying(t, r)' <=> Flying(t, r)
      /\ \/ /\ Holds(s, q)' <=> Holds(s, q)
            /\ ~Flying(s, q)' /\ ~Flying(s, q)
         \/ Holds(s, q) /\ ~Holds(s, q)' /\ Flying(s, q)'
  BY <1>0, HandleSendMoves
<1>4. \A r \in QPs : r # q => Ball(r)' = Ball(r)
  BY <1>3, BallStays, TwoSides DEF OnItsWay
<1>5. CASE (Holds(s, q)' <=> Holds(s, q)) /\ ~Flying(s, q)' /\ ~Flying(s, q)
  <2>1. Ball(q)' = Ball(q)
    BY <1>1, <1>3, <1>5, BallStays, TwoSides DEF OnItsWay
  <2> QED
    BY <1>1, <1>2, <1>4, <2>1, RallyStutter DEF Mapped, BallKept
<1>6. CASE Holds(s, q) /\ ~Holds(s, q)' /\ Flying(s, q)'
  <2>1. Placed(q) /\ Placed(q)'
    BY <1>1, BallsPlaced, BallsPlacedNext DEF AllPlaced
  <2>2. OnItsWay(p, q)'
    BY <1>6, TwoSides DEF OnItsWay
  <2>3. Ball(q) = At(s) /\ Ball(q)' = To(p)
    BY <1>6, <2>1, <2>2, TwoSides DEF Placed
  <2> QED
    BY <1>1, <1>2, <1>4, <2>3, RallyHit DEF Mapped, BallTo
<1> QED
  BY <1>3, <1>5, <1>6

LEMMA HandleRecvMapped ==
  ASSUME IInv, IInv', NEW s \in Sides, HandleRecv(s) PROVE Mapped
<1> DEFINE p == Peer(s)
<1>0. PICK q : q = NextCompletion(s).qp
  OBVIOUS
<1>1. q \in QPs /\ pc[s] = "run" /\ pc' = pc /\ rcnt' = [rcnt EXCEPT ![s] = @ + 1]
  BY <1>0, HandleRecvFacts
<1>2. StateKept /\ StateOf(s) = "playing"
  BY <1>1 DEF StateKept, StateOf, Alive
<1>3. /\ Landed(s, q)
      /\ \A t \in Sides, r \in QPs :
           /\ Landed(t, r)' <=> Landed(t, r) /\ ~(t = s /\ r = q)
           /\ ~(t = s /\ r = q) => /\ Holds(t, r)' <=> Holds(t, r)
                                   /\ Flying(t, r)' <=> Flying(t, r)
      /\ Holds(s, q)' \/ Flying(s, q)'
  BY <1>0, HandleRecvMoves
<1>4. \A r \in QPs : r # q => Ball(r)' = Ball(r)
  BY <1>3, BallStays, TwoSides DEF OnItsWay
<1>5. Placed(q) /\ Placed(q)'
  BY <1>1, BallsPlaced, BallsPlacedNext DEF AllPlaced
<1>6. Ball(q) = To(s)
  BY <1>3, <1>5 DEF Placed, OnItsWay
<1>7. CASE Holds(s, q)'
  <2>1. Ball(q)' = At(s)
    BY <1>5, <1>7 DEF Placed
  <2> QED
    BY <1>1, <1>2, <1>4, <1>6, <2>1, RallyCatch DEF Mapped, BallTo
<1>8. CASE Flying(s, q)'
  <2>1. OnItsWay(p, q)'
    BY <1>8, TwoSides DEF OnItsWay
  <2>2. Ball(q)' = To(p)
    BY <1>5, <2>1, TwoSides DEF Placed
  <2> QED
    BY <1>1, <1>2, <1>4, <1>6, <2>2, RallyCatch DEF Mapped, BallTo
<1> QED
  BY <1>3, <1>7, <1>8

LEMMA DeliverMapped ==
  ASSUME IInv, IInv', NEW s \in Sides, NEW q \in QPs, Deliver(s, q) PROVE Mapped
<1>1. pc' = pc /\ rcnt' = rcnt
  BY DEF Deliver, loopVars
<1>2. StateKept
  BY <1>1 DEF StateKept, StateOf, Alive
<1>3. /\ Flying(s, q) /\ ~Flying(Peer(s), q) /\ ~Landed(Peer(s), q)
      /\ \A t \in Sides, r \in QPs :
           /\ Holds(t, r)' <=> Holds(t, r)
           /\ Flying(t, r)' <=> Flying(t, r) /\ ~(t = s /\ r = q)
           /\ Landed(t, r)' <=> Landed(t, r) \/ (t = Peer(s) /\ r = q)
  BY DeliverMoves
<1>4. BallKept
  <2>1. ASSUME NEW t \in Sides, NEW r \in QPs PROVE OnItsWay(t, r)' <=> OnItsWay(t, r)
    BY <1>3, TwoSides DEF OnItsWay
  <2> QED
    BY <1>3, <2>1, BallStays DEF BallKept
<1> QED
  BY <1>1, <1>2, <1>4, RallyStutter DEF Mapped

LEMMA CompleteSendMapped ==
  ASSUME IInv, IInv', NEW s \in Sides, NEW q \in QPs,
         Acknowledge(s, q) \/ RetryExceeded(s, q)
  PROVE  Mapped
<1> DEFINE p == Peer(s)
<1>1. pc' = pc /\ rcnt' = rcnt
  BY DEF Acknowledge, RetryExceeded, loopVars
<1>2. StateKept
  BY <1>1 DEF StateKept, StateOf, Alive
<1>3. \A t \in Sides, r \in QPs :
        /\ Holds(t, r)' <=> Holds(t, r)
        /\ Flying(t, r)' <=> Flying(t, r) /\ ~(t = s /\ r = q)
        /\ Landed(t, r)' <=> Landed(t, r)
  BY CompleteSendMoves
<1>4. CASE ~Flying(s, q)
  <2>1. BallKept
    BY <1>3, <1>4, BallStays, TwoSides DEF BallKept, OnItsWay
  <2> QED
    BY <1>1, <1>2, <2>1, RallyStutter DEF Mapped
<1>5. CASE Flying(s, q)
  <2>1. p \in Sides /\ ~Alive(p)
    BY <1>5, TwoSides DEF Acknowledge, RetryExceeded, Flying
  <2>2. StateOf(p) # "playing"
    BY <2>1 DEF StateOf
  <2>3. Placed(q) /\ Placed(q)'
    BY BallsPlaced, BallsPlacedNext DEF AllPlaced
  <2>4. Ball(q) = To(p)
    BY <1>5, <2>1, <2>3, TwoSides DEF Placed, OnItsWay
  <2>5. \A t \in Sides : ~Holds(t, q) /\ (Flying(t, q) => t = s) /\ ~Landed(t, q)
    BY <1>5, TwoSides DEF IInv, OneBall
  <2>6. \A t \in Sides : ~Holds(t, q)' /\ ~OnItsWay(t, q)'
    BY <1>3, <2>5, TwoSides DEF OnItsWay
  <2>7. Ball(q)' = "lost"
    BY <2>3, <2>6 DEF Placed
  <2>8. \A r \in QPs : r # q => Ball(r)' = Ball(r)
    BY <1>3, BallStays, TwoSides DEF OnItsWay
  <2> QED
    BY <1>1, <1>2, <2>1, <2>2, <2>4, <2>7, <2>8, RallyLose DEF Mapped, BallTo
<1> QED
  BY <1>4, <1>5

LEMMA StepMapped ==
  CInv /\ Errors /\ CInv' /\ [Next]_vars => [Abstract!Next]_(Abstract!vars)
<1> SUFFICES ASSUME CInv, Errors, IInv', [Next]_vars PROVE Mapped
  BY DEF Mapped, CInv
<1>0. IInv
  BY DEF CInv
<1>1. ASSUME NEW s \in Sides, Program(s) PROVE Mapped
  <2>1. CASE Poll(s)
    BY <2>1, NothingMoves DEF Poll, Mapped
  <2> QED
    BY <1>0, <1>1, <2>1, StartMapped, PollFailsMapped, CloseMapped, HandleBadStatusMapped,
       HandleSendMapped, HandleRecvMapped DEF Program
<1>2. ASSUME NEW s \in Sides, NEW q \in QPs, Fabric(s, q) PROVE Mapped
  BY <1>0, <1>2, DeliverMapped, CompleteSendMapped DEF Fabric
<1>3. CASE UNCHANGED vars
  BY <1>3, NothingMoves DEF Mapped, vars
<1>4. CASE Settled
  BY <1>4, <1>3 DEF Settled
<1> QED
  BY <1>1, <1>2, <1>3, <1>4 DEF Next

LEMMA InitMapped == Init => Abstract!Init
<1> SUFFICES ASSUME Init PROVE Abstract!Init
  OBVIOUS
<1>1. IInv
  BY InitIInv
<1>2. ASSUME NEW q \in QPs PROVE Ball(q) = At("client")
  <2>1. Holds("client", q)
    BY TwoSides DEF Init, Holds
  <2> QED
    BY <1>1, <2>1, BallsPlaced, TwoSides DEF AllPlaced, Placed
<1>3. \A s \in Sides : Alive(s) /\ rcnt[s] = 0 /\ rcnt = [t \in Sides |-> 0]
  BY DEF Init, Alive
<1> QED
  BY <1>2, <1>3, TwoSides DEF Abstract!Init, Abstract!Sides, Abstract!At, At, Sides

(* The measured loop, with its queues, batches, pending bits and counters  *)
(* (lines 728 to 801), implements the rally, for every number of queue     *)
(* pairs and of iterations: every step of either process and of the fabric *)
(* is a step of the rally or leaves it unchanged.                          *)
THEOREM LoopImplementsRally == Spec => ImplementsRally
<1>1. Init => Abstract!Init
  BY InitMapped
<1>2. CInv /\ Errors /\ CInv' /\ [Next]_vars => [Abstract!Next]_(Abstract!vars)
  BY StepMapped
<1> QED
  BY <1>1, <1>2, ErrorsExplained, PTL DEF Spec, ImplementsRally, Abstract!Spec
=============================================================================
