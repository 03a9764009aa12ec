--------------------------- MODULE RcPingPongProofs ---------------------------
(***************************************************************************)
(* Proofs about RcPingPong for every number of iterations and every receive *)
(* depth, for polling and sleeping, whatever call of either program fails: *)
(* the invariants the runs check, and that the example implements the      *)
(* rally.                                                                  *)
(***************************************************************************)
EXTENDS RcPingPong, FiniteSetTheorems, SequenceTheorems, TLAPS

-----------------------------------------------------------------------------
(* The inductive invariant.                                                *)

(* Completions come at most once of each kind, and receives never fail.    *)
HasOp(q, o) == \E j \in DOMAIN q : q[j].op = o
HasBad(q)   == \E j \in DOMAIN q : ~q[j].ok
Few(q) ==
  /\ q \in Seq(Completions) /\ Len(q) <= 2
  /\ \A j, l \in DOMAIN q : q[j].op = q[l].op => j = l
  /\ \A j \in DOMAIN q : q[j].op = Recv => q[j].ok

(* What is completed and not yet handled.                                  *)
Due(s, o) == HasOp(wc[s], o) \/ HasOp(cq[s], o)
Bad(s)    == HasBad(wc[s]) \/ HasBad(cq[s])
Out(s)    == sq[s] # "idle" \/ Due(s, Send)
One(b)    == IF b THEN 1 ELSE 0

(* The way of each program to its loop, up to and from pp_connect_ctx.     *)
Early(s) ==
  IF s = "server" THEN {"listen", "accept", "readAddr", "connectQp"}
                  ELSE {"connect", "writeAddr", "readAddr", "writeDone", "connectQp"}
Linked(s) == IF s = "server" THEN {"writeAddr", "readDone", "begin"} ELSE {"begin"}
LeftLoop  == {"close", "exit0", "closeFailed"}

Types ==
  /\ opt \in [event : [Sides -> BOOLEAN], depth : RxDepths, faulty : BOOLEAN]
  /\ pc \in [Sides -> SettingUp \cup Looping \cup {"close"} \cup Exits]
  /\ held \in [Sides -> SUBSET Things]
  /\ sock \in [Sides -> {"none", "open", "closed"}]
  /\ listening \in BOOLEAN
  /\ inbox \in [Sides -> Seq({"addr", "done"})]
  /\ pending \in [Sides -> SUBSET {Recv, Send}]
  /\ routs \in [Sides -> Nat] /\ rcnt \in [Sides -> Nat] /\ scnt \in [Sides -> Nat]
  /\ wc \in [Sides -> Seq(Completions)]
  /\ cq \in [Sides -> Seq(Completions)]
  /\ got \in [Sides -> Nat] /\ events \in [Sides -> Nat] /\ acked \in [Sides -> Nat]
  /\ qp \in [Sides -> {"none", "init", "ready", "gone"}]
  /\ rq \in [Sides -> Nat]
  /\ sq \in [Sides -> {"idle", "wire", "arrived"}]
  /\ armed \in [Sides -> BOOLEAN]

(* Where a process is and what has become of its queue pair.               *)
Stage(s) ==
  /\ pc[s] \in {"open", "prepare"} \cup Early(s) \cup Linked(s) \cup Looping \cup {"close"} \cup Exits
  /\ pc[s] = "open" => /\ qp[s] = "none" /\ IsFiniteSet(held[s])
                       /\ Cardinality(held[s]) < Len(OpenOrder(opt.event[s]))
  /\ pc[s] \in {"prepare"} \cup Early(s) => qp[s] = "init"
  /\ pc[s] \in Linked(s) \cup Looping => qp[s] = "ready"
  /\ pc[s] = "close" => qp[s] \in {"ready", "gone"}
  /\ pc[s] \in Exits => qp[s] = "gone"
  /\ "qp" \in held[s] <=> qp[s] \in {"init", "ready"}
  /\ pc[s] \in LeftLoop => rcnt[s] >= Iters

(* Before the loop nothing is sent or handled.                             *)
Untouched(s) ==
  /\ ~Started(s) => /\ pending[s] = {} /\ wc[s] = <<>> /\ sq[s] = "idle"
                    /\ rcnt[s] = 0 /\ scnt[s] = 0 /\ ~HasOp(cq[s], Send)
  /\ pc[s] \in {"open", "prepare"} \cup Early(s) => cq[s] = <<>>

(* The bit of the send is set as long as it is not complete and handled.   *)
Posted(s) ==
  /\ Few(wc[s]) /\ Few(cq[s])
  /\ \A o \in {Recv, Send} : ~ (HasOp(wc[s], o) /\ HasOp(cq[s], o))
  /\ Send \in pending[s] <=> Out(s)
  /\ ~ (sq[s] # "idle" /\ Due(s, Send))
  /\ pc[s] \in {"arm", "poll"} => wc[s] = <<>>

(* routs counts the receives posted and the completions of receives.       *)
Receives(s) ==
  pc[s] \in Early(s) \cup Linked(s) \cup Looping =>
    /\ routs[s] >= 1 /\ routs[s] <= opt.depth[s]
    /\ routs[s] = rq[s] + One(Due(s, Recv))

(* A completion since the last request has raised an event.                *)
Wakeups(s) ==
  /\ events[s] <= 1 /\ (armed[s] => events[s] = 0)
  /\ pc[s] \in {"open", "prepare"} \/ ~opt.event[s] => ~armed[s] /\ events[s] = 0
  /\ opt.event[s] /\ pc[s] \in Early(s) \cup Linked(s) \cup {"loop"} =>
       /\ armed[s] => cq[s] = <<>>
       /\ ~armed[s] => events[s] = 1
  /\ pc[s] = "arm" => opt.event[s] /\ ~armed[s] /\ events[s] = 0
  /\ pc[s] = "poll" => opt.event[s] /\ (~armed[s] => events[s] = 1)

Own(s) == Stage(s) /\ Untouched(s) /\ Posted(s) /\ Receives(s) /\ Wakeups(s)

(* The message is in one place.                                            *)
Apart(s) ==
  /\ Has(s) => ~Has(Peer(s)) /\ sq[s] # "wire" /\ sq[Peer(s)] # "wire"
                 /\ ~Due(s, Recv) /\ ~Due(Peer(s), Recv)
  /\ sq[s] = "wire" => sq[Peer(s)] # "wire" /\ ~Due(s, Recv) /\ ~Due(Peer(s), Recv)
  /\ Due(s, Recv) => ~Due(Peer(s), Recv)

(* What one side has sent and the other taken in.                          *)
Tally(s) ==
  /\ rcnt[Peer(s)] + One(sq[s] = "wire") + One(Due(Peer(s), Recv))
       = scnt[s] + One(Out(s) /\ ~Bad(s))
  /\ scnt[s] + One(Out(s)) <= Iters

(* The client has an address only of a queue pair that is connected.       *)
Meeting ==
  inbox["client"] # <<>> \/ pc["client"] \in {"writeDone", "connectQp", "begin"} \/ Started("client")
    => qp["server"] \in {"ready", "gone"}

Listens == listening <=> pc["server"] = "accept"

(* The exchange of addresses when nothing fails.                           *)
Dialogue ==
  LET c == pc["client"]
      v == pc["server"]
      none == inbox["client"] = <<>> /\ inbox["server"] = <<>>
      open == sock["client"] = "open" /\ sock["server"] = "open"
  IN  \/ /\ c \in {"open", "prepare", "connect"} /\ v \in {"open", "prepare", "listen", "accept"}
         /\ none /\ sock["client"] = "none" /\ sock["server"] = "none"
      \/ c = "writeAddr" /\ v \in {"accept", "readAddr"} /\ none /\ open
      \/ /\ c = "readAddr" /\ v \in {"accept", "readAddr"} /\ open
         /\ inbox["client"] = <<>> /\ inbox["server"] = <<"addr">>
      \/ c = "readAddr" /\ v \in {"connectQp", "writeAddr"} /\ none /\ open
      \/ /\ c = "readAddr" /\ v = "readDone" /\ open
         /\ inbox["client"] = <<"addr">> /\ inbox["server"] = <<>>
      \/ c = "writeDone" /\ v = "readDone" /\ none /\ open
      \/ /\ c \in {"connectQp", "begin"} \cup Looping \cup LeftLoop
         /\ v \in {"readDone", "begin"} \cup Looping \cup LeftLoop

Clean == ~opt.faulty => Dialogue /\ \A s \in Sides : ~Bad(s)

IInv ==
  /\ Types /\ Meeting /\ Listens /\ Clean
  /\ \A s \in Sides : Own(s) /\ Apart(s) /\ Tally(s)

-----------------------------------------------------------------------------
(* Sides and completions.                                                  *)

LEMMA TwoSides ==
  /\ "client" \in Sides /\ "server" \in Sides
  /\ \A s \in Sides : /\ Peer(s) \in Sides /\ Peer(s) # s /\ Peer(Peer(s)) = s
                      /\ \A t \in Sides : t = s \/ t = Peer(s)
                      /\ s = "client" \/ s = "server"
  /\ Peer("client") = "server" /\ Peer("server") = "client"
BY DEF Sides, Peer

LEMMA WcFacts ==
  /\ \A o \in {Recv, Send}, k \in BOOLEAN :
       Wc(o, k) \in Completions /\ Wc(o, k).op = o /\ Wc(o, k).ok = k
  /\ \A c \in Completions : c.op \in {Recv, Send} /\ c.ok \in BOOLEAN
  /\ Recv # Send
BY DEF Wc, Completions, Recv, Send

LEMMA NoneFacts == Few(<<>>) /\ ~HasBad(<<>>) /\ \A o : ~HasOp(<<>>, o)
BY DEF Few, HasOp, HasBad

LEMMA AppendFacts ==
  ASSUME NEW q, Few(q), NEW c \in Completions, ~HasOp(q, c.op), c.op = Recv => c.ok
  PROVE  /\ Few(Append(q, c)) /\ Append(q, c) # <<>>
         /\ \A o : HasOp(Append(q, c), o) <=> HasOp(q, o) \/ o = c.op
         /\ HasBad(Append(q, c)) <=> HasBad(q) \/ ~c.ok
<1> DEFINE r == Append(q, c)
           n == Len(q)
<1>1. /\ q \in Seq(Completions) /\ n \in Nat /\ n <= 2 /\ DOMAIN q = 1..n
      /\ r \in Seq(Completions) /\ Len(r) = n + 1 /\ DOMAIN r = 1..(n + 1) /\ r # <<>>
      /\ r[n + 1] = c /\ \A j \in 1..n : r[j] = q[j]
  BY DEF Few
<1> HIDE DEF r, n
<1>2. n # 2
  <2> SUFFICES ASSUME n = 2 PROVE FALSE
    OBVIOUS
  <2>1. 1 \in DOMAIN q /\ 2 \in DOMAIN q /\ q[1].op # q[2].op
    BY <1>1 DEF Few
  <2>2. q[1].op \in {Recv, Send} /\ q[2].op \in {Recv, Send} /\ c.op \in {Recv, Send}
    BY <1>1, <2>1, WcFacts
  <2> QED
    BY <2>1, <2>2 DEF HasOp
<1>3. \A j \in DOMAIN r : j \in DOMAIN q \/ j = n + 1
  BY <1>1
<1>4. \A j \in DOMAIN q : j \in DOMAIN r /\ r[j] = q[j] /\ q[j].op # c.op
  BY <1>1 DEF HasOp
<1>5. n + 1 \in DOMAIN r
  BY <1>1
<1>6. \A o : HasOp(r, o) <=> HasOp(q, o) \/ o = c.op
  BY <1>1, <1>3, <1>4, <1>5 DEF HasOp
<1>7. HasBad(r) <=> HasBad(q) \/ ~c.ok
  BY <1>1, <1>3, <1>4, <1>5 DEF HasBad
<1>8. \A j, l \in DOMAIN r : r[j].op = r[l].op => j = l
  BY <1>1, <1>3, <1>4 DEF Few
<1>9. \A j \in DOMAIN r : r[j].op = Recv => r[j].ok
  BY <1>1, <1>3, <1>4 DEF Few
<1>10. Len(r) <= 2
  BY <1>1, <1>2
<1>11. Few(r)
  BY <1>1, <1>8, <1>9, <1>10 DEF Few
<1> QED
  BY <1>1, <1>6, <1>7, <1>11 DEF r

LEMMA TailFacts ==
  ASSUME NEW q, Few(q), q # <<>>
  PROVE  /\ Few(Tail(q)) /\ Head(q) \in Completions
         /\ HasOp(q, Head(q).op)
         /\ \A o : HasOp(Tail(q), o) <=> HasOp(q, o) /\ o # Head(q).op
         /\ HasBad(q) <=> HasBad(Tail(q)) \/ ~Head(q).ok
<1> DEFINE r == Tail(q)
           c == Head(q)
           n == Len(q)
<1>1. /\ q \in Seq(Completions) /\ n \in Nat /\ n >= 1 /\ n <= 2 /\ DOMAIN q = 1..n
      /\ r \in Seq(Completions) /\ Len(r) = n - 1 /\ DOMAIN r = 1..(n - 1)
      /\ c = q[1] /\ \A j \in 1..(n - 1) : r[j] = q[j + 1]
  BY DEF Few
<1> HIDE DEF r, n, c
<1>2. \A j \in DOMAIN r : j + 1 \in DOMAIN q /\ r[j] = q[j + 1] /\ j + 1 # 1
  BY <1>1
<1>3. \A j \in DOMAIN q : j = 1 \/ (j - 1 \in DOMAIN r /\ r[j - 1] = q[j])
  <2>1. ASSUME NEW j \in DOMAIN q, j # 1 PROVE j - 1 \in DOMAIN r /\ r[j - 1] = q[j]
    <3>1. j - 1 \in 1..(n - 1) /\ (j - 1) + 1 = j
      BY <1>1, <2>1
    <3> QED
      BY <1>1, <3>1
  <2> QED
    BY <2>1
<1>4. 1 \in DOMAIN q
  BY <1>1
<1>5. \A j \in DOMAIN r : r[j].op # c.op
  BY <1>1, <1>2, <1>4 DEF Few
<1>6. \A o : HasOp(r, o) <=> HasOp(q, o) /\ o # c.op
  <2>1. ASSUME NEW o, HasOp(r, o) PROVE HasOp(q, o) /\ o # c.op
    BY <1>2, <1>5, <2>1 DEF HasOp
  <2>2. ASSUME NEW o, HasOp(q, o), o # c.op PROVE HasOp(r, o)
    <3>1. PICK j \in DOMAIN q : q[j].op = o
      BY <2>2 DEF HasOp
    <3>2. j # 1
      BY <1>1, <2>2, <3>1
    <3> QED
      BY <1>3, <3>1, <3>2 DEF HasOp
  <2> QED
    BY <2>1, <2>2
<1>7. HasBad(q) <=> HasBad(r) \/ ~c.ok
  BY <1>1, <1>2, <1>3, <1>4 DEF HasBad
<1>8. \A j, l \in DOMAIN r : r[j].op = r[l].op => j = l
  <2>1. ASSUME NEW j \in DOMAIN r, NEW l \in DOMAIN r, r[j].op = r[l].op PROVE j = l
    <3>1. j + 1 = l + 1 /\ j \in Int /\ l \in Int
      BY <1>1, <1>2, <2>1 DEF Few
    <3> QED
      BY <3>1
  <2> QED
    BY <2>1
<1>9. \A j \in DOMAIN r : r[j].op = Recv => r[j].ok
  BY <1>2 DEF Few
<1>10. Few(r)
  BY <1>1, <1>8, <1>9 DEF Few
<1>11. c \in Completions /\ HasOp(q, c.op)
  BY <1>1, <1>4 DEF HasOp
<1> QED
  BY <1>6, <1>7, <1>10, <1>11 DEF r, c

(* What fails is a send.                                                   *)
LEMMA BadFacts ==
  ASSUME NEW q, Few(q), HasBad(q)
  PROVE  HasOp(q, Send) /\ (q # <<>> => Head(q) # Wc(Send, TRUE))
<1>1. PICK j \in DOMAIN q : ~q[j].ok
  BY DEF HasBad
<1>2. q \in Seq(Completions) /\ q[j] \in Completions
  BY <1>1 DEF Few
<1>3. q[j].op = Send
  BY <1>1, <1>2, WcFacts DEF Few
<1>4. ASSUME q # <<>>, Head(q) = Wc(Send, TRUE) PROVE FALSE
  <2>0. Head(q) = q[1] /\ Len(q) \in Nat /\ Len(q) # 0 /\ DOMAIN q = 1..Len(q)
    BY <1>2, <1>4
  <2>1. 1 \in DOMAIN q
    BY <2>0
  <2>3. q[1] = Wc(Send, TRUE)
    BY <1>4, <2>0
  <2>2. j = 1
    BY <1>1, <1>3, <2>1, <2>3, WcFacts DEF Few
  <2> QED
    BY <1>1, <2>3, <2>2, WcFacts
<1> QED
  BY <1>3, <1>4 DEF HasOp

(* One poll takes all that is there.                                       *)
LEMMA WholeFacts ==
  ASSUME NEW q, Few(q), NEW n, n = IF Len(q) < 2 THEN Len(q) ELSE 2
  PROVE  SubSeq(q, 1, n) = q /\ SubSeq(q, n + 1, Len(q)) = <<>>
<1>0. q \in Seq(Completions) /\ Len(q) <= 2
  BY DEF Few
<1>1. Len(q) \in Nat /\ n = Len(q)
  <2>1. Len(q) \in Nat /\ Len(q) <= 2
    BY <1>0
  <2>2. \A k \in Nat : k <= 2 => k < 2 \/ k = 2
    OBVIOUS
  <2> QED
    BY <2>1, <2>2, Zenon
<1>2. SubSeq(q, 1, Len(q)) = q
  BY <1>0, SubSeqFull
<1>3. SubSeq(q, Len(q) + 1, Len(q)) = <<>>
  BY <1>0, <1>1, SubSeqEmpty
<1> QED
  BY <1>1, <1>2, <1>3

LEMMA WaitingFacts ==
  ASSUME NEW q, Few(q), NEW o
  PROVE  /\ {j \in DOMAIN q : q[j].op = o} = {} <=> ~HasOp(q, o)
         /\ Cardinality({j \in DOMAIN q : q[j].op = o}) = One(HasOp(q, o))
<1> DEFINE S == {j \in DOMAIN q : q[j].op = o}
<1>1. S = {} <=> ~HasOp(q, o)
  BY DEF HasOp
<1>2. CASE ~HasOp(q, o)
  <2>1. S = {}
    BY <1>1, <1>2
  <2> HIDE DEF S
  <2>2. Cardinality(S) = 0
    BY <2>1, FS_EmptySet
  <2> QED
    BY <1>1, <1>2, <2>2 DEF One, S
<1>3. CASE HasOp(q, o)
  <2>1. PICK j \in DOMAIN q : q[j].op = o
    BY <1>3 DEF HasOp
  <2>2. S = {j}
    BY <2>1 DEF Few
  <2> HIDE DEF S
  <2>3. Cardinality(S) = 1
    BY <2>2, FS_Singleton
  <2> QED
    BY <1>1, <1>3, <2>3 DEF One, S
<1> QED
  BY <1>2, <1>3

LEMMA DepthFact == ASSUME Types, NEW s \in Sides PROVE opt.depth[s] \in Nat \ {0}
<1>1. opt.depth \in RxDepths
  BY DEF Types
<1>2. opt.depth \in [Sides -> Nat \ {0}]
  BY <1>1, DepthsAssumption DEF Sides
<1> QED
  BY <1>2


-----------------------------------------------------------------------------
(* The initial states.                                                     *)

LEMMA OrderFacts ==
  \A e \in BOOLEAN :
    /\ OpenOrder(e) \in Seq(Things) /\ Len(OpenOrder(e)) \in Nat /\ Len(OpenOrder(e)) > 1
    /\ \A n \in 1..Len(OpenOrder(e)) :
         OpenOrder(e)[n] \in Things /\ (OpenOrder(e)[n] = "qp" <=> n = Len(OpenOrder(e)))
<1> SUFFICES ASSUME NEW e \in BOOLEAN
    PROVE /\ OpenOrder(e) \in Seq(Things) /\ Len(OpenOrder(e)) \in Nat /\ Len(OpenOrder(e)) > 1
          /\ \A n \in 1..Len(OpenOrder(e)) :
               OpenOrder(e)[n] \in Things /\ (OpenOrder(e)[n] = "qp" <=> n = Len(OpenOrder(e)))
  OBVIOUS
<1>1. CASE e
  <2> DEFINE q == <<"devs", "ctx", "buf", "context", "channel", "pd", "mr", "cq", "qp">>
  <2>1. OpenOrder(e) = q
    BY <1>1 DEF OpenOrder
  <2>2. q \in Seq(Things) /\ Len(q) = 9
    BY DEF Things
  <2>3. \A n \in 1..9 : q[n] \in Things /\ (q[n] = "qp" <=> n = 9)
    BY DEF Things
  <2> QED
    BY <2>1, <2>2, <2>3
<1>2. CASE ~e
  <2> DEFINE q == <<"devs", "ctx", "buf", "context", "pd", "mr", "cq", "qp">>
  <2>1. OpenOrder(e) = q
    BY <1>2 DEF OpenOrder
  <2>2. q \in Seq(Things) /\ Len(q) = 8
    BY DEF Things
  <2>3. \A n \in 1..8 : q[n] \in Things /\ (q[n] = "qp" <=> n = 8)
    BY DEF Things
  <2> QED
    BY <2>1, <2>2, <2>3
<1> QED
  BY <1>1, <1>2

LEMMA InitIInv == Init => IInv
<1> SUFFICES ASSUME Init PROVE IInv
  OBVIOUS
<1>1. Types
  <2>1. /\ opt \in [event : [Sides -> BOOLEAN], depth : RxDepths, faulty : BOOLEAN]
        /\ pc \in [Sides -> SettingUp \cup Looping \cup {"close"} \cup Exits]
        /\ held \in [Sides -> SUBSET Things]
        /\ sock \in [Sides -> {"none", "open", "closed"}]
        /\ listening \in BOOLEAN
        /\ pending \in [Sides -> SUBSET {Recv, Send}]
    BY DEF Init, SettingUp
  <2>2. inbox \in [Sides -> Seq({"addr", "done"})]
    BY DEF Init
  <2>3. wc \in [Sides -> Seq(Completions)] /\ cq \in [Sides -> Seq(Completions)]
    BY DEF Init
  <2>4. /\ routs \in [Sides -> Nat] /\ rcnt \in [Sides -> Nat] /\ scnt \in [Sides -> Nat]
        /\ got \in [Sides -> Nat] /\ events \in [Sides -> Nat] /\ acked \in [Sides -> Nat]
        /\ rq \in [Sides -> Nat]
    BY DEF Init
  <2>5. /\ qp \in [Sides -> {"none", "init", "ready", "gone"}]
        /\ sq \in [Sides -> {"idle", "wire", "arrived"}]
        /\ armed \in [Sides -> BOOLEAN]
    BY DEF Init
  <2> QED
    BY <2>1, <2>2, <2>3, <2>4, <2>5 DEF Types
<1>2. \A s \in Sides : ~Started(s) /\ (Has(s) <=> s = "client")
  BY DEF Init, Started, Looping, Has
<1>3. \A s \in Sides : wc[s] = <<>> /\ cq[s] = <<>> /\ sq[s] = "idle"
  BY DEF Init
<1>4. \A s \in Sides : ~Bad(s) /\ ~Out(s) /\ \A o : ~Due(s, o)
  BY <1>3, NoneFacts DEF Bad, Due, Out
<1>5. ASSUME NEW s \in Sides PROVE Own(s)
  <2>1. pc[s] = "open" /\ pc[s] \notin {"prepare"} \cup Early(s) \cup Linked(s) \cup Looping
    BY DEF Init, Early, Linked, Looping
  <2>2. IsFiniteSet(held[s]) /\ Cardinality(held[s]) < Len(OpenOrder(opt.event[s]))
    <3>1. held[s] = {} /\ opt.event[s] \in BOOLEAN
      BY DEF Init
    <3>2. IsFiniteSet({}) /\ Cardinality({}) = 0
      BY FS_EmptySet
    <3> QED
      BY <3>1, <3>2, OrderFacts
  <2>3. Stage(s)
    BY <2>1, <2>2 DEF Init, Stage, Exits, LeftLoop
  <2>4. Untouched(s)
    BY <1>3, NoneFacts DEF Init, Untouched
  <2>5. Posted(s)
    <3>1. pending[s] = {} /\ pc[s] \notin {"arm", "poll"}
      BY DEF Init
    <3> QED
      BY <1>3, <1>4, <3>1, NoneFacts DEF Posted
  <2>6. Receives(s)
    BY <2>1 DEF Receives
  <2>7. Wakeups(s)
    BY <2>1 DEF Init, Wakeups
  <2> QED
    BY <2>3, <2>4, <2>5, <2>6, <2>7 DEF Own
<1>6. \A s \in Sides : Apart(s)
  BY <1>2, <1>3, <1>4, TwoSides DEF Apart
<1>7. ASSUME NEW s \in Sides PROVE Tally(s)
  <2>1. rcnt[s] = 0 /\ scnt[s] = 0 /\ rcnt[Peer(s)] = 0
    BY TwoSides DEF Init
  <2> QED
    BY <1>3, <1>4, <2>1, TwoSides, ItersAssumption DEF Tally, One
<1>8. Meeting
  BY <1>2, TwoSides DEF Init, Meeting
<1>9. Listens
  BY TwoSides DEF Init, Listens
<1>10. Clean
  BY <1>4, TwoSides DEF Init, Clean, Dialogue
<1> QED
  BY <1>1, <1>5, <1>6, <1>7, <1>8, <1>9, <1>10 DEF IInv

-----------------------------------------------------------------------------
(* What a step leaves alone.                                               *)

Same(t) ==
  /\ pc'[t] = pc[t] /\ held'[t] = held[t] /\ qp'[t] = qp[t] /\ pending'[t] = pending[t]
  /\ routs'[t] = routs[t] /\ rcnt'[t] = rcnt[t] /\ scnt'[t] = scnt[t]
  /\ wc'[t] = wc[t] /\ cq'[t] = cq[t] /\ sq'[t] = sq[t] /\ rq'[t] = rq[t]
  /\ armed'[t] = armed[t] /\ events'[t] = events[t]

LEMMA OwnSame ==
  ASSUME NEW t \in Sides, Own(t), opt' = opt, Same(t)
  PROVE  Own(t)'
<1>1. Stage(t)'
  BY DEF Own, Same, Stage
<1>2. Untouched(t)'
  BY DEF Own, Same, Untouched, Started
<1>3. Posted(t)'
  BY DEF Own, Same, Posted, Due, Out
<1>4. Receives(t)'
  BY DEF Own, Same, Receives, Due
<1>5. Wakeups(t)'
  BY DEF Own, Same, Wakeups
<1> QED
  BY <1>1, <1>2, <1>3, <1>4, <1>5 DEF Own

LEMMA SameFacts ==
  ASSUME NEW t \in Sides, Same(t)
  PROVE  /\ Started(t)' <=> Started(t)
         /\ Has(t)' <=> Has(t)
         /\ \A o : Due(t, o)' <=> Due(t, o)
         /\ Bad(t)' <=> Bad(t)
         /\ Out(t)' <=> Out(t)
<1>1. (Started(t)' <=> Started(t)) /\ (Has(t)' <=> Has(t))
  BY DEF Same, Started, Has
<1>2. (\A o : Due(t, o)' <=> Due(t, o)) /\ (Bad(t)' <=> Bad(t))
  BY DEF Same, Due, Bad
<1>3. Out(t)' <=> Out(t)
  BY <1>2 DEF Same, Out
<1> QED
  BY <1>1, <1>2, <1>3

(* The message stays where it is, on its way or with a side.               *)
AtRest == \A t \in Sides : /\ Has(t)' <=> Has(t)
                           /\ Due(t, Recv)' <=> Due(t, Recv)
                           /\ sq'[t] = "wire" <=> sq[t] = "wire"

(* Steps that neither move the message nor count.                          *)
LEMMA TokensSame ==
  ASSUME \A t \in Sides : /\ Has(t)' <=> Has(t)
                          /\ \A o : Due(t, o)' <=> Due(t, o)
                          /\ Bad(t)' <=> Bad(t),
         UNCHANGED <<sq, rcnt, scnt>>
  PROVE  /\ \A t \in Sides : Apart(t) => Apart(t)'
         /\ \A t \in Sides : Tally(t) => Tally(t)'
<1>1. \A t \in Sides : Out(t)' <=> Out(t)
  BY DEF Out
<1>2. \A t \in Sides : Apart(t) => Apart(t)'
  BY TwoSides DEF Apart
<1>3. ASSUME NEW t \in Sides, Tally(t) PROVE Tally(t)'
  <2>1. /\ One(sq[t] = "wire")' = One(sq[t] = "wire")
        /\ One(Due(Peer(t), Recv))' = One(Due(Peer(t), Recv))
        /\ One(Out(t) /\ ~Bad(t))' = One(Out(t) /\ ~Bad(t))
        /\ One(Out(t))' = One(Out(t))
    BY <1>1, TwoSides DEF One
  <2> QED
    BY <1>3, <2>1 DEF Tally
<1> QED
  BY <1>2, <1>3

Quiet == UNCHANGED <<opt, pending, rcnt, scnt, wc, sq, cq>>

LEMMA QuietTokens ==
  ASSUME Quiet, \A t \in Sides : Started(t)' <=> Started(t)
  PROVE  /\ \A t \in Sides : Apart(t) => Apart(t)'
         /\ \A t \in Sides : Tally(t) => Tally(t)'
         /\ \A t \in Sides : Bad(t)' <=> Bad(t)
<1>1. \A t \in Sides : Has(t)' <=> Has(t)
  BY DEF Has, Quiet
<1>2. \A t \in Sides : (\A o : Due(t, o)' <=> Due(t, o)) /\ (Bad(t)' <=> Bad(t))
  BY DEF Due, Bad, Quiet
<1> QED
  BY <1>1, <1>2, TokensSame DEF Quiet

(* A step of s that is quiet preserves what its own part of the invariant  *)
(* and the exchange of addresses allow.                                    *)
LEMMA QuietIInv ==
  ASSUME IInv, NEW s \in Sides, Quiet, Types', Own(s)', Same(Peer(s)),
         Started(s)' <=> Started(s), Meeting', Listens',
         ~opt.faulty => Dialogue'
  PROVE  IInv'
<1>1. \A t \in Sides : Started(t)' <=> Started(t)
  BY TwoSides DEF Started, Same
<1>2. \A t \in Sides : Apart(t)' /\ Tally(t)' /\ (Bad(t)' <=> Bad(t))
  BY <1>1, QuietTokens DEF IInv
<1>3. Own(Peer(s))'
  BY TwoSides, OwnSame DEF IInv, Quiet
<1>4. \A t \in Sides : Own(t)'
  BY <1>3, TwoSides
<1>5. Clean'
  BY <1>2 DEF Clean, IInv, Quiet
<1> QED
  BY <1>2, <1>4, <1>5 DEF IInv

-----------------------------------------------------------------------------
(* The end of a process.                                                   *)

LEMMA EndsIInv ==
  ASSUME IInv, NEW s \in Sides, NEW exit \in Exits, Ends(s, exit),
         UNCHANGED <<opt, inbox, loopVars, rq, sq, cq, eventVars>>,
         \/ exit = "setupFailed" /\ pc[s] \in SettingUp /\ opt.faulty
         \/ exit = "loopFailed" /\ pc[s] \in Looping /\ opt.faulty
         \/ exit = "closeFailed" /\ pc[s] = "close"
  PROVE  IInv'
<1> USE TwoSides
<1>1. /\ pc'[s] = exit /\ held'[s] = {} /\ qp'[s] = "gone"
      /\ pc'[Peer(s)] = pc[Peer(s)] /\ held'[Peer(s)] = held[Peer(s)] /\ qp'[Peer(s)] = qp[Peer(s)]
  <2>1. /\ pc \in [Sides -> SettingUp \cup Looping \cup {"close"} \cup Exits]
        /\ held \in [Sides -> SUBSET Things]
        /\ qp \in [Sides -> {"none", "init", "ready", "gone"}]
    BY DEF IInv, Types
  <2>2. /\ pc' = [pc EXCEPT ![s] = exit] /\ held' = [held EXCEPT ![s] = {}]
        /\ qp' = [qp EXCEPT ![s] = "gone"]
    BY DEF Ends, Goto
  <2> QED
    BY <2>1, <2>2
<1>2. Quiet /\ Same(Peer(s))
  BY <1>1 DEF Quiet, Same, loopVars, eventVars
<1>3. Started(s)' <=> Started(s)
  BY <1>1 DEF Started, SettingUp, Exchanging, Looping
<1>4. Types'
  <2>1. pc' \in [Sides -> SettingUp \cup Looping \cup {"close"} \cup Exits]
    BY DEF IInv, Types, Ends, Goto
  <2>2. held' \in [Sides -> SUBSET Things] /\ qp' \in [Sides -> {"none", "init", "ready", "gone"}]
    BY DEF IInv, Types, Ends
  <2>3. sock' \in [Sides -> {"none", "open", "closed"}]
    <3>1. PICK v \in {"none", "open", "closed"} : sock' = [sock EXCEPT ![s] = v]
      BY DEF IInv, Types, Ends
    <3> QED
      BY <3>1 DEF IInv, Types
  <2>4. listening' \in BOOLEAN
    BY DEF Ends
  <2> QED
    BY <2>1, <2>2, <2>3, <2>4 DEF IInv, Types, loopVars, eventVars
<1>5. Own(s)'
  <2>1. pc'[s] \notin {"open", "prepare", "close"} \cup Early(s) \cup Linked(s) \cup Looping
    BY <1>1 DEF Exits, Early, Linked, Looping
  <2>2. Own(s)
    BY DEF IInv
  <2>3. rcnt'[s] = rcnt[s] /\ (pc'[s] \in LeftLoop => rcnt[s] >= Iters)
    BY <1>1, <2>2 DEF Own, Stage, LeftLoop, loopVars
  <2>4. Stage(s)'
    BY <1>1, <2>1, <2>3 DEF Stage
  <2>5. Untouched(s)'
    BY <1>3, <2>1, <2>2 DEF Own, Untouched, loopVars
  <2>6. Posted(s)'
    BY <2>1, <2>2 DEF Own, Posted, Due, Out, loopVars, Looping
  <2>7. Receives(s)'
    BY <2>1 DEF Receives
  <2>8. Wakeups(s)'
    BY <2>1, <2>2 DEF Own, Wakeups, loopVars, eventVars, Looping
  <2> QED
    BY <2>4, <2>5, <2>6, <2>7, <2>8 DEF Own
<1>6. Meeting'
  <2>1. Meeting
    BY DEF IInv
  <2>2. CASE s = "server"
    BY <1>1, <2>2 DEF Meeting
  <2>3. CASE s = "client"
    <3>1. qp'["server"] = qp["server"] /\ (Started("client")' <=> Started("client"))
      BY <1>1, <1>3, <2>3
    <3>2. pc'["client"] \notin {"writeDone", "connectQp", "begin"}
      BY <1>1, <2>3 DEF Exits
    <3> QED
      BY <2>1, <3>1, <3>2 DEF Meeting
  <2> QED
    BY <2>2, <2>3
<1>7. Listens'
  BY <1>1 DEF IInv, Listens, Ends, Exits
<1>8. ASSUME ~opt.faulty PROVE Dialogue'
  <2>1. pc[s] = "close" /\ pc'[s] = "closeFailed"
    BY <1>1, <1>8
  <2>2. Dialogue
    BY <1>8 DEF IInv, Clean
  <2>3. /\ pc["client"] \in {"connectQp", "begin"} \cup Looping \cup LeftLoop
        /\ pc["server"] \in {"readDone", "begin"} \cup Looping \cup LeftLoop
    BY <2>1, <2>2 DEF Dialogue, Looping, LeftLoop
  <2> QED
    BY <1>1, <2>1, <2>3 DEF Dialogue, LeftLoop
<1> QED
  BY <1>2, <1>3, <1>4, <1>5, <1>6, <1>7, <1>8, QuietIInv

LEMMA RefusedIInv == ASSUME IInv, Refused PROVE IInv'
<1>1. ~opt.faulty => pc["server"] \notin Exits
  <2> SUFFICES ASSUME ~opt.faulty PROVE pc["server"] \notin Exits
    OBVIOUS
  <2>1. pc["client"] = "connect" /\ Dialogue
    BY DEF IInv, Clean, Refused
  <2> QED
    BY <2>1 DEF Dialogue, Exits, Looping, LeftLoop
<1> QED
  BY <1>1, EndsIInv, TwoSides DEF Refused, SettingUp, Exchanging, Exits

(* While nothing fails no side hangs up before the other has what it needs. *)
LEMMA NobodyHangsUp ==
  ASSUME IInv, NEW s \in Sides, ~opt.faulty,
         pc[s] \in {"writeAddr", "writeDone", "readAddr"}
  PROVE  ~HungUp(Peer(s))
<1>1. Dialogue
  BY DEF IInv, Clean
<1>2. sock["client"] = "open" /\ sock["server"] = "open"
  BY <1>1, TwoSides DEF Dialogue, Looping, LeftLoop
<1> QED
  BY <1>2, TwoSides DEF HungUp

LEMMA WriteFailsIInv == ASSUME IInv, NEW s \in Sides, WriteFails(s) PROVE IInv'
<1>1. opt.faulty
  BY NobodyHangsUp DEF WriteFails, IInv, Types
<1> QED
  BY <1>1, EndsIInv DEF WriteFails, SettingUp, Exchanging, Exits

LEMMA ReadFailsIInv == ASSUME IInv, NEW s \in Sides, ReadFails(s) PROVE IInv'
<1>1. opt.faulty
  BY NobodyHangsUp DEF ReadFails, IInv, Types
<1> QED
  BY <1>1, EndsIInv DEF ReadFails, SettingUp, Exchanging, Exits

LEMMA SetupFailsIInv == ASSUME IInv, NEW s \in Sides, SetupFails(s) PROVE IInv'
BY EndsIInv DEF SetupFails, Exits

LEMMA LoopFailsIInv == ASSUME IInv, NEW s \in Sides, LoopFails(s) PROVE IInv'
BY EndsIInv DEF LoopFails, Exits

LEMMA CloseFailsIInv == ASSUME IInv, NEW s \in Sides, CloseFails(s) PROVE IInv'
BY EndsIInv DEF CloseFails, Exits

LEMMA HandleBadStatusIInv == ASSUME IInv, NEW s \in Sides, HandleBadStatus(s) PROVE IInv'
<1>1. wc[s] # <<>> /\ ~Head(wc[s]).ok /\ Few(wc[s]) /\ pc[s] \in Looping
  BY DEF HandleBadStatus, Handling, IInv, Own, Posted, Looping
<1>2. Bad(s)
  BY <1>1, TailFacts DEF Bad
<1>3. opt.faulty
  BY <1>2 DEF IInv, Clean
<1> QED
  BY <1>1, <1>3, EndsIInv DEF HandleBadStatus, Exits

-----------------------------------------------------------------------------
(* The way of a process to its loop.                                       *)

(* A step along the exchange, with all but the program counter as it was.  *)
LEMMA AlongOwn ==
  ASSUME NEW s \in Sides, Own(s), Quiet,
         \/ pc[s] \in Early(s) /\ pc'[s] \in Early(s)
         \/ pc[s] \in Linked(s) /\ pc'[s] \in Linked(s),
         "qp" \in held'[s] <=> "qp" \in held[s],
         qp'[s] = qp[s], routs'[s] = routs[s], rq'[s] = rq[s],
         armed'[s] = armed[s], events'[s] = events[s]
  PROVE  Own(s)' /\ (Started(s)' <=> Started(s))
<1>1. /\ pc'[s] \notin {"open", "prepare"} \cup Looping \cup {"close"} \cup Exits
      /\ pc[s] \notin {"open", "prepare"} \cup Looping \cup {"close"} \cup Exits
  BY DEF Early, Linked, Looping, Exits
<1>2. Early(s) \cap Linked(s) = {}
  BY DEF Early, Linked
<1>3. Started(s)' <=> Started(s)
  BY <1>1 DEF Started, Looping, Exits
<1>4. Stage(s)'
  BY <1>1, <1>2 DEF Own, Stage, Quiet, LeftLoop, Exits
<1>5. Untouched(s)'
  BY <1>1, <1>2, <1>3 DEF Own, Untouched, Quiet
<1>6. Posted(s)'
  BY <1>1 DEF Own, Posted, Quiet, Due, Out, Looping
<1>7. Receives(s)'
  BY <1>1, <1>2 DEF Own, Receives, Quiet, Due
<1>8. Wakeups(s)'
  BY <1>1, <1>2 DEF Own, Wakeups, Quiet, Looping
<1> QED
  BY <1>3, <1>4, <1>5, <1>6, <1>7, <1>8 DEF Own

LEMMA OpenIInv == ASSUME IInv, NEW s \in Sides, Open(s) PROVE IInv'
<1> USE TwoSides
<1> DEFINE order == OpenOrder(opt.event[s])
           n     == Cardinality(held[s]) + 1
<1>1. /\ pc \in [Sides -> SettingUp \cup Looping \cup {"close"} \cup Exits]
      /\ held \in [Sides -> SUBSET Things] /\ opt.event[s] \in BOOLEAN
      /\ qp \in [Sides -> {"none", "init", "ready", "gone"}]
  BY DEF IInv, Types
<1>2. Own(s) /\ Stage(s) /\ pc[s] = "open"
  BY DEF IInv, Own, Open
<1>3. IsFiniteSet(held[s]) /\ n \in 1..Len(order) /\ Len(order) \in Nat /\ n \in Nat
  <2>1. /\ IsFiniteSet(held[s]) /\ Cardinality(held[s]) < Len(order)
        /\ Len(order) \in Nat /\ Cardinality(held[s]) \in Nat
    BY <1>1, <1>2, OrderFacts, FS_CardinalityType DEF Stage
  <2> HIDE DEF order
  <2> QED
    BY <2>1
<1>4. order[n] \in Things /\ (order[n] = "qp" <=> n = Len(order))
  BY <1>1, <1>3, OrderFacts
<1>5. /\ held' = [held EXCEPT ![s] = held[s] \cup {order[n]}]
      /\ n = Len(order) => pc' = [pc EXCEPT ![s] = "prepare"] /\ qp' = [qp EXCEPT ![s] = "init"]
      /\ n # Len(order) => pc' = pc /\ qp' = qp
  BY DEF Open, Goto
<1>6. IsFiniteSet(held[s] \cup {order[n]}) /\ Cardinality(held[s] \cup {order[n]}) <= n
  <2>1. IsFiniteSet(held[s] \cup {order[n]})
    BY <1>3, FS_AddElement
  <2>2. \/ Cardinality(held[s] \cup {order[n]}) = Cardinality(held[s])
        \/ Cardinality(held[s] \cup {order[n]}) = Cardinality(held[s]) + 1
    <3> HIDE DEF order, n
    <3> DEFINE x == order[n]
               S == held[s]
    <3>1. IsFiniteSet(S)
      BY <1>3
    <3> HIDE DEF x, S
    <3>2. Cardinality(S \cup {x}) = IF x \in S THEN Cardinality(S) ELSE Cardinality(S) + 1
      BY <3>1, FS_AddElement
    <3>3. Cardinality(S \cup {x}) = Cardinality(S) \/ Cardinality(S \cup {x}) = Cardinality(S) + 1
      BY <3>2
    <3> QED
      BY <3>3 DEF x, S
  <2>3. Cardinality(held[s]) \in Nat
    BY <1>3, FS_CardinalityType
  <2> QED
    BY <2>1, <2>2, <2>3
<1> HIDE DEF order, n
<1>7. Quiet /\ opt' = opt /\ UNCHANGED <<sock, listening, inbox, loopVars, rq, sq, cq, eventVars>>
  BY DEF Open, Quiet, loopVars
<1>8. Same(Peer(s))
  BY <1>1, <1>5, <1>7 DEF Same, loopVars, eventVars
<1>9. /\ held'[s] = held[s] \cup {order[n]}
      /\ n = Len(order) => pc'[s] = "prepare" /\ qp'[s] = "init"
      /\ n # Len(order) => pc'[s] = "open" /\ qp'[s] = qp[s]
  BY <1>1, <1>2, <1>5
<1>10. Types'
  <2>1. held' \in [Sides -> SUBSET Things]
    BY <1>1, <1>4, <1>5
  <2>2. pc' \in [Sides -> SettingUp \cup Looping \cup {"close"} \cup Exits]
    <3>1. "prepare" \in SettingUp
      BY DEF SettingUp
    <3> QED
      BY <1>1, <1>5, <3>1
  <2>3. qp' \in [Sides -> {"none", "init", "ready", "gone"}]
    BY <1>1, <1>5
  <2> QED
    BY <1>7, <2>1, <2>2, <2>3 DEF IInv, Types, loopVars, eventVars
<1>11. pc'[s] \in {"open", "prepare"}
  BY <1>9
<1>12. pc'[s] \notin Early(s) \cup Linked(s) \cup Looping \cup Exits \cup LeftLoop /\ ~Started(s)' /\ ~Started(s)
  BY <1>2, <1>11 DEF Early, Linked, Looping, Exits, LeftLoop, Started
<1>13. Own(s)'
  <2>1. pc'[s] = "open" => /\ IsFiniteSet(held'[s]) /\ Cardinality(held'[s]) < Len(OpenOrder(opt.event[s]))
    <3> SUFFICES ASSUME pc'[s] = "open" PROVE IsFiniteSet(held'[s]) /\ Cardinality(held'[s]) < Len(order)
      BY DEF order
    <3>1. n # Len(order) /\ Cardinality(held'[s]) \in Nat
      BY <1>6, <1>9, FS_CardinalityType
    <3> QED
      BY <1>3, <1>6, <1>9, <3>1
  <2>2. qp[s] = "none" /\ "qp" \notin held[s]
    BY <1>2 DEF Stage
  <2>3. "qp" \in held'[s] <=> qp'[s] \in {"init", "ready"}
    BY <1>4, <1>9, <2>2
  <2>4. Stage(s)'
    BY <1>7, <1>9, <1>11, <1>12, <2>1, <2>2, <2>3 DEF Stage, LeftLoop
  <2>5. Untouched(s)'
    BY <1>2, <1>7, <1>12 DEF Own, Untouched, loopVars
  <2>6. Posted(s)'
    BY <1>2, <1>7, <1>11 DEF Own, Posted, Due, Out, Quiet
  <2>7. Receives(s)'
    BY <1>11, <1>12 DEF Receives, Early, Linked, Looping
  <2>8. Wakeups(s)'
    <3>1. pc'[s] \notin Early(s) \cup Linked(s) \cup {"loop", "arm", "poll"}
      BY <1>11 DEF Early, Linked
    <3> QED
      BY <1>2, <1>7, <1>11, <3>1 DEF Own, Wakeups, eventVars
  <2> QED
    BY <2>4, <2>5, <2>6, <2>7, <2>8 DEF Own
<1>14. Meeting'
  <2>1. Meeting /\ inbox' = inbox
    BY <1>7 DEF IInv
  <2>2. pc'["client"] \in {"open", "prepare"} \/ pc'["client"] = pc["client"]
    BY <1>8, <1>11 DEF Same
  <2>3. Started("client")' <=> Started("client")
    BY <1>8, <1>12 DEF Started, Same
  <2>4. qp'["server"] = qp["server"] \/ qp["server"] \notin {"ready", "gone"}
    BY <1>2, <1>8 DEF Same, Stage
  <2> QED
    BY <2>1, <2>2, <2>3, <2>4 DEF Meeting
<1>15. Listens'
  BY <1>2, <1>7, <1>8, <1>11 DEF IInv, Listens, Same
<1>16. ~opt.faulty => Dialogue'
  BY <1>2, <1>7, <1>8, <1>11 DEF IInv, Clean, Dialogue, Same, Looping, LeftLoop
<1> QED
  BY <1>7, <1>8, <1>10, <1>12, <1>13, <1>14, <1>15, <1>16, QuietIInv

LEMMA PrepareIInv == ASSUME IInv, NEW s \in Sides, Prepare(s) PROVE IInv'
<1> USE TwoSides
<1>1. /\ pc \in [Sides -> SettingUp \cup Looping \cup {"close"} \cup Exits]
      /\ routs \in [Sides -> Nat] /\ rq \in [Sides -> Nat] /\ armed \in [Sides -> BOOLEAN]
      /\ opt.event[s] \in BOOLEAN /\ opt.depth[s] \in Nat \ {0}
  BY DepthFact DEF IInv, Types
<1>2. Own(s) /\ pc[s] = "prepare"
  BY DEF IInv, Prepare
<1> DEFINE next == IF s = "server" THEN "listen" ELSE "connect"
<1>3. next \in Early(s) /\ next \in SettingUp /\ next \notin {"accept", "writeDone", "connectQp", "begin"}
  BY DEF Early, SettingUp, Exchanging
<1>4. /\ pc' = [pc EXCEPT ![s] = next] /\ routs' = [routs EXCEPT ![s] = opt.depth[s]]
      /\ rq' = [rq EXCEPT ![s] = opt.depth[s]] /\ armed' = [armed EXCEPT ![s] = opt.event[s]]
  BY DEF Prepare, Goto
<1> HIDE DEF next
<1>5. Quiet /\ opt' = opt /\ UNCHANGED <<setupVars, pending, rcnt, scnt, wc, got, qp, sq, cq, events, acked>>
  BY DEF Prepare, Quiet
<1>6. Same(Peer(s))
  BY <1>1, <1>4, <1>5 DEF Same, setupVars
<1>7. /\ pc'[s] = next /\ routs'[s] = opt.depth[s] /\ rq'[s] = opt.depth[s]
      /\ armed'[s] = opt.event[s]
  BY <1>1, <1>4
<1>8. Types'
  <2>1. /\ pc' \in [Sides -> SettingUp \cup Looping \cup {"close"} \cup Exits]
        /\ routs' \in [Sides -> Nat] /\ rq' \in [Sides -> Nat] /\ armed' \in [Sides -> BOOLEAN]
    BY <1>1, <1>3, <1>4
  <2> QED
    BY <1>5, <2>1 DEF IInv, Types, setupVars
<1>9. /\ pc'[s] \in Early(s)
      /\ pc'[s] \notin {"open", "prepare"} \cup Linked(s) \cup Looping \cup Exits \cup LeftLoop
      /\ ~Started(s)' /\ ~Started(s)
  BY <1>2, <1>3, <1>7 DEF Early, Linked, Looping, Exits, LeftLoop, Started
<1>10. Own(s)'
  <2>1. cq[s] = <<>> /\ wc[s] = <<>> /\ qp[s] = "init" /\ ~armed[s] /\ events[s] = 0
    BY <1>1, <1>2, <1>9 DEF Own, Stage, Untouched, Wakeups
  <2>2. Stage(s)'
    BY <1>2, <1>5, <1>9 DEF Own, Stage, setupVars, LeftLoop
  <2>3. Untouched(s)'
    BY <1>2, <1>5, <1>9, <2>1 DEF Own, Untouched
  <2>4. Posted(s)'
    <3>1. pc'[s] \notin {"arm", "poll"}
      BY <1>9 DEF Looping
    <3> QED
      BY <1>2, <1>5, <3>1 DEF Own, Posted, Due, Out
  <2>5. ~Due(s, Recv)'
    BY <1>5, <2>1, NoneFacts DEF Due
  <2>6. Receives(s)'
    BY <1>1, <1>5, <1>7, <2>5 DEF Receives, One
  <2>7. Wakeups(s)'
    <3>1. pc'[s] \notin {"open", "prepare", "loop", "arm", "poll"} \cup Linked(s)
      BY <1>9 DEF Looping
    <3> QED
      BY <1>1, <1>5, <1>7, <2>1, <3>1 DEF Wakeups
  <2> QED
    BY <2>2, <2>3, <2>4, <2>6, <2>7 DEF Own
<1>11. Meeting'
  <2>1. Meeting /\ inbox' = inbox /\ qp' = qp
    BY <1>5 DEF IInv, setupVars
  <2>2. pc'["client"] \notin {"writeDone", "connectQp", "begin"} \/ pc'["client"] = pc["client"]
    BY <1>3, <1>6, <1>7 DEF Same
  <2>3. Started("client")' <=> Started("client")
    BY <1>6, <1>9 DEF Started, Same
  <2> QED
    BY <2>1, <2>2, <2>3 DEF Meeting
<1>12. Listens'
  BY <1>2, <1>3, <1>5, <1>6, <1>7 DEF IInv, Listens, Same, setupVars
<1>13. ~opt.faulty => Dialogue'
  BY <1>2, <1>5, <1>6, <1>7 DEF IInv, Clean, Dialogue, Same, Looping, LeftLoop, setupVars, next
<1> QED
  BY <1>5, <1>6, <1>8, <1>9, <1>10, <1>11, <1>12, <1>13, QuietIInv

LEMMA AlongIInv ==
  ASSUME IInv, NEW s \in Sides, NEW l, pc' = [pc EXCEPT ![s] = l],
         \/ pc[s] \in Early(s) /\ l \in Early(s)
         \/ pc[s] \in Linked(s) /\ l \in Linked(s),
         UNCHANGED <<opt, loopVars, hcaVars, eventVars>>,
         \/ held' = held
         \/ held' = [held EXCEPT ![s] = @ \cup {"rem"}],
         sock' \in [Sides -> {"none", "open", "closed"}], listening' \in BOOLEAN,
         inbox' \in [Sides -> Seq({"addr", "done"})],
         Meeting', Listens', ~opt.faulty => Dialogue'
  PROVE  IInv'
<1> USE TwoSides
<1>1. /\ pc \in [Sides -> SettingUp \cup Looping \cup {"close"} \cup Exits]
      /\ held \in [Sides -> SUBSET Things]
  BY DEF IInv, Types
<1>2. l \in SettingUp
  BY DEF Early, Linked, SettingUp, Exchanging
<1>3. pc'[s] = l /\ pc'[Peer(s)] = pc[Peer(s)]
  BY <1>1
<1>4. /\ held' \in [Sides -> SUBSET Things] /\ held'[Peer(s)] = held[Peer(s)]
      /\ "qp" \in held'[s] <=> "qp" \in held[s]
  <2>1. CASE held' = held
    BY <1>1, <2>1
  <2>2. CASE held' = [held EXCEPT ![s] = @ \cup {"rem"}]
    <3>1. held[s] \cup {"rem"} \in SUBSET Things
      BY <1>1 DEF Things
    <3>2. held'[s] = held[s] \cup {"rem"}
      BY <1>1, <2>2
    <3>3. held' \in [Sides -> SUBSET Things] /\ held'[Peer(s)] = held[Peer(s)]
      BY <1>1, <2>2, <3>1
    <3> QED
      BY <3>2, <3>3
  <2> QED
    BY <2>1, <2>2
<1>5. Quiet /\ Same(Peer(s))
  BY <1>3, <1>4 DEF Quiet, Same, loopVars, hcaVars, eventVars
<1>6. Types'
  <2>1. pc' \in [Sides -> SettingUp \cup Looping \cup {"close"} \cup Exits]
    BY <1>1, <1>2
  <2> QED
    BY <1>4, <2>1 DEF IInv, Types, loopVars, hcaVars, eventVars
<1>7. Own(s)' /\ (Started(s)' <=> Started(s))
  <2>1. /\ Own(s) /\ qp'[s] = qp[s] /\ routs'[s] = routs[s] /\ rq'[s] = rq[s]
        /\ armed'[s] = armed[s] /\ events'[s] = events[s]
    BY DEF IInv, loopVars, hcaVars, eventVars
  <2>2. \/ pc[s] \in Early(s) /\ pc'[s] \in Early(s)
        \/ pc[s] \in Linked(s) /\ pc'[s] \in Linked(s)
    BY <1>3
  <2> QED
    BY <1>4, <1>5, <2>1, <2>2, AlongOwn
<1> QED
  BY <1>5, <1>6, <1>7, QuietIInv

LEMMA ListenIInv == ASSUME IInv, Listen PROVE IInv'
<1> USE TwoSides
<1>1. pc["server"] = "listen" /\ pc' = [pc EXCEPT !["server"] = "accept"]
  BY DEF Listen, Goto
<1>2. UNCHANGED <<opt, held, sock, inbox, loopVars, hcaVars, eventVars>> /\ listening' = TRUE
  BY DEF Listen
<1>3. pc'["server"] = "accept" /\ pc'["client"] = pc["client"]
  BY <1>1 DEF IInv, Types
<1>4. Meeting' /\ Listens'
  BY <1>2, <1>3 DEF IInv, Meeting, Listens, Started, hcaVars
<1>5. ~opt.faulty => Dialogue'
  BY <1>1, <1>2, <1>3 DEF IInv, Clean, Dialogue, Looping, LeftLoop
<1>6. "listen" \in Early("server") /\ "accept" \in Early("server")
  BY DEF Early
<1>7. /\ sock' \in [Sides -> {"none", "open", "closed"}] /\ listening' \in BOOLEAN
      /\ inbox' \in [Sides -> Seq({"addr", "done"})]
  BY <1>2 DEF IInv, Types
<1> QED
  BY <1>1, <1>2, <1>4, <1>5, <1>6, <1>7, AlongIInv, Zenon

LEMMA AcceptIInv == ASSUME IInv, Accept PROVE IInv'
<1> USE TwoSides
<1>1. pc["server"] = "accept" /\ pc' = [pc EXCEPT !["server"] = "readAddr"] /\ sock["client"] # "none"
  BY DEF Accept, Goto
<1>2. UNCHANGED <<opt, held, sock, inbox, loopVars, hcaVars, eventVars>> /\ listening' = FALSE
  BY DEF Accept
<1>3. pc'["server"] = "readAddr" /\ pc'["client"] = pc["client"]
  BY <1>1 DEF IInv, Types
<1>4. Meeting' /\ Listens'
  BY <1>2, <1>3 DEF IInv, Meeting, Listens, Started, hcaVars
<1>5. ~opt.faulty => Dialogue'
  BY <1>1, <1>2, <1>3 DEF IInv, Clean, Dialogue, Looping, LeftLoop
<1>6. "accept" \in Early("server") /\ "readAddr" \in Early("server")
  BY DEF Early
<1>7. /\ sock' \in [Sides -> {"none", "open", "closed"}] /\ listening' \in BOOLEAN
      /\ inbox' \in [Sides -> Seq({"addr", "done"})]
  BY <1>2 DEF IInv, Types
<1> QED
  BY <1>1, <1>2, <1>4, <1>5, <1>6, <1>7, AlongIInv, Zenon

LEMMA ConnectIInv == ASSUME IInv, Connect PROVE IInv'
<1> USE TwoSides
<1>1. pc["client"] = "connect" /\ pc' = [pc EXCEPT !["client"] = "writeAddr"] /\ listening
  BY DEF Connect, Goto
<1>2. UNCHANGED <<opt, held, listening, inbox, loopVars, hcaVars, eventVars>>
  BY DEF Connect
<1>3. /\ sock' \in [Sides -> {"none", "open", "closed"}]
      /\ sock'["client"] = "open" /\ sock'["server"] = "open"
  BY DEF Connect
<1>4. pc'["client"] = "writeAddr" /\ pc'["server"] = pc["server"]
  BY <1>1 DEF IInv, Types
<1>5. ~Started("client") /\ ~Started("client")'
  BY <1>1, <1>4 DEF Started, Looping
<1>6. Meeting' /\ Listens'
  BY <1>2, <1>4, <1>5 DEF IInv, Meeting, Listens, hcaVars
<1>7. ~opt.faulty => Dialogue'
  BY <1>1, <1>2, <1>3, <1>4 DEF IInv, Clean, Listens, Dialogue, Looping, LeftLoop
<1>8. "connect" \in Early("client") /\ "writeAddr" \in Early("client")
  BY DEF Early
<1>9. /\ sock' \in [Sides -> {"none", "open", "closed"}] /\ listening' \in BOOLEAN
      /\ inbox' \in [Sides -> Seq({"addr", "done"})]
  BY <1>2, <1>3 DEF IInv, Types
<1> QED
  BY <1>1, <1>2, <1>6, <1>7, <1>8, <1>9, AlongIInv, Zenon

LEMMA WriteAddrIInv == ASSUME IInv, NEW s \in Sides, WriteAddr(s) PROVE IInv'
<1> USE TwoSides
<1> DEFINE next == IF s = "server" THEN "readDone" ELSE "readAddr"
<1>1. pc[s] = "writeAddr" /\ pc' = [pc EXCEPT ![s] = next]
  BY DEF WriteAddr, Goto
<1>2. UNCHANGED <<opt, held, sock, listening, loopVars, hcaVars, eventVars>>
  BY DEF WriteAddr
<1>3. inbox \in [Sides -> Seq({"addr", "done"})] /\ inbox' = [inbox EXCEPT ![Peer(s)] = Append(inbox[Peer(s)], "addr")]
  BY DEF IInv, Types, WriteAddr
<1>4. /\ inbox' \in [Sides -> Seq({"addr", "done"})]
      /\ inbox'[Peer(s)] = Append(inbox[Peer(s)], "addr") /\ inbox'[s] = inbox[s]
  <2>1. Append(inbox[Peer(s)], "addr") \in Seq({"addr", "done"})
    BY <1>3
  <2> QED
    BY <1>3, <2>1
<1>5. pc'[s] = next /\ pc'[Peer(s)] = pc[Peer(s)]
  BY <1>1 DEF IInv, Types
<1>6. Meeting'
  <2>1. CASE s = "server"
    <3>1. qp["server"] = "ready"
      BY <1>1, <2>1 DEF IInv, Own, Stage, Linked
    <3> QED
      BY <1>2, <3>1 DEF Meeting, hcaVars
  <2>2. CASE s = "client"
    <3>1. ~Started("client") /\ ~Started("client")' /\ pc'["client"] = "readAddr"
      BY <1>1, <1>5, <2>2 DEF Started, Looping
    <3> QED
      BY <1>2, <1>4, <2>2, <3>1 DEF IInv, Meeting, hcaVars
  <2> QED
    BY <2>1, <2>2
<1>7. Listens'
  BY <1>1, <1>2, <1>5 DEF IInv, Listens
<1>8. ~opt.faulty => Dialogue'
  <2> SUFFICES ASSUME ~opt.faulty PROVE Dialogue'
    OBVIOUS
  <2>1. Dialogue
    BY DEF IInv, Clean
  <2>2. inbox[Peer(s)] = <<>>
    BY <1>1, <2>1 DEF Dialogue, Looping, LeftLoop
  <2>3. inbox'[Peer(s)] = <<"addr">>
    BY <1>4, <2>2
  <2>4. CASE s = "server"
    BY <1>1, <1>2, <1>4, <1>5, <2>1, <2>3, <2>4 DEF Dialogue, Looping, LeftLoop
  <2>5. CASE s = "client"
    BY <1>1, <1>2, <1>4, <1>5, <2>1, <2>3, <2>5 DEF Dialogue, Looping, LeftLoop
  <2> QED
    BY <2>4, <2>5
<1>9. \/ pc[s] \in Early(s) /\ next \in Early(s)
      \/ pc[s] \in Linked(s) /\ next \in Linked(s)
  BY <1>1 DEF Early, Linked
<1> HIDE DEF next
<1>10. sock' \in [Sides -> {"none", "open", "closed"}] /\ listening' \in BOOLEAN
  BY <1>2 DEF IInv, Types
<1> QED
  BY <1>1, <1>2, <1>4, <1>6, <1>7, <1>8, <1>9, <1>10, AlongIInv, Zenon

LEMMA ReadAddrIInv == ASSUME IInv, NEW s \in Sides, ReadAddr(s) PROVE IInv'
<1> USE TwoSides
<1> DEFINE next == IF s = "server" THEN "connectQp" ELSE "writeDone"
<1>1. pc[s] = "readAddr" /\ pc' = [pc EXCEPT ![s] = next] /\ inbox[s] # <<>>
  BY DEF ReadAddr, Goto
<1>2. UNCHANGED <<opt, sock, listening, loopVars, hcaVars, eventVars>> /\ held' = [held EXCEPT ![s] = @ \cup {"rem"}]
  BY DEF ReadAddr
<1>3. inbox \in [Sides -> Seq({"addr", "done"})] /\ inbox' = [inbox EXCEPT ![s] = Tail(inbox[s])]
  BY DEF IInv, Types, ReadAddr
<1>4. /\ inbox' \in [Sides -> Seq({"addr", "done"})]
      /\ inbox'[s] = Tail(inbox[s]) /\ inbox'[Peer(s)] = inbox[Peer(s)]
  <2>1. Tail(inbox[s]) \in Seq({"addr", "done"})
    BY <1>1, <1>3
  <2> QED
    BY <1>3, <2>1
<1>5. pc'[s] = next /\ pc'[Peer(s)] = pc[Peer(s)]
  BY <1>1 DEF IInv, Types
<1>6. Meeting'
  <2>1. CASE s = "server"
    BY <1>2, <1>4, <1>5, <2>1 DEF IInv, Meeting, Started, hcaVars
  <2>2. CASE s = "client"
    BY <1>1, <1>2, <2>2 DEF IInv, Meeting, hcaVars
  <2> QED
    BY <2>1, <2>2
<1>7. Listens'
  BY <1>1, <1>2, <1>5 DEF IInv, Listens
<1>8. ~opt.faulty => Dialogue'
  <2> SUFFICES ASSUME ~opt.faulty PROVE Dialogue'
    OBVIOUS
  <2>1. Dialogue
    BY DEF IInv, Clean
  <2>2. inbox[s] = <<"addr">>
    BY <1>1, <2>1 DEF Dialogue, Looping, LeftLoop
  <2>3. inbox'[s] = <<>>
    BY <1>4, <2>2
  <2>4. CASE s = "server"
    BY <1>1, <1>2, <1>4, <1>5, <2>1, <2>2, <2>3, <2>4 DEF Dialogue, Looping, LeftLoop
  <2>5. CASE s = "client"
    BY <1>1, <1>2, <1>4, <1>5, <2>1, <2>2, <2>3, <2>5 DEF Dialogue, Looping, LeftLoop
  <2> QED
    BY <2>4, <2>5
<1>9. pc[s] \in Early(s) /\ next \in Early(s)
  BY <1>1 DEF Early
<1> HIDE DEF next
<1>10. sock' \in [Sides -> {"none", "open", "closed"}] /\ listening' \in BOOLEAN
  BY <1>2 DEF IInv, Types
<1> QED
  BY <1>1, <1>2, <1>4, <1>6, <1>7, <1>8, <1>9, <1>10, AlongIInv, Zenon

LEMMA WriteDoneIInv == ASSUME IInv, WriteDone PROVE IInv'
<1> USE TwoSides
<1>1. pc["client"] = "writeDone" /\ pc' = [pc EXCEPT !["client"] = "connectQp"]
  BY DEF WriteDone, Goto
<1>2. UNCHANGED <<opt, held, listening, loopVars, hcaVars, eventVars>>
  BY DEF WriteDone
<1>3. /\ inbox \in [Sides -> Seq({"addr", "done"})]
      /\ inbox' = [inbox EXCEPT !["server"] = Append(inbox["server"], "done")]
      /\ sock' = [sock EXCEPT !["client"] = "closed"] /\ sock \in [Sides -> {"none", "open", "closed"}]
  BY DEF IInv, Types, WriteDone
<1>4. inbox' \in [Sides -> Seq({"addr", "done"})] /\ sock' \in [Sides -> {"none", "open", "closed"}]
  <2>1. Append(inbox["server"], "done") \in Seq({"addr", "done"})
    BY <1>3
  <2> QED
    BY <1>3, <2>1
<1>5. pc'["client"] = "connectQp" /\ pc'["server"] = pc["server"]
  BY <1>1 DEF IInv, Types
<1>6. Meeting'
  BY <1>1, <1>2 DEF IInv, Meeting, hcaVars
<1>7. Listens'
  BY <1>2, <1>5 DEF IInv, Listens
<1>8. ~opt.faulty => Dialogue'
  BY <1>1, <1>5 DEF IInv, Clean, Dialogue, Looping, LeftLoop
<1>9. "writeDone" \in Early("client") /\ "connectQp" \in Early("client")
  BY DEF Early
<1>10. listening' \in BOOLEAN
  BY <1>2 DEF IInv, Types
<1> QED
  BY <1>1, <1>2, <1>4, <1>6, <1>7, <1>8, <1>9, <1>10, AlongIInv, Zenon

LEMMA ReadDoneIInv == ASSUME IInv, ReadDone PROVE IInv'
<1> USE TwoSides
<1>1. /\ pc["server"] = "readDone" /\ pc' = [pc EXCEPT !["server"] = "begin"]
      /\ inbox["server"] # <<>> \/ HungUp("client")
  BY DEF ReadDone, Goto
<1>2. UNCHANGED <<opt, held, listening, loopVars, hcaVars, eventVars>>
  BY DEF ReadDone
<1>3. /\ inbox \in [Sides -> Seq({"addr", "done"})] /\ inbox' = [inbox EXCEPT !["server"] = <<>>]
      /\ sock' = [sock EXCEPT !["server"] = "closed"] /\ sock \in [Sides -> {"none", "open", "closed"}]
  BY DEF IInv, Types, ReadDone
<1>4. /\ inbox' \in [Sides -> Seq({"addr", "done"})] /\ sock' \in [Sides -> {"none", "open", "closed"}]
      /\ inbox'["client"] = inbox["client"]
  <2>1. <<>> \in Seq({"addr", "done"})
    OBVIOUS
  <2> QED
    BY <1>3, <2>1
<1>5. pc'["server"] = "begin" /\ pc'["client"] = pc["client"]
  BY <1>1 DEF IInv, Types
<1>6. Meeting'
  BY <1>2, <1>4, <1>5 DEF IInv, Meeting, Started, hcaVars
<1>7. Listens'
  BY <1>1, <1>2, <1>5 DEF IInv, Listens
<1>8. ~opt.faulty => Dialogue'
  BY <1>1, <1>5 DEF IInv, Clean, Dialogue, Looping, LeftLoop, HungUp
<1>9. "readDone" \in Linked("server") /\ "begin" \in Linked("server")
  BY DEF Linked
<1>10. listening' \in BOOLEAN
  BY <1>2 DEF IInv, Types
<1> QED
  BY <1>1, <1>2, <1>4, <1>6, <1>7, <1>8, <1>9, <1>10, AlongIInv, Zenon

LEMMA ConnectQpIInv == ASSUME IInv, NEW s \in Sides, ConnectQp(s) PROVE IInv'
<1> USE TwoSides
<1> DEFINE next == IF s = "server" THEN "writeAddr" ELSE "begin"
<1>1. /\ pc[s] = "connectQp" /\ pc' = [pc EXCEPT ![s] = next] /\ qp' = [qp EXCEPT ![s] = "ready"]
      /\ UNCHANGED <<opt, setupVars, loopVars, rq, sq, cq, eventVars>>
  BY DEF ConnectQp, Goto
<1>2. /\ pc \in [Sides -> SettingUp \cup Looping \cup {"close"} \cup Exits]
      /\ qp \in [Sides -> {"none", "init", "ready", "gone"}]
  BY DEF IInv, Types
<1>3. /\ pc'[s] = next /\ pc'[Peer(s)] = pc[Peer(s)] /\ qp'[s] = "ready" /\ qp'[Peer(s)] = qp[Peer(s)]
  BY <1>1, <1>2
<1>4. Quiet /\ Same(Peer(s))
  BY <1>1, <1>3 DEF Quiet, Same, setupVars, loopVars, eventVars
<1>5. /\ pc[s] \in Early(s) /\ next \in Linked(s) /\ next \in SettingUp
  BY <1>1 DEF Early, Linked, SettingUp, Exchanging
<1>6. /\ pc'[s] \notin {"open", "prepare"} \cup Early(s) \cup Looping \cup LeftLoop \cup Exits
      /\ pc[s] \notin {"open", "prepare"} \cup Linked(s) \cup Looping \cup LeftLoop \cup Exits
  BY <1>1, <1>3 DEF Early, Linked, Looping, LeftLoop, Exits
<1>7. Types'
  <2>1. /\ pc' \in [Sides -> SettingUp \cup Looping \cup {"close"} \cup Exits]
        /\ qp' \in [Sides -> {"none", "init", "ready", "gone"}]
    BY <1>1, <1>2, <1>5
  <2> QED
    BY <1>1, <2>1 DEF IInv, Types, setupVars, loopVars, eventVars
<1>8. ~Started(s)' /\ ~Started(s)
  BY <1>1, <1>3 DEF Started, Looping
<1>9. Own(s)'
  <2>1. Own(s)
    BY DEF IInv
  <2>2. Stage(s)'
    BY <1>1, <1>3, <1>5, <1>6, <2>1 DEF Own, Stage, setupVars, LeftLoop
  <2>3. Untouched(s)'
    BY <1>4, <1>6, <1>8, <2>1 DEF Own, Untouched, Quiet
  <2>4. Posted(s)'
    BY <1>4, <1>6, <2>1 DEF Own, Posted, Due, Out, Quiet, Looping
  <2>5. Receives(s)'
    BY <1>1, <1>5, <2>1 DEF Own, Receives, Due, loopVars
  <2>6. Wakeups(s)'
    BY <1>1, <1>5, <1>6, <2>1 DEF Own, Wakeups, eventVars, Looping
  <2> QED
    BY <2>2, <2>3, <2>4, <2>5, <2>6 DEF Own
<1>10. Meeting'
  <2>1. CASE s = "server"
    BY <1>3, <2>1 DEF Meeting
  <2>2. CASE s = "client"
    BY <1>1, <1>3, <2>2 DEF IInv, Meeting, setupVars
  <2> QED
    BY <2>1, <2>2
<1>11. Listens'
  BY <1>1, <1>3 DEF IInv, Listens, setupVars
<1>12. ~opt.faulty => Dialogue'
  BY <1>1, <1>3 DEF IInv, Clean, Dialogue, Looping, LeftLoop, setupVars
<1> QED
  BY <1>4, <1>7, <1>8, <1>9, <1>10, <1>11, <1>12, QuietIInv

-----------------------------------------------------------------------------
(* Steps of a process in its loop and after it.                            *)

Late == Looping \cup LeftLoop

LEMMA LateFacts ==
  ASSUME IInv, NEW s \in Sides, pc[s] \in Late, pc'[s] \in Late, pc'[Peer(s)] = pc[Peer(s)],
         UNCHANGED <<opt, listening, inbox>>,
         qp'[Peer(s)] = qp[Peer(s)], qp'[s] = qp[s] \/ qp'[s] \in {"ready", "gone"}
  PROVE  /\ Started(s)' /\ Started(s) /\ \A t \in Sides : Started(t)' <=> Started(t)
         /\ Meeting' /\ Listens' /\ (~opt.faulty => Dialogue')
<1> USE TwoSides
<1>1. Started(s)' /\ Started(s)
  BY DEF Started, Late, Looping, LeftLoop
<1>2. \A t \in Sides : Started(t)' <=> Started(t)
  BY <1>1 DEF Started
<1>3. pc[s] \notin {"accept", "writeDone", "connectQp", "begin"} /\ pc'[s] \notin {"accept", "writeDone", "connectQp", "begin"}
  BY DEF Late, Looping, LeftLoop
<1>4. Meeting'
  <2>1. Meeting
    BY DEF IInv
  <2>2. pc'["client"] \notin {"writeDone", "connectQp", "begin"} \/ pc'["client"] = pc["client"]
    BY <1>3
  <2>3. qp'["server"] = qp["server"] \/ qp'["server"] \in {"ready", "gone"}
    OBVIOUS
  <2> QED
    BY <1>2, <2>1, <2>2, <2>3 DEF Meeting
<1>5. Listens'
  BY <1>3 DEF IInv, Listens
<1>6. ~opt.faulty => Dialogue'
  <2> SUFFICES ASSUME ~opt.faulty PROVE Dialogue'
    OBVIOUS
  <2>1. Dialogue
    BY DEF IInv, Clean
  <2>2. pc["client"] \in {"connectQp", "begin"} \cup Looping \cup LeftLoop
        /\ pc["server"] \in {"readDone", "begin"} \cup Looping \cup LeftLoop
    BY <2>1 DEF Dialogue, Late, Looping, LeftLoop
  <2>3. pc'["client"] \in {"connectQp", "begin"} \cup Looping \cup LeftLoop
        /\ pc'["server"] \in {"readDone", "begin"} \cup Looping \cup LeftLoop
    BY <2>2 DEF Late
  <2> QED
    BY <2>3 DEF Dialogue
<1> QED
  BY <1>1, <1>2, <1>4, <1>5, <1>6

LEMMA LateSteps ==
  /\ Looping \subseteq Late /\ LeftLoop \subseteq Late /\ Looping \cap LeftLoop = {}
  /\ \A s \in Sides, l \in Late : l \notin {"open", "prepare"} \cup Early(s) \cup Linked(s)
  /\ {"loop", "arm", "poll"} = Looping
BY DEF Late, Looping, LeftLoop, Early, Linked

(* A step of the loop that only takes or requests an event.                *)
LEMMA EventIInv ==
  ASSUME IInv, NEW s \in Sides, NEW l \in Looping, pc' = [pc EXCEPT ![s] = l],
         pc[s] \in Looping, wc[s] = <<>>,
         UNCHANGED <<opt, setupVars, pending, routs, rcnt, scnt, wc, hcaVars, acked>>,
         got' \in [Sides -> Nat], events' \in [Sides -> Nat], armed' \in [Sides -> BOOLEAN],
         events'[Peer(s)] = events[Peer(s)], armed'[Peer(s)] = armed[Peer(s)], Wakeups(s)'
  PROVE  IInv'
<1> USE TwoSides
<1>1. pc \in [Sides -> SettingUp \cup Looping \cup {"close"} \cup Exits]
  BY DEF IInv, Types
<1>2. pc'[s] = l /\ pc'[Peer(s)] = pc[Peer(s)]
  BY <1>1
<1>3. Quiet /\ Same(Peer(s))
  BY <1>2 DEF Quiet, Same, setupVars, hcaVars
<1>4. Types'
  <2>1. pc' \in [Sides -> SettingUp \cup Looping \cup {"close"} \cup Exits]
    BY <1>1
  <2> QED
    BY <2>1 DEF IInv, Types, setupVars, hcaVars
<1>5. /\ pc'[s] \notin {"open", "prepare"} \cup Early(s) \cup Linked(s) \cup LeftLoop \cup {"close"} \cup Exits
      /\ pc[s] \notin {"open", "prepare"} \cup Early(s) \cup Linked(s) \cup LeftLoop \cup {"close"} \cup Exits
      /\ Started(s)' /\ Started(s)
  BY <1>2 DEF Early, Linked, Looping, LeftLoop, Exits, Started
<1>6. Own(s)'
  <2>1. Own(s)
    BY DEF IInv
  <2>2. Stage(s)'
    BY <1>2, <1>5, <2>1 DEF Own, Stage, setupVars, hcaVars
  <2>3. Untouched(s)'
    BY <1>5 DEF Untouched
  <2>4. Posted(s)'
    BY <1>3, <2>1 DEF Own, Posted, Due, Out, Quiet
  <2>5. Receives(s)'
    BY <1>2, <2>1 DEF Own, Receives, Due, hcaVars
  <2> QED
    BY <2>2, <2>3, <2>4, <2>5 DEF Own
<1>7. Meeting' /\ Listens' /\ (~opt.faulty => Dialogue')
  BY <1>2, LateFacts, LateSteps DEF setupVars, hcaVars
<1> QED
  BY <1>3, <1>4, <1>5, <1>6, <1>7, QuietIInv

LEMMA GetEventIInv == ASSUME IInv, NEW s \in Sides, GetEvent(s) PROVE IInv'
<1> USE TwoSides
<1>1. /\ pc \in [Sides -> SettingUp \cup Looping \cup {"close"} \cup Exits]
      /\ events \in [Sides -> Nat] /\ got \in [Sides -> Nat] /\ armed \in [Sides -> BOOLEAN]
  BY DEF IInv, Types
<1>2. /\ pc[s] = "loop" /\ wc[s] = <<>> /\ opt.event[s] /\ events[s] > 0
      /\ pc' = [pc EXCEPT ![s] = "arm"]
      /\ events' = [events EXCEPT ![s] = @ - 1] /\ got' = [got EXCEPT ![s] = @ + 1]
      /\ UNCHANGED <<opt, setupVars, pending, routs, rcnt, scnt, wc, hcaVars, armed, acked>>
  BY DEF GetEvent, AtLoopTest, Goto
<1>3. Wakeups(s)
  BY DEF IInv, Own
<1>4. events[s] = 1 /\ ~armed[s]
  BY <1>1, <1>2, <1>3 DEF Wakeups
<1>5. /\ events' \in [Sides -> Nat] /\ got' \in [Sides -> Nat] /\ armed' \in [Sides -> BOOLEAN]
      /\ events'[s] = 0 /\ events'[Peer(s)] = events[Peer(s)] /\ armed' = armed /\ pc'[s] = "arm"
  BY <1>1, <1>2, <1>4
<1>6. Wakeups(s)'
  <2>1. "arm" \notin Early(s) \cup Linked(s)
    BY DEF Early, Linked
  <2> QED
    BY <1>2, <1>4, <1>5, <2>1 DEF Wakeups
<1> QED
  BY <1>2, <1>5, <1>6, EventIInv DEF Looping

LEMMA ArmIInv == ASSUME IInv, NEW s \in Sides, Arm(s) PROVE IInv'
<1> USE TwoSides
<1>1. /\ pc \in [Sides -> SettingUp \cup Looping \cup {"close"} \cup Exits]
      /\ events \in [Sides -> Nat] /\ got \in [Sides -> Nat] /\ armed \in [Sides -> BOOLEAN]
  BY DEF IInv, Types
<1>2. /\ pc[s] = "arm" /\ pc' = [pc EXCEPT ![s] = "poll"]
      /\ armed' = [armed EXCEPT ![s] = TRUE]
      /\ UNCHANGED <<opt, setupVars, loopVars, hcaVars, events, acked>>
  BY DEF Arm, Goto
<1>3. opt.event[s] /\ events[s] = 0 /\ wc[s] = <<>>
  BY <1>2 DEF IInv, Own, Wakeups, Posted
<1>4. armed' \in [Sides -> BOOLEAN] /\ armed'[s] /\ armed'[Peer(s)] = armed[Peer(s)] /\ pc'[s] = "poll"
  BY <1>1, <1>2
<1>5. Wakeups(s)'
  <2>1. "poll" \notin Early(s) \cup Linked(s)
    BY DEF Early, Linked
  <2> QED
    BY <1>2, <1>3, <1>4, <2>1 DEF Wakeups
<1> QED
  BY <1>1, <1>2, <1>3, <1>4, <1>5, EventIInv DEF Looping, loopVars

(* A step of a process that has left the loop, or leaves it.               *)
LEMMA LeaveIInv ==
  ASSUME IInv, NEW s \in Sides, NEW l \in LeftLoop, pc' = [pc EXCEPT ![s] = l],
         pc[s] = "close" \/ (AtLoopTest(s) /\ ~LoopGoesOn(s)),
         UNCHANGED <<opt, sock, listening, inbox, loopVars, rq, sq, cq, armed, events>>,
         held' \in [Sides -> SUBSET Things], held'[Peer(s)] = held[Peer(s)],
         qp' \in [Sides -> {"none", "init", "ready", "gone"}], qp'[Peer(s)] = qp[Peer(s)],
         qp'[s] \in {"ready", "gone"}, l \in Exits => qp'[s] = "gone",
         "qp" \in held'[s] <=> qp'[s] = "ready",
         acked' \in [Sides -> Nat]
  PROVE  IInv'
<1> USE TwoSides
<1>1. /\ pc \in [Sides -> SettingUp \cup Looping \cup {"close"} \cup Exits]
      /\ rcnt[s] \in Nat /\ scnt[s] \in Nat
  BY DEF IInv, Types
<1>2. pc'[s] = l /\ pc'[Peer(s)] = pc[Peer(s)]
  BY <1>1
<1>3. Quiet /\ Same(Peer(s))
  BY <1>2 DEF Quiet, Same, loopVars
<1>4. Types'
  <2>1. pc' \in [Sides -> SettingUp \cup Looping \cup {"close"} \cup Exits]
    BY <1>1 DEF LeftLoop, Exits
  <2> QED
    BY <2>1 DEF IInv, Types, loopVars
<1>5. /\ pc'[s] \notin {"open", "prepare"} \cup Early(s) \cup Linked(s) \cup Looping
      /\ pc'[s] \in {"close"} \cup Exits
  BY <1>2 DEF Early, Linked, Looping, LeftLoop, Exits
<1>6. pc[s] \in Late /\ pc'[s] \in Late
  BY <1>2 DEF Late, Looping, LeftLoop, AtLoopTest
<1>7. /\ Started(s)' /\ Started(s) /\ Meeting' /\ Listens' /\ (~opt.faulty => Dialogue')
  BY <1>2, <1>6, LateFacts
<1>8. Own(s)'
  <2>1. Own(s)
    BY DEF IInv
  <2>2. rcnt[s] >= Iters
    <3>1. CASE pc[s] = "close"
      BY <2>1, <3>1 DEF Own, Stage, LeftLoop
    <3>2. CASE ~LoopGoesOn(s)
      BY <1>1, <3>2, ItersAssumption DEF LoopGoesOn
    <3> QED
      BY <3>1, <3>2
  <2>3. Stage(s)'
    BY <1>2, <1>3, <1>5, <2>2 DEF Stage, Quiet, Exits
  <2>4. Untouched(s)'
    BY <1>5, <1>7 DEF Untouched
  <2>5. Posted(s)'
    BY <1>3, <1>5, <2>1 DEF Own, Posted, Due, Out, Quiet, Looping
  <2>6. Receives(s)'
    BY <1>5 DEF Receives
  <2>7. Wakeups(s)'
    BY <1>5, <2>1 DEF Own, Wakeups, Looping
  <2> QED
    BY <2>3, <2>4, <2>5, <2>6, <2>7 DEF Own
<1> QED
  BY <1>3, <1>4, <1>7, <1>8, QuietIInv

LEMMA AckEventsIInv == ASSUME IInv, NEW s \in Sides, AckEvents(s) PROVE IInv'
<1> USE TwoSides
<1>1. /\ AtLoopTest(s) /\ ~LoopGoesOn(s) /\ pc' = [pc EXCEPT ![s] = "close"]
      /\ acked' = [acked EXCEPT ![s] = got[s]]
      /\ UNCHANGED <<opt, setupVars, loopVars, hcaVars, armed, events>>
  BY DEF AckEvents, Goto
<1>2. qp[s] = "ready" /\ "qp" \in held[s]
  BY <1>1 DEF IInv, Own, Stage, AtLoopTest, Looping
<1>3. acked' \in [Sides -> Nat]
  BY <1>1 DEF IInv, Types
<1>4. /\ held \in [Sides -> SUBSET Things] /\ qp \in [Sides -> {"none", "init", "ready", "gone"}]
      /\ held' = held /\ qp' = qp /\ sock' = sock /\ listening' = listening /\ inbox' = inbox
      /\ rq' = rq /\ sq' = sq /\ cq' = cq
  BY <1>1 DEF IInv, Types, setupVars, hcaVars
<1>5. "close" \in LeftLoop /\ "close" \notin Exits
  BY DEF LeftLoop, Exits
<1> QED
  BY <1>1, <1>2, <1>3, <1>4, <1>5, LeaveIInv

LEMMA FreeIInv == ASSUME IInv, NEW s \in Sides, Free(s) PROVE IInv'
<1> USE TwoSides
<1> DEFINE r == Head(ToFree(s))
<1>1. /\ pc[s] = "close"
      /\ held' = [held EXCEPT ![s] = @ \ {r}]
      /\ qp' = [qp EXCEPT ![s] = IF r = "qp" THEN "gone" ELSE @]
      /\ UNCHANGED <<opt, pc, sock, listening, inbox, loopVars, rq, sq, cq, eventVars>>
  BY DEF Free
<1> HIDE DEF r
<1>2. /\ held \in [Sides -> SUBSET Things] /\ qp \in [Sides -> {"none", "init", "ready", "gone"}]
      /\ pc \in [Sides -> SettingUp \cup Looping \cup {"close"} \cup Exits] /\ acked \in [Sides -> Nat]
  BY DEF IInv, Types
<1>3. qp[s] \in {"ready", "gone"} /\ ("qp" \in held[s] <=> qp[s] = "ready")
  BY <1>1 DEF IInv, Own, Stage
<1>4. /\ held' \in [Sides -> SUBSET Things] /\ held'[Peer(s)] = held[Peer(s)]
      /\ held'[s] = held[s] \ {r}
  BY <1>1, <1>2
<1>5. PICK v \in {"none", "init", "ready", "gone"} :
        v = (IF r = "qp" THEN "gone" ELSE qp[s]) /\ qp' = [qp EXCEPT ![s] = v]
  BY <1>1, <1>2
<1>6. /\ qp' \in [Sides -> {"none", "init", "ready", "gone"}] /\ qp'[Peer(s)] = qp[Peer(s)]
      /\ qp'[s] = IF r = "qp" THEN "gone" ELSE qp[s]
  BY <1>2, <1>5
<1>7. qp'[s] \in {"ready", "gone"} /\ ("qp" \in held'[s] <=> qp'[s] = "ready")
  BY <1>3, <1>4, <1>6
<1>8. pc' = [pc EXCEPT ![s] = "close"]
  BY <1>1, <1>2
<1>9. "close" \in LeftLoop /\ "close" \notin Exits
  BY DEF LeftLoop, Exits
<1>10. acked' = acked /\ armed' = armed /\ events' = events
  BY <1>1 DEF eventVars
<1>11. /\ opt' = opt /\ sock' = sock /\ listening' = listening /\ inbox' = inbox
       /\ rq' = rq /\ sq' = sq /\ cq' = cq /\ loopVars' = loopVars
  BY <1>1
<1>12. acked' \in [Sides -> Nat] /\ qp'[s] \in {"ready", "gone"} /\ pc[s] = "close"
  BY <1>1, <1>2, <1>7, <1>10
<1> QED
  BY <1>4, <1>6, <1>7, <1>8, <1>9, <1>10, <1>11, <1>12, LeaveIInv

LEMMA ReturnIInv == ASSUME IInv, NEW s \in Sides, Return(s) PROVE IInv'
<1> USE TwoSides
<1>1. /\ pc[s] = "close" /\ held[s] = {} /\ pc' = [pc EXCEPT ![s] = "exit0"]
      /\ UNCHANGED <<opt, setupVars, loopVars, hcaVars, eventVars>>
  BY DEF Return, Goto
<1>2. qp[s] = "gone"
  BY <1>1 DEF IInv, Own, Stage
<1>3. /\ held \in [Sides -> SUBSET Things] /\ qp \in [Sides -> {"none", "init", "ready", "gone"}]
      /\ acked \in [Sides -> Nat]
      /\ held' = held /\ qp' = qp /\ sock' = sock /\ listening' = listening /\ inbox' = inbox
      /\ rq' = rq /\ sq' = sq /\ cq' = cq /\ armed' = armed /\ events' = events /\ acked' = acked
  BY <1>1 DEF IInv, Types, setupVars, hcaVars, eventVars
<1>4. "exit0" \in LeftLoop
  BY DEF LeftLoop
<1> QED
  BY <1>1, <1>2, <1>3, <1>4, LeaveIInv

-----------------------------------------------------------------------------
(* Steps that move the message or count it.                                *)

LEMMA OneFacts == One(TRUE) = 1 /\ One(FALSE) = 0 /\ \A b \in BOOLEAN : One(b) \in {0, 1}
BY DEF One

(* What is bad is a send.                                                  *)
LEMMA BadDue ==
  ASSUME NEW s \in Sides, Posted(s)
  PROVE  Bad(s) => Due(s, Send) /\ sq[s] = "idle"
<1> SUFFICES ASSUME Bad(s) PROVE Due(s, Send) /\ sq[s] = "idle"
  OBVIOUS
<1>1. Due(s, Send)
  BY BadFacts DEF Posted, Bad, Due
<1> QED
  BY <1>1 DEF Posted

LEMMA BeginIInv ==
  ASSUME IInv, NEW s \in Sides, Begin(s)
  PROVE  /\ IInv' /\ pc[s] = "begin" /\ pc' = [pc EXCEPT ![s] = "loop"] /\ rcnt' = rcnt
         /\ AtRest \/ (s = "client" /\ Has("client") /\ sq'["client"] = "wire")
<1> USE TwoSides
<1> DEFINE bits == IF s = "client" THEN {Recv, Send} ELSE {Recv}
           slot == IF s = "client" THEN "wire" ELSE sq[s]
<1>1. /\ pc[s] = "begin" /\ pc' = [pc EXCEPT ![s] = "loop"]
      /\ pending' = [pending EXCEPT ![s] = bits]
      /\ sq' = [sq EXCEPT ![s] = slot]
      /\ UNCHANGED <<opt, setupVars, routs, rcnt, scnt, wc, got, qp, rq, cq, eventVars>>
  BY DEF Begin, Goto
<1>2. /\ pc \in [Sides -> SettingUp \cup Looping \cup {"close"} \cup Exits]
      /\ pending \in [Sides -> SUBSET {Recv, Send}]
      /\ sq \in [Sides -> {"idle", "wire", "arrived"}]
  BY DEF IInv, Types
<1>3. bits \in SUBSET {Recv, Send} /\ slot \in {"idle", "wire", "arrived"}
  BY <1>2
<1>4. Recv \in bits /\ (Send \in bits <=> s = "client")
  BY WcFacts
<1>5. s = "client" => slot = "wire"
  OBVIOUS
<1>6. s = "server" => slot = sq[s]
  OBVIOUS
<1> HIDE DEF bits, slot
<1>7. /\ pc'[s] = "loop" /\ pending'[s] = bits /\ sq'[s] = slot
      /\ pc'[Peer(s)] = pc[Peer(s)] /\ pending'[Peer(s)] = pending[Peer(s)] /\ sq'[Peer(s)] = sq[Peer(s)]
  BY <1>1, <1>2
<1>8. Same(Peer(s))
  BY <1>1, <1>7 DEF Same, setupVars, eventVars
<1>9. Types'
  <2>1. /\ pc' \in [Sides -> SettingUp \cup Looping \cup {"close"} \cup Exits]
        /\ pending' \in [Sides -> SUBSET {Recv, Send}]
        /\ sq' \in [Sides -> {"idle", "wire", "arrived"}]
    BY <1>1, <1>2, <1>3 DEF Looping
  <2> QED
    BY <1>1, <2>1 DEF IInv, Types, setupVars, eventVars
<1>10. Own(s) /\ Own(Peer(s)) /\ ~Started(s) /\ Started(s)'
  BY <1>1, <1>7 DEF IInv, Started, Looping
<1>11. /\ pending[s] = {} /\ wc[s] = <<>> /\ sq[s] = "idle" /\ rcnt[s] = 0 /\ scnt[s] = 0
       /\ ~HasOp(cq[s], Send) /\ ~Due(s, Send) /\ ~Out(s) /\ ~Bad(s) /\ Posted(s)
  <2>1. /\ pending[s] = {} /\ wc[s] = <<>> /\ sq[s] = "idle" /\ rcnt[s] = 0 /\ scnt[s] = 0
        /\ ~HasOp(cq[s], Send) /\ Posted(s)
    BY <1>10 DEF Own, Untouched
  <2>2. ~Due(s, Send)
    BY <2>1, NoneFacts DEF Due
  <2> QED
    BY <2>1, <2>2, BadDue DEF Out
<1>12. /\ \A o : Due(s, o)' <=> Due(s, o)
       /\ Bad(s)' <=> Bad(s)
       /\ Out(s)' <=> s = "client"
  <2>1. (\A o : Due(s, o)' <=> Due(s, o)) /\ (Bad(s)' <=> Bad(s))
    BY <1>1 DEF Due, Bad
  <2> QED
    BY <1>5, <1>6, <1>7, <1>11, <2>1 DEF Out
<1>13. Own(s)'
  <2>1. /\ pc'[s] \notin {"open", "prepare", "arm", "poll"} \cup Early(s) \cup Linked(s) \cup {"close"} \cup Exits \cup LeftLoop
        /\ pc[s] \notin {"open", "prepare", "close"} \cup Early(s) \cup Exits \cup Looping
        /\ pc'[s] \in Looping /\ pc[s] \in Linked(s)
    BY <1>1, <1>7 DEF Early, Linked, Looping, Exits, LeftLoop
  <2>2. Stage(s)'
    BY <1>1, <1>10, <2>1 DEF Own, Stage, setupVars
  <2>3. Untouched(s)'
    BY <1>10, <2>1 DEF Untouched
  <2>4. Posted(s)'
    <3>1. Send \in pending'[s] <=> Out(s)'
      BY <1>4, <1>7, <1>12
    <3>2. ~Due(s, Send)' /\ wc'[s] = wc[s] /\ cq'[s] = cq[s]
      BY <1>1, <1>11, <1>12
    <3> QED
      BY <1>11, <2>1, <3>1, <3>2 DEF Posted
  <2>5. Receives(s)'
    <3>1. One(Due(s, Recv))' = One(Due(s, Recv))
      BY <1>12 DEF One
    <3> QED
      BY <1>1, <1>10, <2>1, <3>1 DEF Own, Receives
  <2>6. Wakeups(s)'
    BY <1>1, <1>7, <1>10, <2>1 DEF Own, Wakeups, eventVars
  <2> QED
    BY <2>2, <2>3, <2>4, <2>5, <2>6 DEF Own
<1>14. Own(Peer(s))'
  BY <1>1, <1>8, <1>10, OwnSame
<1>15. /\ ~Has(s)' /\ (Has(s) <=> s = "client") /\ (Has(Peer(s))' <=> Has(Peer(s)))
       /\ \A o : Due(Peer(s), o)' <=> Due(Peer(s), o)
       /\ Bad(Peer(s))' <=> Bad(Peer(s))
       /\ Out(Peer(s))' <=> Out(Peer(s))
  BY <1>4, <1>7, <1>8, <1>10, SameFacts DEF Has
<1>16. Apart(s) /\ Apart(Peer(s)) /\ Tally(s) /\ Tally(Peer(s))
  BY DEF IInv
<1>17. Apart(s)' /\ Apart(Peer(s))'
  BY <1>5, <1>6, <1>7, <1>11, <1>12, <1>15, <1>16 DEF Apart
<1>18. Tally(s)'
  <2>1. rcnt' = rcnt /\ scnt' = scnt /\ One(Due(Peer(s), Recv))' = One(Due(Peer(s), Recv))
    BY <1>1, <1>15 DEF One
  <2>2. One(sq[s] = "wire") = 0 /\ One(Out(s) /\ ~Bad(s)) = 0 /\ One(Out(s)) = 0 /\ scnt[s] = 0
    BY <1>11 DEF One
  <2>3. rcnt[Peer(s)] \in Nat /\ One(Due(Peer(s), Recv)) \in Nat
    BY DEF IInv, Types, One
  <2>4. CASE s = "client"
    <3>1. One(sq[s] = "wire")' = 1 /\ One(Out(s) /\ ~Bad(s))' = 1 /\ One(Out(s))' = 1
      BY <1>5, <1>7, <1>11, <1>12, <2>4 DEF One
    <3> QED
      BY <1>16, <2>1, <2>2, <2>3, <3>1, ItersAssumption DEF Tally
  <2>5. CASE s = "server"
    <3>1. One(sq[s] = "wire")' = 0 /\ One(Out(s) /\ ~Bad(s))' = 0 /\ One(Out(s))' = 0
      BY <1>6, <1>7, <1>11, <1>12, <2>5 DEF One
    <3> QED
      BY <1>16, <2>1, <2>2, <3>1 DEF Tally
  <2> QED
    BY <2>4, <2>5
<1>19. Tally(Peer(s))'
  <2>1. /\ One(sq[Peer(s)] = "wire")' = One(sq[Peer(s)] = "wire")
        /\ One(Due(s, Recv))' = One(Due(s, Recv))
        /\ One(Out(Peer(s)) /\ ~Bad(Peer(s)))' = One(Out(Peer(s)) /\ ~Bad(Peer(s)))
        /\ One(Out(Peer(s)))' = One(Out(Peer(s)))
    BY <1>7, <1>12, <1>15 DEF One
  <2> QED
    BY <1>1, <1>16, <2>1 DEF Tally
<1>20. Meeting' /\ Listens'
  <2>1. qp' = qp /\ inbox' = inbox /\ listening' = listening
    BY <1>1 DEF setupVars
  <2>2. pc[s] # "accept" /\ pc'[s] # "accept"
    BY <1>1, <1>7
  <2>3. Listens'
    BY <1>7, <2>1, <2>2 DEF IInv, Listens
  <2>4. CASE s = "server"
    <3>1. Started("client")' <=> Started("client")
      BY <1>7, <2>4 DEF Started
    <3> QED
      BY <1>7, <2>1, <2>3, <2>4, <3>1 DEF IInv, Meeting
  <2>5. CASE s = "client"
    BY <1>1, <2>1, <2>3, <2>5 DEF IInv, Meeting
  <2> QED
    BY <2>4, <2>5
<1>21. Clean'
  <2> SUFFICES ASSUME ~opt.faulty PROVE Dialogue' /\ \A t \in Sides : ~Bad(t)'
    BY <1>1 DEF Clean
  <2>1. Dialogue /\ \A t \in Sides : ~Bad(t)
    BY DEF IInv, Clean
  <2>2. \A t \in Sides : ~Bad(t)'
    BY <1>12, <1>15, <2>1
  <2>3. /\ pc["client"] \in {"connectQp", "begin"} \cup Looping \cup LeftLoop
        /\ pc["server"] \in {"readDone", "begin"} \cup Looping \cup LeftLoop
    BY <1>1, <2>1 DEF Dialogue, Looping, LeftLoop
  <2>4. /\ pc'["client"] \in {"connectQp", "begin"} \cup Looping \cup LeftLoop
        /\ pc'["server"] \in {"readDone", "begin"} \cup Looping \cup LeftLoop
    BY <1>7, <2>3 DEF Looping
  <2> QED
    BY <2>2, <2>4 DEF Dialogue
<1>22. AtRest \/ (s = "client" /\ Has("client") /\ sq'["client"] = "wire")
  <2>1. CASE s = "client"
    BY <1>5, <1>7, <1>15, <2>1
  <2>2. CASE s = "server"
    BY <1>6, <1>7, <1>12, <1>15, <2>2 DEF AtRest
  <2> QED
    BY <2>1, <2>2
<1>23. IInv'
  BY <1>9, <1>13, <1>14, <1>17, <1>18, <1>19, <1>20, <1>21 DEF IInv
<1> QED
  BY <1>1, <1>22, <1>23

LEMMA PollIInv ==
  ASSUME IInv, NEW s \in Sides, Poll(s)
  PROVE  /\ IInv' /\ AtRest /\ rcnt' = rcnt
         /\ pc[s] \in Looping /\ pc' = [pc EXCEPT ![s] = "loop"]
<1> USE TwoSides
<1> DEFINE n == IF Len(cq[s]) < 2 THEN Len(cq[s]) ELSE 2
<1>1. /\ MayPoll(s) /\ pc' = [pc EXCEPT ![s] = "loop"]
      /\ wc' = [wc EXCEPT ![s] = SubSeq(cq[s], 1, n)]
      /\ cq' = [cq EXCEPT ![s] = SubSeq(cq[s], n + 1, Len(cq[s]))]
      /\ UNCHANGED <<opt, setupVars, pending, routs, rcnt, scnt, got, qp, rq, sq, eventVars>>
  BY DEF Poll, PollUpTo, Goto
<1>2. /\ pc \in [Sides -> SettingUp \cup Looping \cup {"close"} \cup Exits]
      /\ wc \in [Sides -> Seq(Completions)] /\ cq \in [Sides -> Seq(Completions)]
  BY DEF IInv, Types
<1>3. Own(s) /\ Posted(s) /\ Wakeups(s)
  BY DEF IInv, Own
<1>4. SubSeq(cq[s], 1, n) = cq[s] /\ SubSeq(cq[s], n + 1, Len(cq[s])) = <<>>
  <2>1. Few(cq[s])
    BY <1>3 DEF Posted
  <2> QED
    BY <2>1, WholeFacts
<1> HIDE DEF n
<1>5. wc' = [wc EXCEPT ![s] = cq[s]] /\ cq' = [cq EXCEPT ![s] = <<>>]
  BY <1>1, <1>4
<1>6. /\ pc'[s] = "loop" /\ wc'[s] = cq[s] /\ cq'[s] = <<>>
      /\ pc'[Peer(s)] = pc[Peer(s)] /\ wc'[Peer(s)] = wc[Peer(s)] /\ cq'[Peer(s)] = cq[Peer(s)]
  BY <1>1, <1>2, <1>5
<1>7. Same(Peer(s))
  BY <1>1, <1>6 DEF Same, setupVars, eventVars
<1>8. Types'
  <2>1. <<>> \in Seq(Completions)
    OBVIOUS
  <2>2. wc' \in [Sides -> Seq(Completions)] /\ cq' \in [Sides -> Seq(Completions)]
    BY <1>2, <1>5, <2>1
  <2>3. pc' \in [Sides -> SettingUp \cup Looping \cup {"close"} \cup Exits]
    BY <1>1, <1>2 DEF Looping
  <2> QED
    BY <1>1, <2>2, <2>3 DEF IInv, Types, setupVars, eventVars
<1>9. pc[s] \in {"loop", "poll"} /\ wc[s] = <<>> /\ (pc[s] = "loop" => ~opt.event[s])
  BY <1>1, <1>3 DEF MayPoll, AtLoopTest, Posted
<1>10. (\A o : Due(s, o)' <=> Due(s, o)) /\ (Bad(s)' <=> Bad(s))
  BY <1>6, <1>9, NoneFacts DEF Due, Bad
<1>11. /\ pc'[s] \in Looping /\ pc[s] \in Looping
       /\ pc'[s] \notin {"open", "prepare", "arm"} \cup Early(s) \cup Linked(s) \cup LeftLoop \cup Exits
       /\ pc[s] \notin {"open", "prepare", "arm"} \cup Early(s) \cup Linked(s) \cup LeftLoop \cup Exits
  BY <1>6, <1>9 DEF Early, Linked, Looping, LeftLoop, Exits
<1>12. /\ Started(s)' /\ Started(s) /\ Meeting' /\ Listens' /\ (~opt.faulty => Dialogue')
  BY <1>1, <1>6, <1>11, LateFacts, LateSteps DEF setupVars
<1>13. Own(s)'
  <2>1. Stage(s)'
    BY <1>1, <1>3, <1>6, <1>11 DEF Own, Stage, setupVars, LeftLoop
  <2>2. Untouched(s)'
    BY <1>11, <1>12 DEF Untouched
  <2>3. Posted(s)'
    <3>1. Out(s)' <=> Out(s)
      BY <1>1, <1>10 DEF Out
    <3> QED
      BY <1>1, <1>3, <1>6, <1>10, <3>1, NoneFacts DEF Posted
  <2>4. Receives(s)'
    <3>1. One(Due(s, Recv))' = One(Due(s, Recv))
      BY <1>10 DEF One
    <3> QED
      BY <1>1, <1>3, <1>11, <3>1 DEF Own, Receives
  <2>5. Wakeups(s)'
    BY <1>1, <1>3, <1>6, <1>9, <1>11 DEF Wakeups, eventVars
  <2> QED
    BY <2>1, <2>2, <2>3, <2>4, <2>5 DEF Own
<1>14. Own(Peer(s))'
  BY <1>1, <1>7, OwnSame DEF IInv
<1>15. \A t \in Sides : /\ Has(t)' <=> Has(t)
                        /\ \A o : Due(t, o)' <=> Due(t, o)
                        /\ Bad(t)' <=> Bad(t)
  <2>1. Has(s)' <=> Has(s)
    BY <1>1, <1>12 DEF Has
  <2> QED
    BY <1>7, <1>10, <2>1, SameFacts
<1>16. \A t \in Sides : Apart(t)' /\ Tally(t)'
  BY <1>1, <1>15, TokensSame DEF IInv
<1>17. Clean'
  BY <1>1, <1>12, <1>15 DEF IInv, Clean
<1>18. IInv'
  BY <1>8, <1>12, <1>13, <1>14, <1>16, <1>17 DEF IInv
<1>19. AtRest
  BY <1>1, <1>15 DEF AtRest
<1> QED
  BY <1>1, <1>11, <1>18, <1>19

(* The handling of a completion that succeeded: it is the first in wc, and *)
(* one of its kind.                                                        *)
LEMMA HandledFacts ==
  ASSUME IInv, NEW s \in Sides, NEW o \in {Recv, Send}, Handling(s), Head(wc[s]) = Wc(o, TRUE)
  PROVE  /\ Few(Tail(wc[s])) /\ Started(s) /\ Due(s, o) /\ ~HasOp(cq[s], o)
         /\ ~HasOp(Tail(wc[s]), o)
         /\ \A p \in {Recv, Send} : p # o => (HasOp(Tail(wc[s]), p) <=> HasOp(wc[s], p))
         /\ HasBad(Tail(wc[s])) <=> HasBad(wc[s])
<1>1. Posted(s) /\ Few(wc[s]) /\ wc[s] # <<>> /\ pc[s] = "loop"
  BY DEF IInv, Own, Posted, Handling
<1>2. Head(wc[s]).op = o /\ Head(wc[s]).ok
  BY WcFacts
<1>3. /\ Few(Tail(wc[s])) /\ HasOp(wc[s], o)
      /\ \A p : HasOp(Tail(wc[s]), p) <=> HasOp(wc[s], p) /\ p # o
      /\ HasBad(wc[s]) <=> HasBad(Tail(wc[s]))
  BY <1>1, <1>2, TailFacts
<1>4. Started(s) /\ Due(s, o) /\ ~HasOp(cq[s], o)
  BY <1>1, <1>3 DEF Started, Looping, Due, Posted
<1> QED
  BY <1>3, <1>4

(* What both handlers have in common: s handles a completion o, counts it  *)
(* and perhaps posts the next send.  The last three hypotheses are about   *)
(* the message.                                                            *)
LEMMA HandledIInv ==
  ASSUME IInv, NEW s \in Sides, NEW o \in {Recv, Send}, Handling(s), Head(wc[s]) = Wc(o, TRUE),
         wc' = [wc EXCEPT ![s] = Tail(@)],
         UNCHANGED <<opt, inbox, got, cq, eventVars, pc, held, sock, listening, qp>>,
         NEW bits \in SUBSET {Recv, Send}, pending' = [pending EXCEPT ![s] = bits],
         NEW slot \in {"idle", "wire"} \cup {sq[s]}, sq' = [sq EXCEPT ![s] = slot],
         NEW books \in Nat, routs' = [routs EXCEPT ![s] = books],
         NEW queue \in Nat, rq' = [rq EXCEPT ![s] = queue],
         NEW caught \in Nat, rcnt' = [rcnt EXCEPT ![s] = caught],
         NEW sent \in Nat, scnt' = [scnt EXCEPT ![s] = sent],
         Receives(s)', Send \in bits <=> Out(s)', ~(slot # "idle" /\ Due(s, Send)'),
         Apart(s)', Apart(Peer(s))', Tally(s)', Tally(Peer(s))'
  PROVE  IInv'
<1> USE TwoSides
<1>1. /\ wc \in [Sides -> Seq(Completions)] /\ pending \in [Sides -> SUBSET {Recv, Send}]
      /\ sq \in [Sides -> {"idle", "wire", "arrived"}]
      /\ routs \in [Sides -> Nat] /\ rq \in [Sides -> Nat]
      /\ rcnt \in [Sides -> Nat] /\ scnt \in [Sides -> Nat]
  BY DEF IInv, Types
<1>2. /\ pending'[s] = bits /\ sq'[s] = slot /\ wc'[s] = Tail(wc[s])
      /\ pending'[Peer(s)] = pending[Peer(s)] /\ sq'[Peer(s)] = sq[Peer(s)] /\ wc'[Peer(s)] = wc[Peer(s)]
      /\ routs'[Peer(s)] = routs[Peer(s)] /\ rq'[Peer(s)] = rq[Peer(s)]
      /\ rcnt'[Peer(s)] = rcnt[Peer(s)] /\ scnt'[Peer(s)] = scnt[Peer(s)]
  BY <1>1
<1>3. Same(Peer(s))
  BY <1>2 DEF Same, eventVars
<1>4. /\ Few(Tail(wc[s])) /\ Started(s) /\ ~HasOp(Tail(wc[s]), o)
      /\ \A p \in {Recv, Send} : p # o => (HasOp(Tail(wc[s]), p) <=> HasOp(wc[s], p))
      /\ HasBad(Tail(wc[s])) <=> HasBad(wc[s])
  BY HandledFacts
<1>5. Types'
  <2>1. wc' \in [Sides -> Seq(Completions)]
    <3>1. Tail(wc[s]) \in Seq(Completions)
      BY <1>4 DEF Few
    <3> QED
      BY <1>1, <3>1
  <2>2. /\ pending' \in [Sides -> SUBSET {Recv, Send}]
        /\ sq' \in [Sides -> {"idle", "wire", "arrived"}]
    BY <1>1, ZenonT(60)
  <2>3. /\ routs' \in [Sides -> Nat] /\ rq' \in [Sides -> Nat]
        /\ rcnt' \in [Sides -> Nat] /\ scnt' \in [Sides -> Nat]
    BY <1>1
  <2> QED
    BY <2>1, <2>2, <2>3 DEF IInv, Types, eventVars
<1>6. Own(s) /\ pc[s] = "loop" /\ Started(s)'
  BY <1>4 DEF IInv, Started, Handling
<1>7. pc[s] \notin {"open", "prepare", "arm", "poll", "close"} \cup Early(s) \cup Linked(s) \cup Exits \cup LeftLoop
  BY <1>6 DEF Early, Linked, Exits, LeftLoop
<1>8. Own(s)'
  <2>1. Stage(s)'
    BY <1>6, <1>7 DEF Own, Stage
  <2>2. Untouched(s)'
    BY <1>6, <1>7 DEF Untouched
  <2>3. Posted(s)'
    <3>1. Posted(s) /\ Few(cq[s]) /\ wc'[s] = Tail(wc[s]) /\ cq' = cq
      BY <1>2, <1>6 DEF Own, Posted
    <3>2. \A p \in {Recv, Send} : ~(HasOp(wc'[s], p) /\ HasOp(cq'[s], p))
      BY <1>4, <3>1 DEF Posted
    <3>3. ~(sq'[s] # "idle" /\ Due(s, Send)') /\ (Send \in pending'[s] <=> Out(s)')
      BY <1>2
    <3>4. pc'[s] \notin {"arm", "poll"}
      BY <1>7
    <3> QED
      BY <1>4, <3>1, <3>2, <3>3, <3>4 DEF Posted
  <2>4. Wakeups(s)'
    BY <1>6, <1>7 DEF Own, Wakeups, eventVars
  <2> QED
    BY <2>1, <2>2, <2>3, <2>4 DEF Own
<1>9. Own(Peer(s))'
  BY <1>3, OwnSame DEF IInv
<1>10. Meeting' /\ Listens'
  BY DEF IInv, Meeting, Listens, Started
<1>11. Clean'
  <2>1. Bad(s)' <=> Bad(s)
    BY <1>2, <1>4 DEF Bad
  <2>2. Bad(Peer(s))' <=> Bad(Peer(s))
    BY <1>3, SameFacts
  <2>3. Dialogue => Dialogue'
    BY DEF Dialogue
  <2> QED
    BY <2>1, <2>2, <2>3 DEF IInv, Clean
<1> QED
  BY <1>5, <1>8, <1>9, <1>10, <1>11 DEF IInv

LEMMA HandleSendIInv ==
  ASSUME IInv, NEW s \in Sides, HandleSend(s)
  PROVE  /\ IInv' /\ pc[s] = "loop" /\ pc' = pc /\ rcnt' = rcnt
         /\ AtRest \/ (Has(s) /\ sq'[s] = "wire")
<1> USE TwoSides
<1> DEFINE left == pending[s] \ {Send}
           more == MaySend(left, scnt[s] + 1)
           bits == IF more THEN {Recv, Send} ELSE left
           slot == IF more THEN "wire" ELSE sq[s]
<1>1. /\ Handling(s) /\ Head(wc[s]) = Wc(Send, TRUE) /\ wc' = [wc EXCEPT ![s] = Tail(@)]
      /\ scnt' = [scnt EXCEPT ![s] = @ + 1] /\ ClearAndMaybeSend(s, Send, scnt[s] + 1)
      /\ UNCHANGED <<opt, inbox, routs, rcnt, got, rq, cq, eventVars>>
  BY DEF HandleSend
<1>2. /\ Few(Tail(wc[s])) /\ Started(s) /\ Due(s, Send) /\ ~HasOp(cq[s], Send) /\ ~HasOp(Tail(wc[s]), Send)
      /\ HasOp(Tail(wc[s]), Recv) <=> HasOp(wc[s], Recv)
      /\ HasBad(Tail(wc[s])) <=> HasBad(wc[s])
  BY <1>1, HandledFacts, WcFacts
<1>3. Own(s) /\ Posted(s) /\ Own(Peer(s)) /\ Apart(s) /\ Apart(Peer(s)) /\ Tally(s) /\ Tally(Peer(s))
  BY DEF IInv, Own
<1>4. sq[s] = "idle" /\ Out(s) /\ Few(cq[s]) /\ Few(wc[s])
  BY <1>2, <1>3 DEF Posted, Out
<1>5. ~Bad(s)
  <2>1. ~HasBad(cq[s])
    BY <1>2, <1>4, BadFacts
  <2>2. ~HasBad(wc[s])
    BY <1>1, <1>4, BadFacts DEF Handling
  <2> QED
    BY <2>1, <2>2 DEF Bad
<1>6. SendSlotFree(s)
  BY <1>2, <1>4 DEF SendSlotFree, Waiting, HasOp
<1>7. /\ wc \in [Sides -> Seq(Completions)] /\ pending \in [Sides -> SUBSET {Recv, Send}]
      /\ sq \in [Sides -> {"idle", "wire", "arrived"}] /\ scnt \in [Sides -> Nat] /\ rcnt \in [Sides -> Nat]
      /\ routs \in [Sides -> Nat] /\ rq \in [Sides -> Nat]
  BY DEF IInv, Types
<1>8. /\ pending' = [pending EXCEPT ![s] = bits] /\ sq' = [sq EXCEPT ![s] = slot]
      /\ UNCHANGED <<pc, held, sock, listening, qp>>
  <2>1. CASE more
    BY <1>1, <1>6, <2>1 DEF ClearAndMaybeSend
  <2>2. CASE ~more
    <3>1. sq' = sq /\ sq' = [sq EXCEPT ![s] = sq[s]]
      BY <1>1, <1>7, <2>2 DEF ClearAndMaybeSend
    <3> QED
      BY <1>1, <2>2, <3>1 DEF ClearAndMaybeSend
  <2> QED
    BY <2>1, <2>2
<1>9. bits \in SUBSET {Recv, Send}
  BY <1>7
<1>10. more => scnt[s] + 1 < Iters /\ Has(s) /\ bits = {Recv, Send} /\ slot = "wire"
  BY <1>2, WcFacts DEF MaySend, Has
<1>11. ~more => Send \notin bits /\ (Recv \in bits <=> Recv \in pending[s]) /\ slot = "idle"
  BY <1>4, WcFacts
<1> HIDE DEF left, more, bits, slot
<1>12. /\ pending'[s] = bits /\ sq'[s] = slot /\ wc'[s] = Tail(wc[s]) /\ scnt'[s] = scnt[s] + 1
       /\ pending'[Peer(s)] = pending[Peer(s)] /\ sq'[Peer(s)] = sq[Peer(s)] /\ wc'[Peer(s)] = wc[Peer(s)]
       /\ scnt'[Peer(s)] = scnt[Peer(s)]
  BY <1>1, <1>7, <1>8
<1>13. Same(Peer(s))
  BY <1>1, <1>8, <1>12 DEF Same, eventVars
<1>14. /\ ~Due(s, Send)' /\ (Due(s, Recv)' <=> Due(s, Recv)) /\ ~Bad(s)'
       /\ (Out(s)' <=> more) /\ (Send \in bits <=> more)
  <2>1. ~Due(s, Send)' /\ (Due(s, Recv)' <=> Due(s, Recv)) /\ (Bad(s)' <=> Bad(s))
    BY <1>1, <1>2, <1>12 DEF Due, Bad
  <2> QED
    BY <1>5, <1>10, <1>11, <1>12, <2>1 DEF Out
<1>15. /\ Started(s)' /\ (Has(s)' <=> Has(s) /\ ~more)
       /\ (Has(Peer(s))' <=> Has(Peer(s)))
       /\ \A p : Due(Peer(s), p)' <=> Due(Peer(s), p)
       /\ (Bad(Peer(s))' <=> Bad(Peer(s))) /\ (Out(Peer(s))' <=> Out(Peer(s)))
  <2>1. Started(s)'
    BY <1>2, <1>8 DEF Started
  <2>2. Has(s)' <=> Has(s) /\ ~more
    BY <1>2, <1>10, <1>11, <1>12, <2>1 DEF Has
  <2> QED
    BY <1>13, <2>1, <2>2, SameFacts
<1>16. Apart(s)' /\ Apart(Peer(s))'
  BY <1>3, <1>4, <1>10, <1>11, <1>12, <1>14, <1>15 DEF Apart
<1>17. Tally(s)'
  <2>1. rcnt' = rcnt /\ One(Due(Peer(s), Recv))' = One(Due(Peer(s), Recv))
    BY <1>1, <1>15 DEF One
  <2>2. One(sq[s] = "wire") = 0 /\ One(Out(s) /\ ~Bad(s)) = 1 /\ One(Out(s)) = 1
    BY <1>4, <1>5 DEF One
  <2>3. rcnt[Peer(s)] \in Nat /\ scnt[s] \in Nat /\ One(Due(Peer(s), Recv)) \in Nat
    BY <1>7 DEF One
  <2>4. CASE more
    <3>1. One(sq[s] = "wire")' = 1 /\ One(Out(s) /\ ~Bad(s))' = 1 /\ One(Out(s))' = 1
      BY <1>10, <1>12, <1>14, <2>4 DEF One
    <3> QED
      BY <1>3, <1>10, <1>12, <2>1, <2>2, <2>3, <2>4, <3>1, ItersAssumption DEF Tally
  <2>5. CASE ~more
    <3>1. One(sq[s] = "wire")' = 0 /\ One(Out(s) /\ ~Bad(s))' = 0 /\ One(Out(s))' = 0
      BY <1>11, <1>12, <1>14, <2>5 DEF One
    <3> QED
      BY <1>3, <1>12, <2>1, <2>2, <2>3, <3>1, ItersAssumption DEF Tally
  <2> QED
    BY <2>4, <2>5
<1>18. Tally(Peer(s))'
  <2>1. /\ One(sq[Peer(s)] = "wire")' = One(sq[Peer(s)] = "wire")
        /\ One(Due(s, Recv))' = One(Due(s, Recv))
        /\ One(Out(Peer(s)) /\ ~Bad(Peer(s)))' = One(Out(Peer(s)) /\ ~Bad(Peer(s)))
        /\ One(Out(Peer(s)))' = One(Out(Peer(s)))
    BY <1>12, <1>14, <1>15 DEF One
  <2> QED
    BY <1>1, <1>3, <1>12, <2>1 DEF Tally
<1>19. Receives(s)'
  <2>1. One(Due(s, Recv))' = One(Due(s, Recv))
    BY <1>14 DEF One
  <2> QED
    BY <1>1, <1>3, <1>8, <2>1 DEF Own, Receives
<1>20. ~(slot # "idle" /\ Due(s, Send)') /\ (Send \in bits <=> Out(s)')
  BY <1>14
<1>21. /\ slot \in {"idle", "wire"} \cup {sq[s]}
       /\ routs[s] \in Nat /\ rq[s] \in Nat /\ rcnt[s] \in Nat /\ scnt[s] + 1 \in Nat
       /\ routs' = [routs EXCEPT ![s] = routs[s]] /\ rq' = [rq EXCEPT ![s] = rq[s]]
       /\ rcnt' = [rcnt EXCEPT ![s] = rcnt[s]] /\ scnt' = [scnt EXCEPT ![s] = scnt[s] + 1]
  BY <1>1, <1>7, <1>10, <1>11
<1>22. IInv'
  BY <1>1, <1>8, <1>9, <1>16, <1>17, <1>18, <1>19, <1>20, <1>21, HandledIInv, WcFacts, ZenonT(60)
<1>23. AtRest \/ (Has(s) /\ sq'[s] = "wire")
  <2>1. CASE more
    BY <1>10, <1>12, <2>1
  <2>2. CASE ~more
    BY <1>4, <1>11, <1>12, <1>14, <1>15, <2>2 DEF AtRest
  <2> QED
    BY <2>1, <2>2
<1> QED
  BY <1>1, <1>8, <1>22, <1>23 DEF Handling

LEMMA HandleRecvIInv ==
  ASSUME IInv, NEW s \in Sides, HandleRecv(s)
  PROVE  /\ IInv' /\ pc[s] = "loop" /\ pc' = pc /\ rcnt' = [rcnt EXCEPT ![s] = @ + 1]
         /\ Due(s, Recv) /\ (Has(s)' \/ sq'[s] = "wire")
<1> USE TwoSides
<1> DEFINE few   == routs[s] - 1
           new   == IF few <= RepostAt THEN PostRecv(s, opt.depth[s] - few) ELSE 0
           books == few + new
           left  == pending[s] \ {Recv}
           more  == MaySend(left, scnt[s])
           bits  == IF more THEN {Recv, Send} ELSE left
           slot  == IF more THEN "wire" ELSE sq[s]
<1>1. /\ Handling(s) /\ Head(wc[s]) = Wc(Recv, TRUE) /\ wc' = [wc EXCEPT ![s] = Tail(@)]
      /\ routs' = [routs EXCEPT ![s] = books] /\ rq' = [rq EXCEPT ![s] = @ + new]
      /\ \/ few <= RepostAt /\ books < opt.depth[s]
         \/ rcnt' = [rcnt EXCEPT ![s] = @ + 1] /\ ClearAndMaybeSend(s, Recv, scnt[s])
      /\ UNCHANGED <<opt, inbox, scnt, got, cq, eventVars>>
  BY DEF HandleRecv, Booked
<1>2. /\ Few(Tail(wc[s])) /\ Started(s) /\ Due(s, Recv) /\ ~HasOp(cq[s], Recv) /\ ~HasOp(Tail(wc[s]), Recv)
      /\ HasOp(Tail(wc[s]), Send) <=> HasOp(wc[s], Send)
      /\ HasBad(Tail(wc[s])) <=> HasBad(wc[s])
  BY <1>1, HandledFacts, WcFacts
<1>3. /\ Own(s) /\ Posted(s) /\ Receives(s) /\ Own(Peer(s)) /\ Apart(s) /\ Apart(Peer(s))
      /\ Tally(s) /\ Tally(Peer(s)) /\ pc[s] \in Looping /\ Few(cq[s])
  BY <1>1 DEF IInv, Own, Posted, Handling, Looping
<1>4. /\ wc \in [Sides -> Seq(Completions)] /\ pending \in [Sides -> SUBSET {Recv, Send}]
      /\ sq \in [Sides -> {"idle", "wire", "arrived"}] /\ scnt \in [Sides -> Nat] /\ rcnt \in [Sides -> Nat]
      /\ routs \in [Sides -> Nat] /\ rq \in [Sides -> Nat]
  BY DEF IInv, Types
<1>5. /\ routs[s] = rq[s] + 1 /\ routs[s] <= opt.depth[s] /\ rq[s] \in Nat
      /\ opt.depth[s] \in Nat /\ opt.depth[s] >= 1
  <2>1. opt.depth[s] \in Nat \ {0} /\ rq[s] \in Nat
    BY <1>4, DepthFact DEF IInv
  <2>2. One(Due(s, Recv)) = 1
    BY <1>2 DEF One
  <2>3. routs[s] <= opt.depth[s] /\ routs[s] = rq[s] + One(Due(s, Recv))
    BY <1>3 DEF Receives
  <2> QED
    BY <2>1, <2>2, <2>3
<1>6. RecvRoom(s) = opt.depth[s] - rq[s]
  <2>1. Waiting(s, Recv) = {}
    BY <1>2 DEF Waiting, HasOp
  <2>2. Cardinality(Waiting(s, Recv)) = 0
    BY <2>1, FS_EmptySet
  <2> QED
    BY <1>5, <2>2 DEF RecvRoom
<1>7. few = rq[s] /\ (few <= 1 => new = opt.depth[s] - rq[s]) /\ (few > 1 => new = 0)
  BY <1>5, <1>6 DEF PostRecv, RepostAt
<1>8. /\ books \in Nat /\ rq[s] + new \in Nat /\ books = rq[s] + new /\ books >= 1 /\ books <= opt.depth[s]
      /\ ~(few <= RepostAt /\ books < opt.depth[s])
  <2> HIDE DEF few, new
  <2>1. CASE few <= 1
    BY <1>5, <1>7, <2>1 DEF RepostAt
  <2>2. CASE few > 1
    BY <1>5, <1>7, <2>2 DEF RepostAt
  <2> QED
    BY <1>5, <1>7, <2>1, <2>2
<1>9. rcnt' = [rcnt EXCEPT ![s] = @ + 1] /\ ClearAndMaybeSend(s, Recv, scnt[s])
  BY <1>1, <1>8
<1> HIDE DEF few, new, books
<1>10. more => Send \notin pending[s] /\ scnt[s] < Iters
  BY WcFacts DEF MaySend
<1>11. more => ~Out(s)
  BY <1>3, <1>10 DEF Posted
<1>12. more => SendSlotFree(s)
  BY <1>11 DEF SendSlotFree, Waiting, HasOp, Out, Due
<1>13. /\ pending' = [pending EXCEPT ![s] = bits] /\ sq' = [sq EXCEPT ![s] = slot]
       /\ UNCHANGED <<pc, held, sock, listening, qp>>
  <2>1. CASE more
    BY <1>9, <1>12, <2>1 DEF ClearAndMaybeSend
  <2>2. CASE ~more
    <3>1. sq' = sq /\ sq' = [sq EXCEPT ![s] = sq[s]]
      BY <1>4, <1>9, <2>2 DEF ClearAndMaybeSend
    <3> QED
      BY <1>9, <2>2, <3>1 DEF ClearAndMaybeSend
  <2> QED
    BY <2>1, <2>2
<1>14. bits \in SUBSET {Recv, Send} /\ slot \in {"idle", "wire"} \cup {sq[s]}
  BY <1>4
<1>15. more => bits = {Recv, Send} /\ slot = "wire"
  OBVIOUS
<1>16. ~more => Recv \notin bits /\ (Send \in bits <=> Send \in pending[s]) /\ slot = sq[s]
  BY WcFacts
<1> HIDE DEF left, more, bits, slot
<1>17. /\ pending'[s] = bits /\ sq'[s] = slot /\ wc'[s] = Tail(wc[s]) /\ rcnt'[s] = rcnt[s] + 1
       /\ routs'[s] = books /\ rq'[s] = rq[s] + new
       /\ pending'[Peer(s)] = pending[Peer(s)] /\ sq'[Peer(s)] = sq[Peer(s)] /\ wc'[Peer(s)] = wc[Peer(s)]
       /\ rcnt'[Peer(s)] = rcnt[Peer(s)] /\ routs'[Peer(s)] = routs[Peer(s)] /\ rq'[Peer(s)] = rq[Peer(s)]
  BY <1>1, <1>4, <1>9, <1>13
<1>18. Same(Peer(s))
  BY <1>1, <1>13, <1>17 DEF Same, eventVars
<1>19. ~Due(s, Recv)' /\ (Due(s, Send)' <=> Due(s, Send)) /\ (Bad(s)' <=> Bad(s))
  BY <1>1, <1>2, <1>17 DEF Due, Bad
<1>20. /\ Out(s)' <=> Out(s) \/ more
       /\ Send \in bits <=> Out(s)'
       /\ ~(slot # "idle" /\ Due(s, Send)')
  <2>1. CASE more
    BY <1>11, <1>15, <1>17, <1>19, <2>1 DEF Out
  <2>2. CASE ~more
    BY <1>3, <1>16, <1>17, <1>19, <2>2 DEF Out, Posted
  <2> QED
    BY <2>1, <2>2
<1>21. /\ Started(s)' /\ ~Has(s) /\ (Has(s)' <=> ~more)
       /\ (Has(Peer(s))' <=> Has(Peer(s)))
       /\ \A p : Due(Peer(s), p)' <=> Due(Peer(s), p)
       /\ (Bad(Peer(s))' <=> Bad(Peer(s))) /\ (Out(Peer(s))' <=> Out(Peer(s)))
  <2>1. Started(s)'
    BY <1>2, <1>13 DEF Started
  <2>2. Has(s)' <=> ~more
    BY <1>15, <1>16, <1>17, <2>1 DEF Has
  <2>3. ~Has(s)
    BY <1>2, <1>3 DEF Apart
  <2> QED
    BY <1>18, <2>1, <2>2, <2>3, SameFacts
<1>22. sq[s] # "wire" /\ sq[Peer(s)] # "wire" /\ ~Has(Peer(s)) /\ ~Due(Peer(s), Recv)
  BY <1>2, <1>3 DEF Apart
<1>23. Apart(s)' /\ Apart(Peer(s))'
  BY <1>16, <1>17, <1>19, <1>21, <1>22 DEF Apart
<1>24. Tally(s)'
  <2>1. scnt' = scnt /\ rcnt'[Peer(s)] = rcnt[Peer(s)] /\ One(Due(Peer(s), Recv))' = One(Due(Peer(s), Recv))
    BY <1>1, <1>17, <1>21 DEF One
  <2>2. rcnt[Peer(s)] \in Nat /\ scnt[s] \in Nat /\ One(Due(Peer(s), Recv)) \in Nat
    BY <1>4 DEF One
  <2>3. CASE more
    <3>1. ~Bad(s)
      BY <1>3, <1>11, <2>3, BadDue DEF Out
    <3>2. One(sq[s] = "wire") = 0 /\ One(Out(s) /\ ~Bad(s)) = 0 /\ One(Out(s)) = 0
      BY <1>11, <1>22, <2>3 DEF One
    <3>3. One(sq[s] = "wire")' = 1 /\ One(Out(s) /\ ~Bad(s))' = 1 /\ One(Out(s))' = 1
      BY <1>15, <1>17, <1>19, <1>20, <2>3, <3>1 DEF One
    <3> QED
      BY <1>3, <1>10, <2>1, <2>2, <2>3, <3>2, <3>3, ItersAssumption DEF Tally
  <2>4. CASE ~more
    <3>1. /\ One(sq[s] = "wire")' = One(sq[s] = "wire")
          /\ One(Out(s) /\ ~Bad(s))' = One(Out(s) /\ ~Bad(s)) /\ One(Out(s))' = One(Out(s))
      BY <1>16, <1>17, <1>19, <1>20, <2>4 DEF One
    <3> QED
      BY <1>3, <2>1, <3>1 DEF Tally
  <2> QED
    BY <2>3, <2>4
<1>25. Tally(Peer(s))'
  <2>1. /\ One(sq[Peer(s)] = "wire")' = One(sq[Peer(s)] = "wire")
        /\ One(Out(Peer(s)) /\ ~Bad(Peer(s)))' = One(Out(Peer(s)) /\ ~Bad(Peer(s)))
        /\ One(Out(Peer(s)))' = One(Out(Peer(s)))
    BY <1>17, <1>21 DEF One
  <2>2. One(Due(s, Recv)) = 1 /\ One(Due(s, Recv))' = 0 /\ One(sq[Peer(s)] = "wire") = 0
    BY <1>2, <1>19, <1>22 DEF One
  <2>3. rcnt[s] \in Nat /\ scnt' = scnt
    BY <1>1, <1>4
  <2> QED
    BY <1>3, <1>17, <2>1, <2>2, <2>3 DEF Tally
<1>26. Receives(s)'
  <2>1. One(Due(s, Recv))' = 0
    BY <1>19 DEF One
  <2> QED
    BY <1>1, <1>8, <1>17, <2>1 DEF Receives
<1>27. /\ rcnt[s] + 1 \in Nat /\ scnt[s] \in Nat
       /\ rq' = [rq EXCEPT ![s] = rq[s] + new]
       /\ rcnt' = [rcnt EXCEPT ![s] = rcnt[s] + 1] /\ scnt' = [scnt EXCEPT ![s] = scnt[s]]
  BY <1>1, <1>4, <1>9
<1>28. /\ Handling(s) /\ Head(wc[s]) = Wc(Recv, TRUE) /\ wc' = [wc EXCEPT ![s] = Tail(@)]
       /\ routs' = [routs EXCEPT ![s] = books]
       /\ UNCHANGED <<opt, inbox, got, cq, eventVars, pc, held, sock, listening, qp>>
       /\ Recv \in {Recv, Send}
  BY <1>1, <1>13
<1>29. IInv'
  BY <1>28, <1>8, <1>13, <1>14, <1>20, <1>23, <1>24, <1>25, <1>26, <1>27, HandledIInv
<1>30. Has(s)' \/ sq'[s] = "wire"
  BY <1>15, <1>17, <1>21
<1> QED
  BY <1>2, <1>9, <1>13, <1>28, <1>29, <1>30 DEF Handling

-----------------------------------------------------------------------------
(* Steps of the HCAs.                                                      *)

(* A completion enters the queue of t.                                     *)
LEMMA CompleteOwn ==
  ASSUME IInv, NEW t \in Sides, NEW c \in Completions, c.op = Recv => c.ok,
         qp[t] = "ready", ~Due(t, c.op), Complete(t, c),
         UNCHANGED <<opt, pc, setupVars, loopVars, qp>>
  PROVE  /\ Stage(t)' /\ Wakeups(t)' /\ Few(cq'[t]) /\ cq'[t] # <<>>
         /\ \A o : HasOp(cq'[t], o) <=> HasOp(cq[t], o) \/ o = c.op
         /\ HasBad(cq'[t]) <=> HasBad(cq[t]) \/ ~c.ok
         /\ pc[t] \notin {"open", "prepare"} \cup Early(t) \cup Exits
         /\ cq' \in [Sides -> Seq(Completions)] /\ events' \in [Sides -> Nat]
         /\ armed' \in [Sides -> BOOLEAN] /\ acked' \in [Sides -> Nat]
         /\ cq'[Peer(t)] = cq[Peer(t)] /\ events'[Peer(t)] = events[Peer(t)]
         /\ armed'[Peer(t)] = armed[Peer(t)]
<1> USE TwoSides
<1>1. /\ cq \in [Sides -> Seq(Completions)] /\ events \in [Sides -> Nat]
      /\ armed \in [Sides -> BOOLEAN] /\ acked \in [Sides -> Nat]
  BY DEF IInv, Types
<1>2. Stage(t) /\ Wakeups(t) /\ Few(cq[t]) /\ ~HasOp(cq[t], c.op)
  BY DEF IInv, Own, Posted, Due
<1>3. /\ Few(Append(cq[t], c)) /\ Append(cq[t], c) # <<>>
      /\ \A o : HasOp(Append(cq[t], c), o) <=> HasOp(cq[t], o) \/ o = c.op
      /\ HasBad(Append(cq[t], c)) <=> HasBad(cq[t]) \/ ~c.ok
  BY <1>2, AppendFacts
<1>4. /\ cq' = [cq EXCEPT ![t] = Append(cq[t], c)]
      /\ events' = [events EXCEPT ![t] = IF armed[t] THEN events[t] + 1 ELSE events[t]]
      /\ armed' = [armed EXCEPT ![t] = FALSE] /\ acked' = acked
  BY DEF Complete
<1>5. cq'[t] = Append(cq[t], c) /\ cq' \in [Sides -> Seq(Completions)] /\ cq'[Peer(t)] = cq[Peer(t)]
  <2>1. Append(cq[t], c) \in Seq(Completions)
    BY <1>3 DEF Few
  <2> QED
    BY <1>1, <1>4, <2>1
<1>6. ASSUME NEW v \in Nat, events' = [events EXCEPT ![t] = v]
      PROVE  events' \in [Sides -> Nat] /\ events'[Peer(t)] = events[Peer(t)] /\ events'[t] = v
  BY <1>1, <1>6
<1>7. /\ events' \in [Sides -> Nat] /\ events'[Peer(t)] = events[Peer(t)]
      /\ armed[t] => events'[t] = events[t] + 1
      /\ ~armed[t] => events'[t] = events[t]
  <2>1. CASE armed[t]
    <3>1. events[t] + 1 \in Nat /\ events' = [events EXCEPT ![t] = events[t] + 1]
      BY <1>1, <1>4, <2>1
    <3> QED
      BY <1>6, <2>1, <3>1
  <2>2. CASE ~armed[t]
    <3>1. events[t] \in Nat /\ events' = [events EXCEPT ![t] = events[t]]
      BY <1>1, <1>4, <2>2
    <3> QED
      BY <1>6, <2>2, <3>1
  <2> QED
    BY <2>1, <2>2
<1>8. armed' \in [Sides -> BOOLEAN] /\ ~armed'[t] /\ armed'[Peer(t)] = armed[Peer(t)]
  BY <1>1, <1>4
<1>9. pc[t] \notin {"open", "prepare"} \cup Early(t) \cup Exits
  BY <1>2 DEF Stage
<1>10. Stage(t)'
  BY <1>2 DEF Stage, setupVars, loopVars
<1>11. Wakeups(t)'
  <2>1. events[t] \in Nat /\ events[t] <= 1 /\ (armed[t] => events[t] = 0)
    BY <1>1, <1>2 DEF Wakeups
  <2>2. events'[t] <= 1 /\ (armed[t] => events'[t] = 1)
    BY <1>7, <2>1
  <2> QED
    BY <1>2, <1>7, <1>8, <1>9, <2>2 DEF Wakeups
<1> QED
  BY <1>1, <1>3, <1>4, <1>5, <1>7, <1>8, <1>9, <1>10, <1>11

(* A step of the HCA of s leaves what the programs keep.                   *)
LEMMA FabricIInv ==
  ASSUME IInv, UNCHANGED <<opt, pc, setupVars, loopVars, qp>>,
         cq' \in [Sides -> Seq(Completions)], events' \in [Sides -> Nat],
         armed' \in [Sides -> BOOLEAN], acked' \in [Sides -> Nat],
         rq' \in [Sides -> Nat], sq' \in [Sides -> {"idle", "wire", "arrived"}],
         \A t \in Sides : Own(t)' /\ Apart(t)' /\ Tally(t)',
         ~opt.faulty => \A t \in Sides : ~Bad(t)'
  PROVE  IInv'
<1>1. Types'
  BY DEF IInv, Types, setupVars, loopVars
<1>2. Meeting' /\ Listens'
  BY DEF IInv, Meeting, Listens, Started, setupVars
<1>3. Clean'
  BY DEF IInv, Clean, Dialogue, setupVars
<1> QED
  BY <1>1, <1>2, <1>3 DEF IInv

LEMMA DeliverIInv ==
  ASSUME IInv, NEW s \in Sides, Deliver(s)
  PROVE  IInv' /\ pc' = pc /\ rcnt' = rcnt /\ sq[s] = "wire" /\ Due(Peer(s), Recv)'
<1> USE TwoSides
<1> DEFINE p == Peer(s)
           c == Wc(Recv, TRUE)
<1>1. /\ sq[s] = "wire" /\ qp[p] = "ready" /\ rq[p] > 0
      /\ rq' = [rq EXCEPT ![p] = @ - 1] /\ sq' = [sq EXCEPT ![s] = "arrived"]
      /\ Complete(p, c) /\ UNCHANGED <<opt, pc, setupVars, loopVars, qp>>
  BY DEF Deliver
<1>2. c \in Completions /\ c.op = Recv /\ c.ok
  BY WcFacts
<1> HIDE DEF c
<1>3. p \in Sides /\ p # s /\ Peer(p) = s
  OBVIOUS
<1> HIDE DEF p
<1>4. Own(s) /\ Own(p) /\ Apart(s) /\ Apart(p) /\ Tally(s) /\ Tally(p) /\ Posted(s) /\ Posted(p)
  BY <1>3 DEF IInv, Own
<1>5. /\ sq[p] # "wire" /\ ~Due(s, Recv) /\ ~Due(p, Recv) /\ ~Has(s) /\ ~Has(p) /\ Started(s)
  <2>1. Started(s)
    BY <1>1, <1>4 DEF Own, Untouched
  <2> QED
    BY <1>1, <1>3, <1>4, <2>1 DEF Apart, p
<1>6. /\ Stage(p)' /\ Wakeups(p)' /\ Few(cq'[p]) /\ cq'[p] # <<>>
      /\ \A o : HasOp(cq'[p], o) <=> HasOp(cq[p], o) \/ o = Recv
      /\ HasBad(cq'[p]) <=> HasBad(cq[p])
      /\ pc[p] \notin {"open", "prepare"} \cup Early(p) \cup Exits
      /\ cq' \in [Sides -> Seq(Completions)] /\ events' \in [Sides -> Nat]
      /\ armed' \in [Sides -> BOOLEAN] /\ acked' \in [Sides -> Nat]
      /\ cq'[s] = cq[s] /\ events'[s] = events[s] /\ armed'[s] = armed[s]
  <2>1. ~Due(p, c.op)
    BY <1>2, <1>5
  <2> QED
    BY <1>1, <1>2, <1>3, <2>1, CompleteOwn
<1>7. /\ rq' \in [Sides -> Nat] /\ sq' \in [Sides -> {"idle", "wire", "arrived"}]
      /\ rq'[p] = rq[p] - 1 /\ rq'[s] = rq[s] /\ sq'[s] = "arrived" /\ sq'[p] = sq[p]
  <2>1. rq \in [Sides -> Nat] /\ sq \in [Sides -> {"idle", "wire", "arrived"}]
    BY DEF IInv, Types
  <2>2. rq[p] - 1 \in Nat
    BY <1>1, <1>3, <2>1
  <2> QED
    BY <1>1, <1>3, <2>1, <2>2
<1>8. /\ pc' = pc /\ pending' = pending /\ wc' = wc /\ routs' = routs /\ rcnt' = rcnt /\ scnt' = scnt
      /\ held' = held /\ qp' = qp /\ opt' = opt
  BY <1>1 DEF setupVars, loopVars
<1>9. /\ \A o : Due(s, o)' <=> Due(s, o)
      /\ Bad(s)' <=> Bad(s)
      /\ Out(s)' /\ Out(s)
      /\ Has(s)' <=> Has(s)
      /\ Started(s)' <=> Started(s)
  <2>1. (\A o : Due(s, o)' <=> Due(s, o)) /\ (Bad(s)' <=> Bad(s))
    BY <1>6, <1>8 DEF Due, Bad
  <2>2. (Has(s)' <=> Has(s)) /\ (Started(s)' <=> Started(s))
    BY <1>8 DEF Has, Started
  <2> QED
    BY <1>1, <1>7, <2>1, <2>2 DEF Out
<1>10. /\ Due(p, Recv)' /\ (Due(p, Send)' <=> Due(p, Send))
       /\ Bad(p)' <=> Bad(p)
       /\ Out(p)' <=> Out(p)
       /\ Has(p)' <=> Has(p)
       /\ Started(p)' <=> Started(p)
  <2>1. Due(p, Recv)' /\ (Due(p, Send)' <=> Due(p, Send)) /\ (Bad(p)' <=> Bad(p))
    BY <1>6, <1>8, WcFacts DEF Due, Bad
  <2>2. (Has(p)' <=> Has(p)) /\ (Started(p)' <=> Started(p))
    BY <1>8 DEF Has, Started
  <2> QED
    BY <1>7, <2>1, <2>2 DEF Out
<1>11. Own(s)'
  <2>1. Stage(s)'
    BY <1>4, <1>8 DEF Own, Stage
  <2>2. Untouched(s)'
    BY <1>4, <1>5, <1>6, <1>8, <1>9 DEF Own, Untouched
  <2>3. Posted(s)'
    BY <1>1, <1>4, <1>6, <1>7, <1>8, <1>9 DEF Posted
  <2>4. Receives(s)'
    <3>1. One(Due(s, Recv))' = One(Due(s, Recv))
      BY <1>9 DEF One
    <3> QED
      BY <1>4, <1>7, <1>8, <3>1 DEF Own, Receives
  <2>5. Wakeups(s)'
    BY <1>4, <1>6, <1>8 DEF Own, Wakeups
  <2> QED
    BY <2>1, <2>2, <2>3, <2>4, <2>5 DEF Own
<1>12. Own(p)'
  <2>1. Untouched(p)'
    BY <1>4, <1>6, <1>7, <1>8, <1>10, WcFacts DEF Own, Untouched
  <2>2. Posted(p)'
    <3>1. ~HasOp(wc[p], Recv)
      BY <1>5 DEF Due
    <3>2. \A o \in {Recv, Send} : ~(HasOp(wc[p], o) /\ HasOp(cq'[p], o))
      BY <1>4, <1>6, <3>1 DEF Posted
    <3> QED
      BY <1>4, <1>6, <1>7, <1>8, <1>10, <3>2 DEF Posted
  <2>3. Receives(p)'
    <3>1. One(Due(p, Recv))' = 1 /\ One(Due(p, Recv)) = 0
      BY <1>5, <1>10 DEF One
    <3>2. rq[p] \in Nat
      BY <1>3 DEF IInv, Types
    <3> QED
      BY <1>4, <1>7, <1>8, <3>1, <3>2 DEF Own, Receives
  <2> QED
    BY <1>6, <2>1, <2>2, <2>3 DEF Own
<1>13. Apart(s)' /\ Apart(p)'
  BY <1>3, <1>5, <1>7, <1>9, <1>10 DEF Apart, p
<1>14. Tally(s)'
  <2>1. /\ One(sq[s] = "wire") = 1 /\ One(Due(p, Recv)) = 0
        /\ One(sq[s] = "wire")' = 0 /\ One(Due(p, Recv))' = 1
        /\ One(Out(s) /\ ~Bad(s))' = One(Out(s) /\ ~Bad(s)) /\ One(Out(s))' = One(Out(s))
    BY <1>1, <1>5, <1>7, <1>9, <1>10 DEF One
  <2>2. rcnt[p] \in Nat
    BY <1>3 DEF IInv, Types
  <2> QED
    BY <1>4, <1>8, <2>1, <2>2 DEF Tally, p
<1>15. Tally(p)'
  <2>1. /\ One(sq[p] = "wire")' = One(sq[p] = "wire") /\ One(Due(s, Recv))' = One(Due(s, Recv))
        /\ One(Out(p) /\ ~Bad(p))' = One(Out(p) /\ ~Bad(p)) /\ One(Out(p))' = One(Out(p))
    BY <1>7, <1>9, <1>10 DEF One
  <2> QED
    BY <1>3, <1>4, <1>8, <2>1 DEF Tally
<1>16. \A t \in Sides : Own(t)' /\ Apart(t)' /\ Tally(t)'
  BY <1>11, <1>12, <1>13, <1>14, <1>15 DEF p
<1>17. ~opt.faulty => \A t \in Sides : ~Bad(t)'
  BY <1>9, <1>10 DEF p, IInv, Clean
<1>18. IInv'
  BY <1>1, <1>6, <1>7, <1>16, <1>17, FabricIInv
<1> QED
  BY <1>1, <1>8, <1>10, <1>18 DEF p

(* The HCA completes the send of s, with success or not.                   *)
LEMMA SendCompletesIInv ==
  ASSUME IInv, NEW s \in Sides, NEW k \in BOOLEAN, qp[s] = "ready",
         sq[s] = IF k THEN "arrived" ELSE "wire", k \/ opt.faulty,
         sq' = [sq EXCEPT ![s] = "idle"], Complete(s, Wc(Send, k)),
         UNCHANGED <<opt, pc, setupVars, loopVars, qp, rq>>
  PROVE  /\ IInv' /\ (k => AtRest)
         /\ ~k => \A t \in Sides : ~Has(t)' /\ ~Due(t, Recv)' /\ sq'[t] # "wire"
<1> USE TwoSides
<1> DEFINE c == Wc(Send, k)
<1>1. c \in Completions /\ c.op = Send /\ c.ok = k /\ c.op # Recv
  BY WcFacts
<1>2. Complete(s, c)
  OBVIOUS
<1> HIDE DEF c
<1>3. /\ Own(s) /\ Own(Peer(s)) /\ Apart(s) /\ Apart(Peer(s)) /\ Tally(s) /\ Tally(Peer(s)) /\ Posted(s)
  BY DEF IInv, Own
<1>4. sq[s] # "idle" /\ ~Due(s, Send) /\ Started(s) /\ ~Bad(s) /\ Out(s)
  <2>1. sq[s] # "idle"
    OBVIOUS
  <2> QED
    BY <1>3, <2>1, BadDue DEF Own, Posted, Untouched, Out
<1>5. /\ Stage(s)' /\ Wakeups(s)' /\ Few(cq'[s]) /\ cq'[s] # <<>>
      /\ \A o : HasOp(cq'[s], o) <=> HasOp(cq[s], o) \/ o = Send
      /\ HasBad(cq'[s]) <=> HasBad(cq[s]) \/ ~k
      /\ pc[s] \notin {"open", "prepare"} \cup Early(s) \cup Exits
      /\ cq' \in [Sides -> Seq(Completions)] /\ events' \in [Sides -> Nat]
      /\ armed' \in [Sides -> BOOLEAN] /\ acked' \in [Sides -> Nat]
      /\ cq'[Peer(s)] = cq[Peer(s)] /\ events'[Peer(s)] = events[Peer(s)]
      /\ armed'[Peer(s)] = armed[Peer(s)]
  <2>1. ~Due(s, c.op)
    BY <1>1, <1>4
  <2>2. UNCHANGED <<opt, pc, setupVars, loopVars, qp>>
    OBVIOUS
  <2>3. /\ Stage(s)' /\ Wakeups(s)' /\ Few(cq'[s]) /\ cq'[s] # <<>>
        /\ \A o : HasOp(cq'[s], o) <=> HasOp(cq[s], o) \/ o = c.op
        /\ HasBad(cq'[s]) <=> HasBad(cq[s]) \/ ~c.ok
    BY <1>1, <1>2, <2>1, <2>2, CompleteOwn
  <2>4. /\ pc[s] \notin {"open", "prepare"} \cup Early(s) \cup Exits
        /\ cq' \in [Sides -> Seq(Completions)] /\ events' \in [Sides -> Nat]
        /\ armed' \in [Sides -> BOOLEAN] /\ acked' \in [Sides -> Nat]
        /\ cq'[Peer(s)] = cq[Peer(s)] /\ events'[Peer(s)] = events[Peer(s)]
        /\ armed'[Peer(s)] = armed[Peer(s)]
    BY <1>1, <1>2, <2>1, <2>2, CompleteOwn
  <2> QED
    BY <1>1, <2>3, <2>4
<1>6. /\ sq' \in [Sides -> {"idle", "wire", "arrived"}] /\ sq'[s] = "idle" /\ sq'[Peer(s)] = sq[Peer(s)]
      /\ rq' \in [Sides -> Nat]
  BY DEF IInv, Types
<1>7. /\ pc' = pc /\ pending' = pending /\ wc' = wc /\ routs' = routs /\ rcnt' = rcnt /\ scnt' = scnt
      /\ held' = held /\ qp' = qp /\ opt' = opt /\ rq' = rq
  BY DEF setupVars, loopVars
<1>8. /\ Due(s, Recv)' <=> Due(s, Recv)
      /\ Due(s, Send)'
      /\ Out(s)'
      /\ Bad(s)' <=> ~k
      /\ Has(s)' <=> Has(s)
      /\ Started(s)'
  <2>1. (Due(s, Recv)' <=> Due(s, Recv)) /\ Due(s, Send)' /\ (Bad(s)' <=> Bad(s) \/ ~k)
    BY <1>5, <1>7, WcFacts DEF Due, Bad
  <2>2. (Has(s)' <=> Has(s)) /\ Started(s)'
    BY <1>4, <1>7 DEF Has, Started
  <2> QED
    BY <1>4, <2>1, <2>2 DEF Out
<1>9. Same(Peer(s))
  BY <1>5, <1>6, <1>7 DEF Same
<1>10. /\ Has(Peer(s))' <=> Has(Peer(s))
       /\ \A o : Due(Peer(s), o)' <=> Due(Peer(s), o)
       /\ Bad(Peer(s))' <=> Bad(Peer(s))
       /\ Out(Peer(s))' <=> Out(Peer(s))
  BY <1>9, SameFacts
<1>11. Own(s)'
  <2>1. Untouched(s)'
    BY <1>5, <1>7, <1>8 DEF Untouched
  <2>2. Posted(s)'
    <3>1. ~HasOp(wc[s], Send)
      BY <1>4 DEF Due
    <3>2. \A o \in {Recv, Send} : ~(HasOp(wc[s], o) /\ HasOp(cq'[s], o))
      BY <1>3, <1>5, <3>1 DEF Posted
    <3> QED
      BY <1>3, <1>4, <1>5, <1>6, <1>7, <1>8, <3>2 DEF Posted
  <2>3. Receives(s)'
    <3>1. One(Due(s, Recv))' = One(Due(s, Recv))
      BY <1>8 DEF One
    <3> QED
      BY <1>3, <1>7, <3>1 DEF Own, Receives
  <2> QED
    BY <1>5, <2>1, <2>2, <2>3 DEF Own
<1>12. Own(Peer(s))'
  BY <1>3, <1>7, <1>9, OwnSame
<1>13. Apart(s)' /\ Apart(Peer(s))'
  BY <1>3, <1>6, <1>8, <1>10 DEF Apart
<1>14. Tally(s)'
  <2>1. /\ One(Due(Peer(s), Recv))' = One(Due(Peer(s), Recv))
        /\ One(Out(s) /\ ~Bad(s)) = 1 /\ One(Out(s))' = One(Out(s)) /\ One(sq[s] = "wire")' = 0
    BY <1>4, <1>6, <1>8, <1>10 DEF One
  <2>2. rcnt[Peer(s)] \in Nat /\ scnt[s] \in Nat /\ One(Due(Peer(s), Recv)) \in Nat
    BY DEF IInv, Types, One
  <2>3. CASE k
    <3>1. One(sq[s] = "wire") = 0 /\ One(Out(s) /\ ~Bad(s))' = 1
      BY <1>8, <2>3 DEF One
    <3> QED
      BY <1>3, <1>7, <2>1, <2>2, <3>1 DEF Tally
  <2>4. CASE ~k
    <3>1. One(sq[s] = "wire") = 1 /\ One(Out(s) /\ ~Bad(s))' = 0
      BY <1>8, <2>4 DEF One
    <3> QED
      BY <1>3, <1>7, <2>1, <2>2, <3>1 DEF Tally
  <2> QED
    BY <2>3, <2>4
<1>15. Tally(Peer(s))'
  <2>1. /\ One(sq[Peer(s)] = "wire")' = One(sq[Peer(s)] = "wire")
        /\ One(Due(s, Recv))' = One(Due(s, Recv))
        /\ One(Out(Peer(s)) /\ ~Bad(Peer(s)))' = One(Out(Peer(s)) /\ ~Bad(Peer(s)))
        /\ One(Out(Peer(s)))' = One(Out(Peer(s)))
    BY <1>6, <1>8, <1>10 DEF One
  <2> QED
    BY <1>3, <1>7, <2>1 DEF Tally
<1>16. \A t \in Sides : Own(t)' /\ Apart(t)' /\ Tally(t)'
  BY <1>11, <1>12, <1>13, <1>14, <1>15
<1>17. ~opt.faulty => \A t \in Sides : ~Bad(t)'
  BY <1>8, <1>10 DEF IInv, Clean
<1>18. IInv'
  BY <1>5, <1>6, <1>16, <1>17, FabricIInv
<1>19. k => AtRest
  BY <1>6, <1>8, <1>10 DEF AtRest
<1>20. ~k => \A t \in Sides : ~Has(t)' /\ ~Due(t, Recv)' /\ sq'[t] # "wire"
  BY <1>3, <1>6, <1>8, <1>10 DEF Apart
<1> QED
  BY <1>18, <1>19, <1>20

LEMMA AcknowledgeIInv ==
  ASSUME IInv, NEW s \in Sides, Acknowledge(s)
  PROVE  IInv' /\ AtRest /\ pc' = pc /\ rcnt' = rcnt
BY SendCompletesIInv DEF Acknowledge, loopVars

(* While nothing fails the peer of a process with a message under way has  *)
(* a queue pair: it leaves only when it has what the process sent.         *)
LEMMA PeerIsThere ==
  ASSUME IInv, NEW s \in Sides, sq[s] = "wire", ~opt.faulty
  PROVE  qp[Peer(s)] = "ready"
<1> USE TwoSides
<1> DEFINE p == Peer(s)
<1>1. /\ Own(s) /\ Own(p) /\ Apart(s) /\ Apart(p) /\ Tally(s) /\ Posted(s) /\ Dialogue /\ ~Bad(s)
  BY DEF IInv, Own, Clean
<1>2. Started(s) /\ ~Due(s, Send) /\ Out(s)
  BY <1>1 DEF Own, Untouched, Posted, Out
<1>3. rcnt[p] < Iters
  <2>1. One(sq[s] = "wire") = 1 /\ One(Out(s) /\ ~Bad(s)) = 1 /\ One(Out(s)) = 1
    BY <1>1, <1>2 DEF One
  <2>2. rcnt[p] \in Nat /\ scnt[s] \in Nat /\ One(Due(p, Recv)) \in Nat
    BY DEF IInv, Types, One
  <2> HIDE DEF p
  <2>3. /\ rcnt[p] + One(sq[s] = "wire") + One(Due(p, Recv)) = scnt[s] + One(Out(s) /\ ~Bad(s))
        /\ scnt[s] + One(Out(s)) <= Iters
    BY <1>1 DEF Tally, p
  <2> QED
    BY <2>1, <2>2, <2>3, ItersAssumption
<1>4. pc[p] \notin LeftLoop
  <2>1. rcnt[p] \in Nat
    BY DEF IInv, Types
  <2>2. pc[p] \in LeftLoop => rcnt[p] >= Iters
    BY <1>1 DEF Own, Stage
  <2> QED
    BY <1>3, <2>1, <2>2, ItersAssumption
<1>5. /\ pc["client"] \in {"connectQp", "begin"} \cup Looping \cup LeftLoop
      /\ pc["server"] \in {"readDone", "begin"} \cup Looping \cup LeftLoop
  <2>1. pc[s] \in Looping \cup LeftLoop
    <3>1. pc[s] \in Looping \cup LeftLoop \cup {"loopFailed"}
      BY <1>2 DEF Started, LeftLoop
    <3>2. pc[s] # "loopFailed"
      BY <1>1 DEF Dialogue, Looping, LeftLoop
    <3> QED
      BY <3>1, <3>2
  <2> QED
    BY <1>1, <2>1 DEF Dialogue, Looping, LeftLoop
<1>6. pc[p] \in Linked(p) \cup Looping
  <2>1. CASE s = "client"
    BY <1>4, <1>5, <2>1 DEF Linked
  <2>2. CASE s = "server"
    <3>1. ~Has("client")
      BY <1>1, <2>2 DEF Apart
    <3>2. pc["client"] # "connectQp"
      BY <3>1 DEF Has, Started, Looping
    <3> QED
      BY <1>4, <1>5, <2>2, <3>2 DEF Linked
  <2> QED
    BY <2>1, <2>2
<1> QED
  BY <1>1, <1>6 DEF Own, Stage

LEMMA RetryExceededIInv ==
  ASSUME IInv, NEW s \in Sides, RetryExceeded(s)
  PROVE  /\ IInv' /\ pc' = pc /\ rcnt' = rcnt
         /\ \A t \in Sides : ~Has(t)' /\ ~Due(t, Recv)' /\ sq'[t] # "wire"
<1>1. opt.faulty
  BY PeerIsThere DEF RetryExceeded, IInv, Types
<1> QED
  BY <1>1, SendCompletesIInv DEF RetryExceeded, loopVars

-----------------------------------------------------------------------------
(* Every step preserves the invariant.                                     *)

LEMMA StutterIInv == ASSUME IInv, UNCHANGED vars PROVE IInv'
<1> USE TwoSides
<1>1. UNCHANGED <<opt, pc, setupVars, loopVars, hcaVars, eventVars>>
  BY DEF vars
<1>2. Quiet /\ Same("client") /\ Same("server") /\ Peer("client") = "server"
  BY <1>1 DEF Quiet, Same, setupVars, loopVars, hcaVars, eventVars
<1>3. Types'
  BY <1>1 DEF IInv, Types, setupVars, loopVars, hcaVars, eventVars
<1>4. Own("client")'
  BY <1>1, <1>2, OwnSame DEF IInv
<1>5. Meeting' /\ Listens' /\ (Started("client")' <=> Started("client"))
  BY <1>1 DEF IInv, Meeting, Listens, Started, setupVars, hcaVars
<1>6. ~opt.faulty => Dialogue'
  BY <1>1 DEF IInv, Clean, Dialogue, setupVars
<1> QED
  BY <1>2, <1>3, <1>4, <1>5, <1>6, QuietIInv

LEMMA StepIInv == IInv /\ [Next]_vars => IInv'
<1> SUFFICES ASSUME IInv, [Next]_vars PROVE IInv'
  OBVIOUS
<1>1. CASE UNCHANGED vars
  BY <1>1, StutterIInv
<1>2. ASSUME NEW s \in Sides, Setup(s) PROVE IInv'
  BY <1>2, OpenIInv, PrepareIInv, ListenIInv, AcceptIInv, ReadDoneIInv, ConnectIInv, RefusedIInv,
     WriteDoneIInv, WriteAddrIInv, WriteFailsIInv, ReadAddrIInv, ReadFailsIInv, ConnectQpIInv,
     BeginIInv DEF Setup
<1>3. ASSUME NEW s \in Sides, Loop(s) PROVE IInv'
  BY <1>3, GetEventIInv, ArmIInv, PollIInv, HandleSendIInv, HandleRecvIInv, HandleBadStatusIInv,
     AckEventsIInv DEF Loop
<1>4. ASSUME NEW s \in Sides, Close(s) PROVE IInv'
  BY <1>4, FreeIInv, CloseFailsIInv, ReturnIInv DEF Close
<1>5. ASSUME NEW s \in Sides, Dies(s) PROVE IInv'
  BY <1>5, SetupFailsIInv, LoopFailsIInv DEF Dies
<1>6. ASSUME NEW s \in Sides, Fabric(s) PROVE IInv'
  BY <1>6, DeliverIInv, AcknowledgeIInv, RetryExceededIInv DEF Fabric
<1> QED
  BY <1>1, <1>2, <1>3, <1>4, <1>5, <1>6 DEF Next, Program

(* The inductive invariant holds in every state of every execution,        *)
(* whatever fails, for every number of iterations and every receive depth. *)
THEOREM Invariance == Spec => []IInv
BY InitIInv, StepIInv, PTL DEF Spec

(* Every variable holds a value the code can store in it.                  *)
THEOREM TypeCorrect == Spec => []TypeOK
<1>1. IInv => TypeOK
  BY DEF IInv, Types, TypeOK
<1> QED
  BY <1>1, Invariance, PTL

LEMMA EarlyLemma == IInv => NeverEarly
<1> SUFFICES ASSUME IInv, NEW s \in Sides, sq[s] = "wire"
    PROVE /\ qp[Peer(s)] \in {"ready", "gone"}
          /\ qp[Peer(s)] = "ready" /\ pc[Peer(s)] # "close" => rq[Peer(s)] > 0
  BY DEF NeverEarly
<1> USE TwoSides
<1>1. Own(s) /\ Own(Peer(s)) /\ Apart(s) /\ Apart(Peer(s))
  BY DEF IInv
<1>2. Started(s) /\ ~Has(Peer(s)) /\ ~Due(Peer(s), Recv)
  BY <1>1 DEF Own, Untouched, Apart
<1>3. qp[Peer(s)] \in {"ready", "gone"}
  <2>1. CASE s = "client"
    BY <1>2, <2>1 DEF IInv, Meeting
  <2>2. CASE s = "server"
    <3>1. Started("client")
      BY <1>2, <2>2 DEF Has
    <3>2. pc["client"] \in Looping \cup {"close"} \cup Exits
      BY <3>1 DEF Started, Exits
    <3> QED
      BY <1>1, <2>2, <3>2 DEF Own, Stage
  <2> QED
    BY <2>1, <2>2
<1>4. ASSUME qp[Peer(s)] = "ready", pc[Peer(s)] # "close" PROVE rq[Peer(s)] > 0
  <2>1. pc[Peer(s)] \in Linked(Peer(s)) \cup Looping
    BY <1>1, <1>4 DEF Own, Stage
  <2>2. routs[Peer(s)] >= 1 /\ routs[Peer(s)] = rq[Peer(s)] + One(Due(Peer(s), Recv))
    BY <1>1, <2>1 DEF Own, Receives
  <2>3. One(Due(Peer(s), Recv)) = 0 /\ rq[Peer(s)] \in Nat
    BY <1>2 DEF One, IInv, Types
  <2> QED
    BY <2>2, <2>3
<1> QED
  BY <1>3, <1>4

(* No message is under way before the peer's queue pair is connected, and  *)
(* one that is under way finds a receive posted, whichever calls fail and  *)
(* however the two programs and the HCAs interleave.                       *)
THEOREM NothingArrivesEarly == Spec => []NeverEarly
BY EarlyLemma, Invariance, PTL

(* A process that sleeps on the completion channel has nothing to handle,  *)
(* and the next completion wakes it.                                       *)
THEOREM NoSleepForGood == Spec => []NoLostWakeup
<1>1. IInv => NoLostWakeup
  <2> SUFFICES ASSUME IInv, NEW s \in Sides, pc[s] = "loop", opt.event[s], events[s] = 0
      PROVE cq[s] = <<>> /\ armed[s]
    BY DEF NoLostWakeup, AtLoopTest
  <2> QED
    BY DEF IInv, Own, Wakeups
<1> QED
  BY <1>1, Invariance, PTL

(* The loop's count of receives is right, the queues never hold more than  *)
(* they have room for, and no post is refused unless a call fails.         *)
THEOREM CountsBalance == Spec => []Balance
<1>1. IInv => Balance
  <2> SUFFICES ASSUME IInv, NEW s \in Sides
      PROVE /\ pc[s] \in Looping =>
                 routs[s] = rq[s] + Cardinality(Waiting(s, Recv))
                              + Cardinality({i \in DOMAIN wc[s] : wc[s][i].op = Recv})
            /\ Len(cq[s]) <= 2 /\ Len(cq[s]) <= opt.depth[s] + 1
            /\ events[s] <= 1
            /\ pc[s] = "loopFailed" => opt.faulty
    BY DEF Balance
  <2>1. Own(s) /\ Posted(s) /\ Few(cq[s]) /\ Few(wc[s])
    BY DEF IInv, Own, Posted
  <2>2. ASSUME pc[s] \in Looping
        PROVE  routs[s] = rq[s] + Cardinality(Waiting(s, Recv))
                              + Cardinality({i \in DOMAIN wc[s] : wc[s][i].op = Recv})
    <3>1. Cardinality(Waiting(s, Recv)) = One(HasOp(cq[s], Recv))
      BY <2>1, WaitingFacts DEF Waiting
    <3>2. Cardinality({i \in DOMAIN wc[s] : wc[s][i].op = Recv}) = One(HasOp(wc[s], Recv))
      BY <2>1, WaitingFacts
    <3>3. ~(HasOp(wc[s], Recv) /\ HasOp(cq[s], Recv))
      BY <2>1 DEF Posted
    <3>4. One(Due(s, Recv)) = One(HasOp(cq[s], Recv)) + One(HasOp(wc[s], Recv))
      BY <3>3 DEF One, Due
    <3>5. routs[s] = rq[s] + One(Due(s, Recv))
      BY <2>1, <2>2 DEF Own, Receives
    <3>6. /\ rq[s] \in Nat /\ One(HasOp(cq[s], Recv)) \in Nat /\ One(HasOp(wc[s], Recv)) \in Nat
      BY DEF IInv, Types, One
    <3> QED
      BY <3>1, <3>2, <3>4, <3>5, <3>6
  <2>3. Len(cq[s]) <= 2 /\ Len(cq[s]) <= opt.depth[s] + 1
    <3>1. Len(cq[s]) <= 2 /\ Len(cq[s]) \in Nat
      BY <2>1 DEF Few
    <3>2. opt.depth[s] \in Nat \ {0}
      BY DepthFact DEF IInv
    <3> QED
      BY <3>1, <3>2
  <2>4. events[s] <= 1
    BY <2>1 DEF Own, Wakeups
  <2>5. pc[s] = "loopFailed" => opt.faulty
    BY TwoSides DEF IInv, Clean, Dialogue, Looping, LeftLoop
  <2> QED
    BY <2>2, <2>3, <2>4, <2>5
<1> QED
  BY <1>1, Invariance, PTL

-----------------------------------------------------------------------------
(* The refinement of Rally.                                                *)

At(s)       == IF s = "client" THEN "atClient" ELSE "atServer"
To(s)       == IF s = "client" THEN "toClient" ELSE "toServer"
Standing(s) ==
  CASE pc[s] \in {"close", "exit0", "closeFailed"} -> "done"
    [] pc[s] \in {"setupFailed", "loopFailed"} -> "failed"
    [] OTHER -> "playing"

(* Where the ball is, said in terms of the two sides.                      *)
OnItsWay(s) == sq[Peer(s)] = "wire" \/ Due(s, Recv)
Placed ==
  /\ \A s \in Sides : (Has(s) => Ball = At(s)) /\ (OnItsWay(s) => Ball = To(s))
  /\ (\A s \in Sides : ~Has(s) /\ ~OnItsWay(s)) => Ball = "lost"

LEMMA LandedIsDue == \A s \in Sides : Landed(s) <=> Due(s, Recv)
BY DEF Landed, Due, HasOp

LEMMA BallsPlaced == IInv => Placed
<1> SUFFICES ASSUME IInv PROVE Placed
  OBVIOUS
<1>1. /\ Has("client") => /\ ~Has("server") /\ sq["client"] # "wire" /\ sq["server"] # "wire"
                          /\ ~Landed("client") /\ ~Landed("server")
      /\ Has("server") => /\ sq["client"] # "wire" /\ sq["server"] # "wire"
                          /\ ~Landed("client") /\ ~Landed("server")
      /\ sq["client"] = "wire" => sq["server"] # "wire" /\ ~Landed("client") /\ ~Landed("server")
      /\ sq["server"] = "wire" => ~Landed("client") /\ ~Landed("server")
      /\ Landed("client") => ~Landed("server")
  <2>1. Apart("client") /\ Apart("server")
    BY TwoSides DEF IInv
  <2> QED
    BY <2>1, TwoSides, LandedIsDue DEF Apart
<1>2. ASSUME NEW s \in Sides, Has(s) PROVE Ball = At(s)
  BY <1>1, <1>2, TwoSides DEF Ball, At
<1>3. ASSUME NEW s \in Sides, OnItsWay(s) PROVE Ball = To(s)
  <2>1. CASE s = "client"
    BY <1>1, <1>3, <2>1, TwoSides, LandedIsDue DEF Ball, To, OnItsWay
  <2>2. CASE s = "server"
    BY <1>1, <1>3, <2>2, TwoSides, LandedIsDue DEF Ball, To, OnItsWay
  <2> QED
    BY <2>1, <2>2, TwoSides
<1>4. ASSUME \A s \in Sides : ~Has(s) /\ ~OnItsWay(s) PROVE Ball = "lost"
  BY <1>4, TwoSides, LandedIsDue DEF Ball, OnItsWay
<1> QED
  BY <1>2, <1>3, <1>4 DEF Placed

LEMMA BallsPlacedNext == IInv' => Placed'
BY BallsPlaced, PTL

LEMMA BallStays == ASSUME IInv, IInv', AtRest PROVE Ball' = Ball
<1>1. Placed /\ Placed'
  BY BallsPlaced, BallsPlacedNext
<1>2. \A s \in Sides : (Has(s)' <=> Has(s)) /\ (OnItsWay(s)' <=> OnItsWay(s))
  BY TwoSides DEF AtRest, OnItsWay
<1>3. CASE \E s \in Sides : Has(s)
  BY <1>1, <1>2, <1>3 DEF Placed, At
<1>4. CASE \E s \in Sides : OnItsWay(s)
  BY <1>1, <1>2, <1>4 DEF Placed, To
<1>5. CASE \A s \in Sides : ~Has(s) /\ ~OnItsWay(s)
  BY <1>1, <1>2, <1>5 DEF Placed
<1> QED
  BY <1>3, <1>4, <1>5

(* The steps of the rally, in terms of Ball, rcnt and Standing.            *)
Kept   == \A s \in Sides : Standing(s)' = Standing(s)
Mapped == Abstract!Next \/ UNCHANGED Abstract!vars

LEMMA RallyStutter == ASSUME Kept, Ball' = Ball, rcnt' = rcnt PROVE Mapped
<1>1. UNCHANGED Abstract!vars
  BY DEF Kept, Standing, Abstract!vars
<1> QED
  BY <1>1 DEF Mapped

LEMMA RallyHit ==
  ASSUME NEW s \in Sides, Kept, rcnt' = rcnt,
         Standing(s) = "playing", Ball = At(s), Ball' = To(Peer(s))
  PROVE  Mapped
<1>1. Abstract!Hit(s, "qp")
  BY DEF Kept, Standing, At, To, Peer, Abstract!Hit, Abstract!At, Abstract!To, Abstract!Other
<1> QED
  BY <1>1 DEF Mapped, Abstract!Next, Abstract!Sides, Sides

LEMMA RallyCatch ==
  ASSUME NEW s \in Sides, Kept, rcnt' = [rcnt EXCEPT ![s] = @ + 1],
         Standing(s) = "playing", Ball = To(s), Ball' = At(s) \/ Ball' = To(Peer(s))
  PROVE  Mapped
<1>1. Abstract!Catch(s, "qp")
  <2>1. Kept /\ Standing(s) = "playing" /\ Ball = To(s)
    OBVIOUS
  <2>2. ASSUME NEW place \in {At(s), To(Peer(s))}, Ball' = place
        PROVE  Abstract!Catch(s, "qp")
    BY <2>1, <2>2
       DEF Kept, Standing, At, To, Peer, Abstract!Catch, Abstract!At, Abstract!To, Abstract!Other
  <2> QED
    BY <2>2
<1> QED
  BY <1>1 DEF Mapped, Abstract!Next, Abstract!Sides, Sides

LEMMA RallyLose ==
  ASSUME NEW s \in Sides, Kept, rcnt' = rcnt,
         Standing(s) # "playing", Ball = To(s), Ball' = "lost"
  PROVE  Mapped
<1>1. Abstract!Lose(s, "qp")
  BY DEF Kept, Standing, To, Abstract!Lose, Abstract!To
<1> QED
  BY <1>1 DEF Mapped, Abstract!Next, Abstract!Sides, Sides

LEMMA RallyServe ==
  ASSUME Kept, rcnt' = rcnt, Standing("client") = "playing",
         Ball = At("client"), Ball' = To("server")
  PROVE  Mapped
<1>1. Abstract!Serve
  BY TwoSides DEF Kept, Standing, At, To, Abstract!Serve, Abstract!At, Abstract!To
<1> QED
  BY <1>1 DEF Mapped, Abstract!Next

LEMMA RallyLeave ==
  ASSUME NEW s \in Sides, Ball' = Ball, rcnt' = rcnt,
         Standing(s) = "playing", Standing(s)' = "done", Standing(Peer(s))' = Standing(Peer(s)),
         rcnt[s] >= Iters, rcnt[Peer(s)] \in Nat,
         rcnt[Peer(s)] + One(Ball = To(Peer(s))) >= Iters
  PROVE  Mapped
<1>1. Abstract!Leave(s)
  <2> DEFINE B == {q \in {"qp"} : [r \in {"qp"} |-> Ball][q] = Abstract!To(Abstract!Other(s))}
  <2>1. Peer(s) = Abstract!Other(s) /\ Abstract!To(Abstract!Other(s)) = To(Peer(s))
    BY DEF Abstract!To, Abstract!Other, To, Peer
  <2>2. /\ Ball = To(Peer(s)) => B = {"qp"}
        /\ Ball # To(Peer(s)) => B = {}
    BY <2>1
  <2>3. \A S : Abstract!Cardinality(S) = Cardinality(S)
    BY DEF Abstract!Cardinality, Cardinality
  <2> HIDE DEF B
  <2>4. Abstract!Cardinality(B) = One(Ball = To(Peer(s)))
    <3>1. Cardinality({"qp"}) = 1
      BY FS_Singleton
    <3>2. Cardinality({}) = 0
      BY FS_EmptySet
    <3>3. CASE Ball = To(Peer(s))
      BY <2>2, <2>3, <3>1, <3>3 DEF One
    <3>4. CASE Ball # To(Peer(s))
      BY <2>2, <2>3, <3>2, <3>4 DEF One
    <3> QED
      BY <3>3, <3>4
  <2>5. rcnt[Abstract!Other(s)] + Abstract!Cardinality(B) >= Iters
    BY <2>1, <2>4
  <2>6. \A t \in Sides : t # s => Standing(t)' = Standing(t)
    BY TwoSides
  <2> QED
    BY <2>5, <2>6 DEF B, Standing, Abstract!Leave, Sides
<1> QED
  BY <1>1 DEF Mapped, Abstract!Next, Abstract!Sides, Sides

LEMMA RallyQuit ==
  ASSUME NEW s \in Sides, Ball' = Ball, rcnt' = rcnt,
         Standing(s) = "playing", Standing(s)' = "failed", Standing(Peer(s))' = Standing(Peer(s))
  PROVE  Mapped
<1>1. Abstract!Quit(s)
  <2>1. \A t \in Sides : t # s => Standing(t)' = Standing(t)
    BY TwoSides
  <2> QED
    BY <2>1 DEF Standing, Abstract!Quit, Sides
<1> QED
  BY <1>1 DEF Mapped, Abstract!Next, Abstract!Sides, Sides

-----------------------------------------------------------------------------
(* Each action of the example, as a step of the rally.                     *)

(* Steps of a program that neither send nor take the message in.           *)
Silent(s) == UNCHANGED <<pending, rcnt, wc, sq, cq>> /\ pc'[Peer(s)] = pc[Peer(s)]

LEMMA SilentAtRest ==
  ASSUME NEW s \in Sides, Silent(s), Started(s)' <=> Started(s)
  PROVE  AtRest /\ rcnt' = rcnt /\ Standing(Peer(s))' = Standing(Peer(s))
<1>1. \A t \in Sides : Started(t)' <=> Started(t)
  BY TwoSides DEF Started, Silent
<1> QED
  BY <1>1 DEF AtRest, Has, Due, Silent, Standing

LEMMA SilentMapped ==
  ASSUME IInv, IInv', NEW s \in Sides, Silent(s),
         \/ pc[s] \in SettingUp /\ pc'[s] \in SettingUp
         \/ pc[s] \in Looping /\ pc'[s] \in Looping
         \/ pc[s] \in LeftLoop /\ pc'[s] \in LeftLoop
  PROVE  Mapped
<1>1. (Started(s)' <=> Started(s)) /\ Standing(s)' = Standing(s)
  BY DEF Started, Standing, SettingUp, Exchanging, Looping, LeftLoop
<1>2. AtRest /\ rcnt' = rcnt /\ Kept
  BY <1>1, SilentAtRest, TwoSides DEF Kept
<1> QED
  BY <1>2, BallStays, RallyStutter

LEMMA QuitMapped ==
  ASSUME IInv, IInv', NEW s \in Sides, Silent(s),
         \/ pc[s] \in SettingUp /\ pc'[s] = "setupFailed"
         \/ pc[s] \in Looping /\ pc'[s] = "loopFailed"
  PROVE  Mapped
<1>1. (Started(s)' <=> Started(s)) /\ Standing(s) = "playing" /\ Standing(s)' = "failed"
  BY DEF Started, Standing, SettingUp, Exchanging, Looping
<1>2. AtRest /\ rcnt' = rcnt /\ Standing(Peer(s))' = Standing(Peer(s))
  BY <1>1, SilentAtRest
<1> QED
  BY <1>1, <1>2, BallStays, RallyQuit

LEMMA PcFacts ==
  ASSUME IInv, NEW s \in Sides, NEW l, Goto(s, l)
  PROVE  pc'[s] = l /\ pc'[Peer(s)] = pc[Peer(s)]
<1>1. pc \in [Sides -> SettingUp \cup Looping \cup {"close"} \cup Exits]
  BY DEF IInv, Types
<1> QED
  BY <1>1, TwoSides DEF Goto

(* The way to the loop, but for its last step.                             *)
LEMMA SetupMapped ==
  ASSUME IInv, IInv', NEW s \in Sides, Setup(s), ~Begin(s)
  PROVE  Mapped
<1> USE TwoSides
<1>1. ASSUME WriteFails(s) \/ ReadFails(s) \/ (s = "client" /\ Refused) PROVE Mapped
  <2>1. Goto(s, "setupFailed") /\ UNCHANGED <<pending, rcnt, wc, sq, cq>> /\ pc[s] \in SettingUp
    BY <1>1 DEF WriteFails, ReadFails, Refused, Ends, loopVars, SettingUp, Exchanging
  <2> QED
    BY <2>1, PcFacts, QuitMapped DEF Silent
<1>2. CASE Open(s)
  <2>1. pc[s] = "open" /\ (pc' = pc \/ Goto(s, "prepare")) /\ UNCHANGED <<pending, rcnt, wc, sq, cq>>
    BY <1>2 DEF Open, loopVars
  <2>2. pc'[Peer(s)] = pc[Peer(s)] /\ pc'[s] \in {"open", "prepare"}
    BY <2>1, PcFacts
  <2> QED
    BY <2>1, <2>2, SilentMapped DEF Silent, SettingUp
<1>3. ASSUME NEW l \in SettingUp, Goto(s, l), pc[s] \in SettingUp,
             UNCHANGED <<pending, rcnt, wc, sq, cq>>
      PROVE  Mapped
  BY <1>3, PcFacts, SilentMapped DEF Silent
<1>4. CASE Prepare(s)
  <2>1. Goto(s, IF s = "server" THEN "listen" ELSE "connect") /\ UNCHANGED <<pending, rcnt, wc, sq, cq>>
    BY <1>4 DEF Prepare
  <2>2. pc[s] \in SettingUp
    BY <1>4 DEF Prepare, SettingUp
  <2> QED
    BY <1>3, <2>1, <2>2 DEF SettingUp, Exchanging
<1>5. CASE s = "server" /\ Listen
  BY <1>3, <1>5 DEF Listen, loopVars, hcaVars, SettingUp, Exchanging
<1>6. CASE s = "server" /\ Accept
  BY <1>3, <1>6 DEF Accept, loopVars, hcaVars, SettingUp, Exchanging
<1>7. CASE s = "server" /\ ReadDone
  BY <1>3, <1>7 DEF ReadDone, loopVars, hcaVars, SettingUp, Exchanging
<1>8. CASE s = "client" /\ Connect
  BY <1>3, <1>8 DEF Connect, loopVars, hcaVars, SettingUp, Exchanging
<1>9. CASE s = "client" /\ WriteDone
  BY <1>3, <1>9 DEF WriteDone, loopVars, hcaVars, SettingUp, Exchanging
<1>10. CASE WriteAddr(s)
  BY <1>3, <1>10 DEF WriteAddr, loopVars, hcaVars, SettingUp, Exchanging
<1>11. CASE ReadAddr(s)
  BY <1>3, <1>11 DEF ReadAddr, loopVars, hcaVars, SettingUp, Exchanging
<1>12. CASE ConnectQp(s)
  BY <1>3, <1>12 DEF ConnectQp, loopVars, SettingUp, Exchanging
<1> QED
  BY <1>1, <1>2, <1>4, <1>5, <1>6, <1>7, <1>8, <1>9, <1>10, <1>11, <1>12 DEF Setup

LEMMA BeginMapped == ASSUME IInv, NEW s \in Sides, Begin(s) PROVE Mapped
<1> USE TwoSides
<1>1. /\ IInv' /\ pc[s] = "begin" /\ Goto(s, "loop") /\ rcnt' = rcnt
      /\ AtRest \/ (s = "client" /\ Has("client") /\ sq'["client"] = "wire")
  BY BeginIInv DEF Goto
<1>2. Kept /\ Standing(s) = "playing"
  <2>1. pc'[s] = "loop" /\ pc'[Peer(s)] = pc[Peer(s)]
    BY <1>1, PcFacts
  <2>2. Standing(s) = "playing" /\ Standing(s)' = "playing" /\ Standing(Peer(s))' = Standing(Peer(s))
    BY <1>1, <2>1 DEF Standing
  <2> QED
    BY <2>2 DEF Kept
<1>3. CASE AtRest
  BY <1>1, <1>2, <1>3, BallStays, RallyStutter
<1>4. CASE s = "client" /\ Has("client") /\ sq'["client"] = "wire"
  <2>1. OnItsWay("server")'
    BY <1>4 DEF OnItsWay
  <2>2. Ball = At("client") /\ Ball' = To("server")
    BY <1>1, <1>4, <2>1, BallsPlaced, BallsPlacedNext DEF Placed
  <2> QED
    BY <1>1, <1>2, <1>4, <2>2, RallyServe
<1> QED
  BY <1>1, <1>3, <1>4

LEMMA AckEventsMapped == ASSUME IInv, IInv', NEW s \in Sides, AckEvents(s) PROVE Mapped
<1> USE TwoSides
<1> DEFINE p == Peer(s)
<1>1. AtLoopTest(s) /\ ~LoopGoesOn(s) /\ Goto(s, "close") /\ UNCHANGED <<pending, rcnt, wc, sq, cq>>
  BY DEF AckEvents, loopVars, hcaVars
<1>2. pc[s] = "loop" /\ pc'[s] = "close" /\ Silent(s)
  BY <1>1, PcFacts DEF AtLoopTest, Silent
<1>3. (Started(s)' <=> Started(s)) /\ Standing(s) = "playing" /\ Standing(s)' = "done"
  BY <1>2 DEF Started, Standing, Looping
<1>4. AtRest /\ rcnt' = rcnt /\ Standing(Peer(s))' = Standing(Peer(s))
  BY <1>2, <1>3, SilentAtRest
<1>5. Ball' = Ball
  BY <1>4, BallStays
<1>6. rcnt[s] \in Nat /\ scnt[s] \in Nat /\ rcnt[p] \in Nat /\ Iters \in Nat
  BY ItersAssumption DEF IInv, Types
<1>7. rcnt[s] >= Iters /\ scnt[s] >= Iters
  BY <1>1, <1>6 DEF LoopGoesOn
<1>8. One(sq[s] = "wire") + One(Due(p, Recv)) <= One(Ball = To(p))
  <2>1. Apart(s) /\ Placed
    BY BallsPlaced DEF IInv
  <2>2. CASE sq[s] = "wire"
    <3>1. ~Due(p, Recv)
      BY <2>1, <2>2 DEF Apart
    <3>2. Ball = To(p)
      BY <2>1, <2>2 DEF Placed, OnItsWay
    <3> QED
      BY <2>2, <3>1, <3>2 DEF One
  <2>3. CASE Due(p, Recv) /\ sq[s] # "wire"
    <3>1. Ball = To(p)
      BY <2>1, <2>3 DEF Placed, OnItsWay
    <3> QED
      BY <2>3, <3>1 DEF One
  <2>4. CASE ~Due(p, Recv) /\ sq[s] # "wire"
    BY <2>4 DEF One
  <2> QED
    BY <2>2, <2>3, <2>4
<1>9. /\ rcnt[p] + One(sq[s] = "wire") + One(Due(p, Recv)) = scnt[s] + One(Out(s) /\ ~Bad(s))
      /\ One(sq[s] = "wire") \in Nat /\ One(Due(p, Recv)) \in Nat
      /\ One(Out(s) /\ ~Bad(s)) \in Nat /\ One(Ball = To(p)) \in Nat
  <2>1. Tally(s)
    BY DEF IInv
  <2> QED
    BY <2>1 DEF Tally, One
<1> HIDE DEF p
<1>10. rcnt[p] + One(Ball = To(p)) >= Iters
  BY <1>6, <1>7, <1>8, <1>9
<1> QED
  BY <1>3, <1>4, <1>5, <1>6, <1>7, <1>10, RallyLeave DEF p

LEMMA HandleSendMapped == ASSUME IInv, NEW s \in Sides, HandleSend(s) PROVE Mapped
<1> USE TwoSides
<1>1. /\ IInv' /\ pc[s] = "loop" /\ pc' = pc /\ rcnt' = rcnt
      /\ AtRest \/ (Has(s) /\ sq'[s] = "wire")
  BY HandleSendIInv
<1>2. Kept /\ Standing(s) = "playing"
  BY <1>1 DEF Kept, Standing
<1>3. CASE AtRest
  BY <1>1, <1>2, <1>3, BallStays, RallyStutter
<1>4. CASE Has(s) /\ sq'[s] = "wire"
  <2>1. OnItsWay(Peer(s))'
    BY <1>4 DEF OnItsWay
  <2>2. Ball = At(s) /\ Ball' = To(Peer(s))
    BY <1>1, <1>4, <2>1, BallsPlaced, BallsPlacedNext DEF Placed
  <2> QED
    BY <1>1, <1>2, <2>2, RallyHit
<1> QED
  BY <1>1, <1>3, <1>4

LEMMA HandleRecvMapped == ASSUME IInv, NEW s \in Sides, HandleRecv(s) PROVE Mapped
<1> USE TwoSides
<1>1. /\ IInv' /\ pc[s] = "loop" /\ pc' = pc /\ rcnt' = [rcnt EXCEPT ![s] = @ + 1]
      /\ Due(s, Recv) /\ (Has(s)' \/ sq'[s] = "wire")
  BY HandleRecvIInv
<1>2. Kept /\ Standing(s) = "playing"
  BY <1>1 DEF Kept, Standing
<1>3. Ball = To(s)
  BY <1>1, BallsPlaced DEF Placed, OnItsWay
<1>4. Ball' = At(s) \/ Ball' = To(Peer(s))
  <2>1. CASE Has(s)'
    BY <1>1, <2>1, BallsPlacedNext DEF Placed
  <2>2. CASE sq'[s] = "wire"
    <3>1. OnItsWay(Peer(s))'
      BY <2>2 DEF OnItsWay
    <3> QED
      BY <1>1, <3>1, BallsPlacedNext DEF Placed
  <2> QED
    BY <1>1, <2>1, <2>2
<1> QED
  BY <1>1, <1>2, <1>3, <1>4, RallyCatch

LEMMA LoopMapped == ASSUME IInv, IInv', NEW s \in Sides, Loop(s) PROVE Mapped
<1> USE TwoSides
<1>1. CASE GetEvent(s)
  <2>1. Goto(s, "arm") /\ UNCHANGED <<pending, rcnt, wc, sq, cq>> /\ pc[s] \in Looping
    BY <1>1 DEF GetEvent, AtLoopTest, hcaVars, Looping
  <2> QED
    BY <2>1, PcFacts, SilentMapped DEF Silent, Looping
<1>2. CASE Arm(s)
  <2>1. Goto(s, "poll") /\ UNCHANGED <<pending, rcnt, wc, sq, cq>> /\ pc[s] \in Looping
    BY <1>2 DEF Arm, loopVars, hcaVars, Looping
  <2> QED
    BY <2>1, PcFacts, SilentMapped DEF Silent, Looping
<1>3. CASE Poll(s)
  <2>1. AtRest /\ rcnt' = rcnt /\ pc[s] \in Looping /\ Goto(s, "loop")
    BY <1>3, PollIInv DEF Goto
  <2>2. pc'[s] = "loop" /\ pc'[Peer(s)] = pc[Peer(s)]
    BY <2>1, PcFacts
  <2>3. Kept
    BY <2>1, <2>2 DEF Kept, Standing, Looping
  <2> QED
    BY <2>1, <2>3, BallStays, RallyStutter
<1>4. CASE HandleBadStatus(s)
  <2>1. Goto(s, "loopFailed") /\ UNCHANGED <<pending, rcnt, wc, sq, cq>> /\ pc[s] \in Looping
    BY <1>4 DEF HandleBadStatus, Handling, Ends, loopVars, Looping
  <2> QED
    BY <2>1, PcFacts, QuitMapped DEF Silent
<1> QED
  BY <1>1, <1>2, <1>3, <1>4, HandleSendMapped, HandleRecvMapped, AckEventsMapped DEF Loop

LEMMA CloseMapped == ASSUME IInv, IInv', NEW s \in Sides, Close(s) PROVE Mapped
<1>1. /\ pc[s] = "close" /\ UNCHANGED <<pending, rcnt, wc, sq, cq>>
      /\ pc' = pc \/ Goto(s, "closeFailed") \/ Goto(s, "exit0")
  BY DEF Close, Free, CloseFails, Return, Ends, loopVars, hcaVars
<1>2. pc'[s] \in LeftLoop /\ pc'[Peer(s)] = pc[Peer(s)]
  BY <1>1, PcFacts DEF LeftLoop
<1> QED
  BY <1>1, <1>2, SilentMapped DEF Silent, LeftLoop

LEMMA DiesMapped == ASSUME IInv, IInv', NEW s \in Sides, Dies(s) PROVE Mapped
<1>1. /\ UNCHANGED <<pending, rcnt, wc, sq, cq>>
      /\ \/ pc[s] \in SettingUp /\ Goto(s, "setupFailed")
         \/ pc[s] \in Looping /\ Goto(s, "loopFailed")
  BY DEF Dies, SetupFails, LoopFails, Ends, loopVars
<1> QED
  BY <1>1, PcFacts, QuitMapped DEF Silent

LEMMA FabricMapped == ASSUME IInv, NEW s \in Sides, Fabric(s) PROVE Mapped
<1> USE TwoSides
<1>1. CASE Deliver(s)
  <2>1. IInv' /\ pc' = pc /\ rcnt' = rcnt /\ sq[s] = "wire" /\ Due(Peer(s), Recv)'
    BY <1>1, DeliverIInv
  <2>2. OnItsWay(Peer(s)) /\ OnItsWay(Peer(s))'
    BY <2>1 DEF OnItsWay
  <2>3. Ball' = Ball
    BY <2>1, <2>2, BallsPlaced, BallsPlacedNext DEF Placed, To
  <2> QED
    BY <2>1, <2>3, RallyStutter DEF Kept, Standing
<1>2. CASE Acknowledge(s)
  <2>1. IInv' /\ AtRest /\ pc' = pc /\ rcnt' = rcnt
    BY <1>2, AcknowledgeIInv
  <2> QED
    BY <2>1, BallStays, RallyStutter DEF Kept, Standing
<1>3. CASE RetryExceeded(s)
  <2>1. /\ IInv' /\ pc' = pc /\ rcnt' = rcnt
        /\ \A t \in Sides : ~Has(t)' /\ ~Due(t, Recv)' /\ sq'[t] # "wire"
        /\ sq[s] = "wire" /\ qp[Peer(s)] # "ready"
    BY <1>3, RetryExceededIInv DEF RetryExceeded
  <2>2. OnItsWay(Peer(s)) /\ \A t \in Sides : ~Has(t)' /\ ~OnItsWay(t)'
    BY <2>1 DEF OnItsWay
  <2>3. Ball = To(Peer(s)) /\ Ball' = "lost"
    BY <2>1, <2>2, BallsPlaced, BallsPlacedNext DEF Placed
  <2>4. Standing(Peer(s)) # "playing"
    <3>1. qp[Peer(s)] = "gone" /\ Stage(Peer(s))
      BY <2>1, EarlyLemma DEF NeverEarly, IInv, Own
    <3>2. pc[Peer(s)] \in {"close"} \cup Exits
      BY <3>1 DEF Stage
    <3> QED
      BY <3>2 DEF Standing, Exits
  <2> QED
    BY <2>1, <2>3, <2>4, RallyLose DEF Kept, Standing
<1> QED
  BY <1>1, <1>2, <1>3 DEF Fabric

LEMMA StepMapped == IInv /\ IInv' /\ [Next]_vars => [Abstract!Next]_(Abstract!vars)
<1> SUFFICES ASSUME IInv, IInv', [Next]_vars PROVE Mapped
  BY DEF Mapped
<1>1. ASSUME NEW s \in Sides, Program(s) PROVE Mapped
  BY <1>1, SetupMapped, BeginMapped, LoopMapped, CloseMapped DEF Program
<1>2. ASSUME NEW s \in Sides, Dies(s) PROVE Mapped
  BY <1>2, DiesMapped
<1>3. ASSUME NEW s \in Sides, Fabric(s) PROVE Mapped
  BY <1>3, FabricMapped
<1>4. CASE UNCHANGED vars
  <2>1. AtRest /\ Kept /\ rcnt' = rcnt
    BY <1>4 DEF AtRest, Kept, Has, Due, Started, Standing, vars, loopVars, hcaVars
  <2> QED
    BY <2>1, BallStays, RallyStutter
<1> QED
  BY <1>1, <1>2, <1>3, <1>4 DEF Next

LEMMA InitMapped == Init => Abstract!Init
<1> SUFFICES ASSUME Init PROVE Abstract!Init
  OBVIOUS
<1>1. IInv
  BY InitIInv
<1>2. Ball = At("client")
  <2>1. Has("client")
    BY TwoSides DEF Init, Has, Started, Looping
  <2> QED
    BY <1>1, <2>1, BallsPlaced, TwoSides DEF Placed
<1>3. \A s \in Sides : Standing(s) = "playing" /\ rcnt = [t \in Sides |-> 0]
  BY DEF Init, Standing
<1> QED
  BY <1>2, <1>3, TwoSides DEF Abstract!Init, Abstract!Sides, Abstract!At, At, Sides, Standing

(* The whole example, from main to exit, implements the rally of a single  *)
(* queue pair, polling or sleeping, whichever of its calls fail and however *)
(* its peer ends.                                                          *)
THEOREM ExampleImplementsRally == Spec => ImplementsRally
<1>1. Init => Abstract!Init
  BY InitMapped
<1>2. IInv /\ IInv' /\ [Next]_vars => [Abstract!Next]_(Abstract!vars)
  BY StepMapped
<1> QED
  BY <1>1, <1>2, Invariance, PTL DEF Spec, ImplementsRally, Abstract!Spec
=============================================================================
