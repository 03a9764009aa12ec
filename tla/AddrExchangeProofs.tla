------------------------- MODULE AddrExchangeProofs -------------------------
(***************************************************************************)
(* Proofs about AddrExchange for every number of queue pairs, all lengths  *)
(* of an address and of the word "done", and every combination of faults.  *)
(* The dialogue is a chain in which at most one side can go on; the        *)
(* invariant IInv says for each call of the client where the server is and *)
(* what is under way.                                                      *)
(***************************************************************************)
EXTENDS AddrExchange, SequenceTheorems, TLAPS

-----------------------------------------------------------------------------
(* The inductive invariant.                                                *)

(* What is under way to a side: nothing; one message, sent or arrived; on  *)
(* the way to the server, the word "done" and the next address behind it;  *)
(* the rest of an address whose beginning the server has swallowed.        *)
Silent(s)    == sent[s] = <<>> /\ buf[s] = <<>>
Coming(s, m) == \/ sent[s] = <<m>> /\ buf[s] = <<>>
                \/ sent[s] = <<>> /\ buf[s] = m
DoneAndAddr(q) ==
  \/ sent["server"] = <<DoneMsg, Addr(q)>> /\ buf["server"] = <<>>
  \/ sent["server"] = <<Addr(q)>> /\ buf["server"] = DoneMsg
  \/ sent["server"] = <<>> /\ buf["server"] = DoneMsg \o Addr(q)
Cut == sent["server"] = <<>> /\ Len(buf["server"]) \in 1..(AddrLen - 1)

(* Where the server can be, and what is under way, at each call of the     *)
(* client.                                                                 *)
ServerIs(labels) == pc["server"] \in labels
SameTurn         == k["client"] = k["server"]

WhileWriteAddr ==
  /\ Silent("client")
  /\ \/ ServerIs({"readAddr"}) /\ SameTurn /\ Silent("server")
     \/ ServerIs({"readDone"}) /\ k["client"] = k["server"] + 1 /\ Coming("server", DoneMsg)
WhileReadAddr ==
  \/ /\ ServerIs({"readDone"}) /\ k["client"] = k["server"] + 1
     /\ Silent("client") /\ DoneAndAddr(k["client"])
  \/ /\ ServerIs({"readAddr"}) /\ SameTurn
     /\ Silent("client") /\ (Coming("server", Addr(k["server"])) \/ Cut)
  \/ /\ ServerIs({"connect", "writeAddr"}) /\ SameTurn
     /\ Silent("client") /\ Silent("server") /\ got["server"] = k["server"]
  \/ /\ ServerIs({"readDone"}) /\ SameTurn
     /\ Coming("client", Addr(k["client"])) /\ Silent("server")
  \/ ServerIs({"failed"}) /\ SameTurn /\ Silent("client") /\ sent["server"] = <<>>
WhileWriteDone ==
  /\ ServerIs({"readDone"}) /\ SameTurn /\ got["client"] = k["client"]
  /\ Silent("client") /\ Silent("server")
(* The last word of the client, while its queue pair is not yet connected, *)
(* or could not be.                                                        *)
LastWord ==
  /\ Silent("client")
  /\ \/ ServerIs({"readDone"}) /\ SameTurn /\ Coming("server", DoneMsg)
     \/ ServerIs({"readAddr"}) /\ k["server"] = k["client"] + 1 /\ Silent("server")
     \/ ServerIs({"close", "done"}) /\ SameTurn /\ k["server"] = N /\ Silent("server")
WhileConnect == LastWord /\ got["client"] = k["client"]
WhileOver ==
  /\ Silent("client") /\ SameTurn /\ k["client"] = N
  /\ \/ ServerIs({"readDone"}) /\ Coming("server", DoneMsg)
     \/ ServerIs({"close", "done"}) /\ Silent("server")
WhileFailed ==
  \/ ServerIs({"failed"}) /\ SameTurn /\ Silent("client") /\ sent["server"] = <<>>
  \/ /\ "client" \in faults
     /\ \/ LastWord
        \/ ServerIs({"failed"}) /\ k["server"] = k["client"] + 1 /\ Silent("client")
             /\ Silent("server")

Dialogue ==
  /\ pc["client"] \in {"writeAddr", "readAddr", "writeDone", "connect", "close", "done", "failed"}
  /\ pc["client"] = "writeAddr" => WhileWriteAddr
  /\ pc["client"] = "readAddr"  => WhileReadAddr
  /\ pc["client"] = "writeDone" => WhileWriteDone
  /\ pc["client"] = "connect"   => WhileConnect
  /\ pc["client"] \in {"close", "done"} => WhileOver
  /\ pc["client"] = "failed"    => WhileFailed

(* A side has connected the queue pairs of its past turns, to those of the *)
(* same number, and perhaps that of its present turn.                      *)
PastConnect(s) == IF s = "client" THEN {"close", "done"}
                                  ELSE {"writeAddr", "readDone", "close", "done"}
Connections ==
  \A s \in Sides, q \in Queues :
    dest[s][q] = IF q < k[s] \/ (q = k[s] /\ pc[s] \in PastConnect(s)) THEN q ELSE 0

(* The ends of the connection are closed by the close or the death of a    *)
(* process.                                                                *)
EndsOpen == \A s \in Sides : open[s] <=> pc[s] \notin {"done", "failed"}

Streams ==
  /\ pc \in [Sides -> {"writeAddr", "readAddr", "writeDone", "connect", "readDone",
                       "close", "done", "failed"}]
  /\ k \in [Sides -> Queues]
  /\ got \in [Sides -> 0..Garbage]
  /\ dest \in [Sides -> [Queues -> 0..Garbage]]
  /\ open \in [Sides -> BOOLEAN]
  /\ faults \subseteq Faults
  /\ sent \in [Sides -> Seq(Seq(Bytes))]
  /\ buf \in [Sides -> Seq(Bytes)]
  /\ \A s \in Sides : Len(buf[s]) <= AddrLen + DoneLen

IInv == Streams /\ Dialogue /\ Connections /\ EndsOpen

-----------------------------------------------------------------------------
(* Messages and reads.                                                     *)

LEMMA TwoSides ==
  /\ Sides = {"client", "server"}
  /\ Peer("client") = "server" /\ Peer("server") = "client"
  /\ N \in Nat \ {0} /\ AddrLen \in Nat /\ DoneLen \in Nat
  /\ 0 < DoneLen /\ DoneLen < AddrLen
BY NAssumption, LengthsAssumption DEF Sides, Peer

LEMMA AppendSecond ==
  ASSUME NEW S, NEW x \in S, NEW m \in S PROVE Append(<<x>>, m) = <<x, m>>
<1>1. <<x>> \in Seq(S) /\ Len(<<x>>) = 1 /\ <<x>>[1] = x
  OBVIOUS
<1>2. /\ Append(<<x>>, m) \in Seq(S) /\ Len(Append(<<x>>, m)) = 2
      /\ Append(<<x>>, m)[1] = x /\ Append(<<x>>, m)[2] = m
  BY <1>1
<1>3. <<x, m>> \in Seq(S) /\ Len(<<x, m>>) = 2 /\ <<x, m>>[1] = x /\ <<x, m>>[2] = m
  OBVIOUS
<1>4. \A i \in 1..2 : i = 1 \/ i = 2
  OBVIOUS
<1> QED
  BY <1>2, <1>3, <1>4, SeqEqual

(* An address names its queue pair.                                        *)
LEMMA Messages ==
  /\ DoneMsg \in Seq(Bytes) /\ Len(DoneMsg) = DoneLen
  /\ \A q \in Queues : /\ Addr(q) \in Seq(Bytes) /\ Len(Addr(q)) = AddrLen
                       /\ Parse(Addr(q)) = q
<1>1. AddrLen \in Nat /\ DoneLen \in Nat /\ 1 \in 1..AddrLen
  BY TwoSides
<1>2. DoneMsg \in Seq(Bytes) /\ Len(DoneMsg) = DoneLen
  <2>1. \A i \in 1..DoneLen : <<0, i>> \in Bytes
    BY DEF Bytes
  <2> QED
    BY <1>1, <2>1 DEF DoneMsg
<1>3. ASSUME NEW q \in Queues PROVE Addr(q) \in Seq(Bytes) /\ Len(Addr(q)) = AddrLen
  <2>1. \A i \in 1..AddrLen : <<q, i>> \in Bytes
    BY DEF Bytes
  <2> QED
    BY <1>1, <2>1 DEF Addr
<1>4. ASSUME NEW q \in Queues PROVE Parse(Addr(q)) = q
  <2>1. ASSUME NEW r \in Queues, Addr(q) = Addr(r) PROVE q = r
    <3>1. Addr(q)[1] = <<q, 1>> /\ Addr(r)[1] = <<r, 1>>
      BY <1>1 DEF Addr
    <3> QED
      BY <2>1, <3>1
  <2> QED
    BY <2>1 DEF Parse
<1> QED
  BY <1>2, <1>3, <1>4

LEMMA DoneAndAddrLength ==
  ASSUME NEW q \in Queues PROVE Len(DoneMsg \o Addr(q)) = DoneLen + AddrLen
<1>1. /\ DoneMsg \in Seq(Bytes) /\ Addr(q) \in Seq(Bytes)
      /\ Len(DoneMsg) = DoneLen /\ Len(Addr(q)) = AddrLen
  BY Messages
<1>2. Len(DoneMsg \o Addr(q)) = Len(DoneMsg) + Len(Addr(q))
  BY <1>1, ConcatProperties
<1> QED
  BY <1>1, <1>2

(* What a read that does not block takes, depending on what is under way.  *)
LEMMA ReadFacts ==
  ASSUME Streams, NEW s \in Sides, Readable(s)
  PROVE  /\ Silent(s) => ~open[Peer(s)] /\ Len(Taken(s)) # AddrLen
         /\ \A q \in Queues : Coming(s, Addr(q)) =>
              /\ Taken(s) = Addr(q) /\ Len(Taken(s)) = AddrLen
              /\ Read(s) => Silent(s)'
         /\ Coming(s, DoneMsg) => (Read(s) => Silent(s)')
         /\ s = "server" =>
              /\ Cut => Len(Taken(s)) # AddrLen
              /\ \A q \in Queues : DoneAndAddr(q) =>
                   (Read(s) => Coming("server", Addr(q))' \/ Cut')
<1> DEFINE b == buf[s]
<1>1. /\ b \in Seq(Bytes) /\ Len(b) \in Nat /\ AddrLen \in Nat /\ DoneLen \in Nat
      /\ 0 < DoneLen /\ DoneLen < AddrLen
  BY TwoSides DEF Streams
<1>2. Read(s) => buf'[s] = SubSeq(b, Len(Taken(s)) + 1, Len(b)) /\ sent' = sent
  BY DEF Read, Streams
<1>3. b = <<>> => Len(Taken(s)) = 0
  <2>1. b = <<>> => Len(b) = 0
    OBVIOUS
  <2>2. Len(b) = 0 => Taken(s) = b
    BY <1>1 DEF Taken
  <2> QED
    BY <2>1, <2>2
<1>4. Silent(s) => ~open[Peer(s)] /\ Len(Taken(s)) # AddrLen
  BY <1>1, <1>3 DEF Silent, Readable
<1>5. \A m : Coming(s, m) => b = m /\ sent[s] = <<>>
  BY DEF Coming, Readable
<1>6. Len(b) = AddrLen => Taken(s) = b
  BY <1>1 DEF Taken
<1>7. Len(b) < AddrLen => Taken(s) = b
  BY <1>1 DEF Taken
<1>8. SubSeq(b, Len(b) + 1, Len(b)) = <<>>
  BY <1>1
<1>9. ASSUME NEW q \in Queues, Coming(s, Addr(q))
      PROVE  /\ Taken(s) = Addr(q) /\ Len(Taken(s)) = AddrLen
             /\ Read(s) => Silent(s)'
  <2>1. b = Addr(q) /\ Len(b) = AddrLen /\ sent[s] = <<>>
    BY <1>5, <1>9, Messages
  <2> QED
    BY <1>2, <1>6, <1>8, <2>1 DEF Silent
<1>10. ASSUME Coming(s, DoneMsg), Read(s) PROVE Silent(s)'
  <2>1. Len(b) < AddrLen /\ sent[s] = <<>>
    BY <1>1, <1>5, <1>10, Messages
  <2> QED
    BY <1>2, <1>7, <1>8, <1>10, <2>1 DEF Silent
<1>11. ASSUME s = "server", Cut PROVE Len(Taken(s)) # AddrLen
  BY <1>1, <1>7, <1>11 DEF Cut
<1>12. ASSUME s = "server", NEW q \in Queues, DoneAndAddr(q), Read(s)
       PROVE  Coming("server", Addr(q))' \/ Cut'
  <2>1. b # <<>>
    <3>1. sent[s] # <<>> => b # <<>>
      BY DEF Readable
    <3>2. Len(DoneMsg \o Addr(q)) = DoneLen + AddrLen
      BY DoneAndAddrLength
    <3>3. sent[s] = <<>> => b = DoneMsg \o Addr(q)
      BY <1>12 DEF DoneAndAddr
    <3> QED
      BY <1>1, <3>1, <3>2, <3>3
  <2>2. CASE sent["server"] = <<Addr(q)>> /\ b = DoneMsg
    <3>1. Len(b) < AddrLen
      BY <1>1, <2>2, Messages
    <3> QED
      BY <1>2, <1>7, <1>8, <1>12, <2>2, <3>1 DEF Coming
  <2>3. CASE sent["server"] = <<>> /\ b = DoneMsg \o Addr(q)
    <3>1. Len(b) = DoneLen + AddrLen
      BY DoneAndAddrLength, <2>3
    <3>2. Taken(s) = SubSeq(b, 1, AddrLen) /\ Len(Taken(s)) = AddrLen
      BY <1>1, <3>1 DEF Taken
    <3>3. Len(SubSeq(b, AddrLen + 1, Len(b))) = DoneLen
      BY <1>1, <3>1
    <3> QED
      BY <1>1, <1>2, <1>12, <2>3, <3>2, <3>3 DEF Cut
  <2> QED
    BY <1>12, <2>1, <2>2, <2>3 DEF DoneAndAddr
<1> QED
  BY <1>4, <1>9, <1>10, <1>11, <1>12

(* A read leaves a rest of what there was.                                 *)
LEMMA ReadStreams ==
  ASSUME Streams, NEW s \in Sides, Read(s)
  PROVE  /\ buf' \in [Sides -> Seq(Bytes)] /\ sent' = sent /\ open' = open
         /\ \A t \in Sides : Len(buf'[t]) <= AddrLen + DoneLen
         /\ \A t \in Sides : t # s => buf'[t] = buf[t]
<1> DEFINE b == buf[s]
           n == Len(Taken(s))
<1>1. /\ b \in Seq(Bytes) /\ Len(b) \in Nat /\ AddrLen \in Nat /\ DoneLen \in Nat
      /\ Len(b) <= AddrLen + DoneLen
  BY TwoSides DEF Streams
<1>2. n \in Nat /\ n <= Len(b)
  BY <1>1 DEF Taken
<1>3. SubSeq(b, n + 1, Len(b)) \in Seq(Bytes) /\ Len(SubSeq(b, n + 1, Len(b))) = Len(b) - n
  <2> HIDE DEF b, n
  <2> QED
    BY <1>1, <1>2
<1>4. buf' = [buf EXCEPT ![s] = SubSeq(b, n + 1, Len(b))] /\ sent' = sent /\ open' = open
  BY DEF Read
<1> HIDE DEF b, n
<1> QED
  BY <1>1, <1>2, <1>3, <1>4 DEF Streams

(* One write more is under way.                                            *)
LEMMA WriteFacts ==
  ASSUME Streams, NEW s \in Sides, NEW m \in Seq(Bytes), Write(s, m)
  PROVE  /\ sent' \in [Sides -> Seq(Seq(Bytes))] /\ buf' = buf /\ open' = open
         /\ \A t \in Sides : t # Peer(s) => sent'[t] = sent[t]
         /\ Silent(Peer(s)) => sent'[Peer(s)] = <<m>> /\ buf'[Peer(s)] = <<>>
         /\ s = "client" /\ Coming("server", DoneMsg) =>
              \A q \in Queues : m = Addr(q) => DoneAndAddr(q)'
<1> DEFINE p == Peer(s)
<1>1. p \in Sides /\ sent[p] \in Seq(Seq(Bytes)) /\ (s = "client" => p = "server")
  BY TwoSides DEF Streams
<1>2. sent' = [sent EXCEPT ![p] = Append(@, m)] /\ buf' = buf /\ open' = open
  BY DEF Write
<1>3. sent' \in [Sides -> Seq(Seq(Bytes))] /\ sent'[p] = Append(sent[p], m)
  BY <1>1, <1>2 DEF Streams
<1>4. Append(<<>>, m) = <<m>> /\ \A x \in Seq(Bytes) : Append(<<x>>, m) = <<x, m>>
  <2>1. Append(<<>>, m) = <<m>>
    OBVIOUS
  <2> QED
    BY <2>1, AppendSecond
<1>5. Silent(p) => sent'[p] = <<m>> /\ buf'[p] = <<>>
  BY <1>2, <1>3, <1>4 DEF Silent
<1>6. ASSUME s = "client", Coming("server", DoneMsg), NEW q \in Queues, m = Addr(q)
      PROVE  DoneAndAddr(q)'
  BY <1>1, <1>2, <1>3, <1>4, <1>6, Messages DEF Coming, DoneAndAddr
<1> QED
  BY <1>1, <1>2, <1>3, <1>5, <1>6 DEF Streams

(* An arrival changes where a message is, and not what is under way.       *)
LEMMA DeliverFacts ==
  ASSUME Streams, NEW s \in Sides, Deliver(s)
  PROVE  /\ UNCHANGED <<pc, procVars, open>>
         /\ \A t \in Sides : t # s => sent'[t] = sent[t] /\ buf'[t] = buf[t]
         /\ sent[s] # <<>>
         /\ sent' \in [Sides -> Seq(Seq(Bytes))] /\ buf' \in [Sides -> Seq(Bytes)]
         /\ \A m \in Seq(Bytes) : Coming(s, m) => sent'[s] = <<>> /\ buf'[s] = m
         /\ s = "server" => \A q \in Queues : DoneAndAddr(q) =>
              DoneAndAddr(q)' /\ Len(buf'[s]) <= AddrLen + DoneLen
<1>1. /\ UNCHANGED <<pc, procVars, open>> /\ sent[s] # <<>>
      /\ buf'[s] = buf[s] \o Head(sent[s]) /\ sent'[s] = Tail(sent[s])
      /\ \A t \in Sides : t # s => sent'[t] = sent[t] /\ buf'[t] = buf[t]
  BY DEF Deliver, Streams
<1>2. \A m \in Seq(Bytes) : <<>> \o m = m
  OBVIOUS
<1>3. /\ \A x : Head(<<x>>) = x /\ Tail(<<x>>) = <<>>
      /\ \A x, y : Head(<<x, y>>) = x /\ Tail(<<x, y>>) = <<y>>
  OBVIOUS
<1>4. ASSUME NEW m \in Seq(Bytes), Coming(s, m) PROVE sent'[s] = <<>> /\ buf'[s] = m
  BY <1>1, <1>2, <1>3, <1>4 DEF Coming
<1>5. ASSUME s = "server", NEW q \in Queues, DoneAndAddr(q)
      PROVE  DoneAndAddr(q)' /\ Len(buf'[s]) <= AddrLen + DoneLen
  <2>1. /\ DoneMsg \in Seq(Bytes) /\ Addr(q) \in Seq(Bytes) /\ Len(DoneMsg) = DoneLen
        /\ AddrLen \in Nat /\ DoneLen \in Nat /\ Len(DoneMsg \o Addr(q)) = DoneLen + AddrLen
    BY Messages, DoneAndAddrLength, TwoSides
  <2>2. CASE sent["server"] = <<DoneMsg, Addr(q)>> /\ buf["server"] = <<>>
    <3>1. buf'["server"] = <<>> \o DoneMsg /\ sent'["server"] = <<Addr(q)>>
      BY <1>1, <1>3, <1>5, <2>2
    <3>2. buf'["server"] = DoneMsg
      BY <1>2, <2>1, <3>1
    <3> QED
      BY <1>5, <2>1, <3>1, <3>2 DEF DoneAndAddr
  <2>3. CASE sent["server"] = <<Addr(q)>> /\ buf["server"] = DoneMsg
    <3>1. buf'["server"] = DoneMsg \o Addr(q) /\ sent'["server"] = <<>>
      BY <1>1, <1>3, <1>5, <2>3
    <3> QED
      BY <1>5, <2>1, <3>1 DEF DoneAndAddr
  <2> QED
    BY <1>1, <1>5, <2>2, <2>3 DEF DoneAndAddr
<1>6. sent' \in [Sides -> Seq(Seq(Bytes))] /\ buf' \in [Sides -> Seq(Bytes)]
  <2>1. sent[s] \in Seq(Seq(Bytes)) /\ buf[s] \in Seq(Bytes)
    BY DEF Streams
  <2>2. Head(sent[s]) \in Seq(Bytes) /\ Tail(sent[s]) \in Seq(Seq(Bytes))
    BY <1>1, <2>1, HeadTailProperties
  <2>3. buf[s] \o Head(sent[s]) \in Seq(Bytes)
    BY <2>1, <2>2, ConcatProperties
  <2> QED
    BY <2>2, <2>3 DEF Deliver, Streams
<1> QED
  BY <1>1, <1>4, <1>5, <1>6

-----------------------------------------------------------------------------
(* One lemma per action.                                                   *)

LEMMA InitIInv == Init => IInv
<1> SUFFICES ASSUME Init PROVE IInv
  OBVIOUS
<1>1. Streams
  <2>1. AddrLen + DoneLen \in Nat /\ 1 \in Queues
    BY TwoSides DEF Queues
  <2> QED
    BY <2>1, TwoSides DEF Init, Streams, Garbage, Queues
<1>2. Dialogue
  BY TwoSides DEF Init, Dialogue, WhileWriteAddr, Silent, ServerIs, SameTurn
<1>3. Connections
  BY TwoSides DEF Init, Connections, PastConnect, Queues
<1>4. EndsOpen
  BY TwoSides DEF Init, EndsOpen
<1> QED
  BY <1>1, <1>2, <1>3, <1>4 DEF IInv

(* The parts of the invariant that are about the calls alone.              *)
LEMMA ClientWriteAddrIInv == ASSUME IInv, Step(ClientWriteAddr) PROVE IInv'
<1> DEFINE m == Addr(k["client"])
<1>1. /\ pc["client"] = "writeAddr" /\ pc' = [pc EXCEPT !["client"] = "readAddr"]
      /\ Write("client", m) /\ UNCHANGED procVars /\ faults' = faults
      /\ "client" \in Sides /\ "server" \in Sides /\ Peer("client") = "server"
      /\ k["client"] \in Queues
  BY TwoSides DEF Step, ClientWriteAddr, Goto, IInv, Streams
<1>2. pc'["client"] = "readAddr" /\ pc'["server"] = pc["server"] /\ UNCHANGED <<k, got, dest>>
  BY <1>1 DEF IInv, Streams, procVars
<1>3. m \in Seq(Bytes)
  BY <1>1, Messages
<1>4. /\ sent' \in [Sides -> Seq(Seq(Bytes))] /\ buf' = buf /\ open' = open
      /\ sent'["client"] = sent["client"]
      /\ Silent("server") => sent'["server"] = <<m>> /\ buf'["server"] = <<>>
      /\ Coming("server", DoneMsg) => DoneAndAddr(k["client"])'
  <2>1. Streams
    BY DEF IInv
  <2> HIDE DEF m
  <2>2. /\ sent' \in [Sides -> Seq(Seq(Bytes))] /\ buf' = buf /\ open' = open
        /\ sent'["client"] = sent["client"]
        /\ Silent("server") => sent'["server"] = <<m>> /\ buf'["server"] = <<>>
        /\ Coming("server", DoneMsg) => \A q \in Queues : m = Addr(q) => DoneAndAddr(q)'
    BY <1>1, <1>3, <2>1, TwoSides, WriteFacts
  <2>3. Coming("server", DoneMsg) => \A q \in Queues : q = k["client"] => DoneAndAddr(q)'
    BY <2>2 DEF m
  <2> QED
    BY <1>1, <1>2, <2>2, <2>3
<1>5. Streams'
  BY <1>1, <1>2, <1>4 DEF IInv, Streams
<1>6. Dialogue'
  <2>1. WhileWriteAddr
    BY <1>1 DEF IInv, Dialogue
  <2>2. Silent("client")'
    BY <1>4, <2>1 DEF WhileWriteAddr, Silent
  <2>3. CASE ServerIs({"readAddr"}) /\ SameTurn /\ Silent("server")
    <3>1. Coming("server", Addr(k["server"]))'
      BY <1>2, <1>4, <2>3 DEF Coming, SameTurn
    <3> QED
      BY <1>2, <2>2, <2>3, <3>1 DEF Dialogue, WhileReadAddr, ServerIs, SameTurn
  <2>4. CASE ServerIs({"readDone"}) /\ k["client"] = k["server"] + 1 /\ Coming("server", DoneMsg)
    <3>1. DoneAndAddr(k["client"])'
      BY <1>4, <2>4
    <3> QED
      BY <1>2, <2>2, <2>4, <3>1 DEF Dialogue, WhileReadAddr, ServerIs
  <2> QED
    BY <2>1, <2>3, <2>4 DEF WhileWriteAddr
<1>7. Connections'
  BY <1>1, <1>2, TwoSides DEF IInv, Connections, PastConnect
<1>8. EndsOpen'
  BY <1>1, <1>2, <1>4, TwoSides DEF IInv, EndsOpen
<1> QED
  BY <1>5, <1>6, <1>7, <1>8 DEF IInv

(* The end of a process that fails.                                        *)
LEMMA FailFacts ==
  ASSUME IInv, NEW s \in Sides, Fail(s), UNCHANGED faults, pc[s] \notin PastConnect(s)
  PROVE  /\ pc'[s] = "failed" /\ \A t \in Sides : t # s => pc'[t] = pc[t]
         /\ UNCHANGED <<k, got, sent, buf>>
         /\ Streams' /\ Connections' /\ EndsOpen'
<1>1. /\ pc' = [pc EXCEPT ![s] = "failed"] /\ open' = [open EXCEPT ![s] = FALSE]
      /\ UNCHANGED <<k, got, dest, sent, buf>>
  BY DEF Fail, procVars
<1>2. pc'[s] = "failed" /\ \A t \in Sides : t # s => pc'[t] = pc[t]
  BY <1>1 DEF IInv, Streams
<1>3. Streams'
  BY <1>1 DEF IInv, Streams
<1>4. Connections'
  BY <1>1, <1>2 DEF IInv, Connections, PastConnect
<1>5. EndsOpen'
  BY <1>1, <1>2 DEF IInv, Streams, EndsOpen
<1> QED
  BY <1>1, <1>2, <1>3, <1>4, <1>5

LEMMA ClientReadAddrIInv == ASSUME IInv, Step(ClientReadAddr) PROVE IInv'
<1>1. /\ pc["client"] = "readAddr" /\ Readable("client") /\ faults' = faults /\ Streams
      /\ "client" \in Sides /\ "server" \in Sides /\ Peer("client") = "server"
      /\ WhileReadAddr /\ k["client"] \in Queues
  BY TwoSides DEF Step, ClientReadAddr, ReadAddr, IInv, Dialogue, Streams
<1>2. CASE Silent("client")
  <2>1. ~open["server"] /\ Len(Taken("client")) # AddrLen
    BY <1>1, <1>2, ReadFacts
  <2>2. Fail("client")
    BY <2>1 DEF Step, ClientReadAddr, ReadAddr
  <2>3. ServerIs({"failed"}) /\ SameTurn /\ sent["server"] = <<>>
    BY <1>1, <2>1 DEF WhileReadAddr, ServerIs, IInv, EndsOpen, Coming, Silent
  <2>4. "readAddr" \notin PastConnect("client")
    BY DEF PastConnect
  <2>5. /\ pc'["client"] = "failed" /\ pc'["server"] = pc["server"]
        /\ UNCHANGED <<k, got, sent, buf>>
        /\ Streams' /\ Connections' /\ EndsOpen'
    BY <1>1, <2>2, <2>4, FailFacts
  <2>6. Dialogue'
    BY <1>2, <2>3, <2>5 DEF Dialogue, WhileFailed, ServerIs, SameTurn, Silent
  <2> QED
    BY <2>5, <2>6 DEF IInv
<1>3. CASE /\ ServerIs({"readDone"}) /\ SameTurn
           /\ Coming("client", Addr(k["client"])) /\ Silent("server")
  <2>1. /\ Taken("client") = Addr(k["client"]) /\ Len(Taken("client")) = AddrLen
        /\ Read("client") => Silent("client")'
    BY <1>1, <1>3, ReadFacts
  <2>2. /\ Read("client") /\ got' = [got EXCEPT !["client"] = k["client"]]
        /\ pc' = [pc EXCEPT !["client"] = "writeDone"]
        /\ UNCHANGED <<k, dest>>
    BY <1>1, <2>1, Messages DEF Step, ClientReadAddr, ReadAddr, Goto
  <2>3. /\ buf' \in [Sides -> Seq(Bytes)] /\ sent' = sent /\ open' = open
        /\ \A t \in Sides : Len(buf'[t]) <= AddrLen + DoneLen
        /\ buf'["server"] = buf["server"]
    BY <1>1, <2>2, ReadStreams
  <2>4. pc'["client"] = "writeDone" /\ pc'["server"] = pc["server"] /\ got'["client"] = k["client"]
    BY <1>1, <2>2 DEF Streams
  <2>5. Streams'
    <3>1. k["client"] \in 0..Garbage
      BY <1>1, TwoSides DEF Queues, Garbage
    <3> QED
      BY <1>1, <2>2, <2>3, <3>1 DEF Streams
  <2>6. Dialogue'
    BY <1>3, <2>1, <2>2, <2>3, <2>4
       DEF Dialogue, WhileWriteDone, ServerIs, SameTurn, Silent
  <2>7. Connections' /\ EndsOpen'
    BY <1>1, <2>2, <2>3, <2>4, TwoSides DEF IInv, Connections, PastConnect, EndsOpen
  <2> QED
    BY <2>5, <2>6, <2>7 DEF IInv
<1> QED
  BY <1>1, <1>2, <1>3 DEF WhileReadAddr

LEMMA ClientWriteDoneIInv == ASSUME IInv, Step(ClientWriteDone) PROVE IInv'
<1>1. /\ pc["client"] = "writeDone" /\ pc' = [pc EXCEPT !["client"] = "connect"]
      /\ Write("client", DoneMsg) /\ UNCHANGED <<k, got, dest>> /\ faults' = faults
      /\ "client" \in Sides /\ "server" \in Sides /\ Peer("client") = "server"
      /\ WhileWriteDone /\ Streams
  BY TwoSides DEF Step, ClientWriteDone, Goto, IInv, Dialogue, procVars
<1>2. pc'["client"] = "connect" /\ pc'["server"] = pc["server"]
  BY <1>1 DEF Streams
<1>3. /\ sent' \in [Sides -> Seq(Seq(Bytes))] /\ buf' = buf /\ open' = open
      /\ sent'["client"] = sent["client"]
      /\ Silent("server") => sent'["server"] = <<DoneMsg>> /\ buf'["server"] = <<>>
  BY <1>1, Messages, TwoSides, WriteFacts
<1>4. Streams'
  BY <1>1, <1>3 DEF Streams
<1>5. Dialogue'
  BY <1>1, <1>2, <1>3
     DEF Dialogue, WhileWriteDone, WhileConnect, LastWord, ServerIs, SameTurn, Silent, Coming
<1>6. Connections' /\ EndsOpen'
  BY <1>1, <1>2, <1>3, TwoSides DEF IInv, Connections, PastConnect, EndsOpen
<1> QED
  BY <1>4, <1>5, <1>6 DEF IInv

(* A queue pair is connected to the one of the same number.                *)
LEMMA ConnectedFacts ==
  ASSUME Streams, NEW s \in Sides, Connected(s), got[s] = k[s]
  PROVE  /\ dest' \in [Sides -> [Queues -> 0..Garbage]]
         /\ \A t \in Sides, q \in Queues :
              dest'[t][q] = IF t = s /\ q = k[s] THEN q ELSE dest[t][q]
         /\ k[s] \in Nat /\ k[s] >= 1 /\ k[s] <= N /\ N \in Nat /\ Queues = 1..N
<1>1. k[s] \in Queues /\ N \in Nat
  BY TwoSides DEF Streams
<1>2. k[s] \in 0..Garbage
  BY <1>1 DEF Queues, Garbage
<1>3. dest' = [dest EXCEPT ![s][k[s]] = k[s]]
  BY DEF Connected
<1>4. dest \in [Sides -> [Queues -> 0..Garbage]]
  BY DEF Streams
<1>5. dest' \in [Sides -> [Queues -> 0..Garbage]]
  BY <1>1, <1>2, <1>3, <1>4
<1>6. ASSUME NEW t \in Sides, NEW q \in Queues
      PROVE  dest'[t][q] = IF t = s /\ q = k[s] THEN q ELSE dest[t][q]
  BY <1>1, <1>3, <1>4
<1> QED
  BY <1>1, <1>5, <1>6 DEF Queues

(* The end of a turn.                                                      *)
LEMMA NextQueueFacts ==
  ASSUME Streams, NEW s \in Sides, NextQueue(s)
  PROVE  /\ \/ k[s] < N /\ k'[s] = k[s] + 1 /\ pc'[s] = First(s)
            \/ k[s] = N /\ k'[s] = k[s] /\ pc'[s] = "close"
         /\ \A t \in Sides : t # s => k'[t] = k[t] /\ pc'[t] = pc[t]
         /\ k' \in [Sides -> Queues]
         /\ pc' \in [Sides -> {"writeAddr", "readAddr", "writeDone", "connect", "readDone",
                               "close", "done", "failed"}]
<1>1. /\ N \in Nat /\ Queues = 1..N /\ k[s] \in 1..N
      /\ k \in [Sides -> Queues]
      /\ pc \in [Sides -> {"writeAddr", "readAddr", "writeDone", "connect", "readDone",
                            "close", "done", "failed"}]
  BY TwoSides DEF Streams, Queues
<1>2. CASE k[s] < N
  <2>1. k' = [k EXCEPT ![s] = k[s] + 1] /\ pc' = [pc EXCEPT ![s] = First(s)]
    BY <1>2 DEF NextQueue, Goto
  <2>2. k[s] + 1 \in Queues /\ First(s) \in {"writeAddr", "readAddr"}
    BY <1>1, <1>2 DEF First
  <2> QED
    BY <1>1, <1>2, <2>1, <2>2
<1>3. CASE k[s] = N
  <2>1. k' = k /\ pc' = [pc EXCEPT ![s] = "close"]
    BY <1>1, <1>3 DEF NextQueue, Goto
  <2> QED
    BY <1>1, <1>3, <2>1
<1> QED
  BY <1>1, <1>2, <1>3

LEMMA ClientConnectIInv == ASSUME IInv, Step(ClientConnect) PROVE IInv'
<1>1. /\ pc["client"] = "connect" /\ UNCHANGED <<got, sent, buf, open, faults>>
      /\ "client" \in Sides /\ "server" \in Sides
      /\ WhileConnect /\ Streams /\ k["server"] \in Queues /\ NextQueue("client")
  BY TwoSides DEF Step, ClientConnect, IInv, Dialogue, tcpVars, Streams
<1>2. Connected("client") /\ got["client"] = k["client"]
  BY <1>1 DEF Step, ClientConnect, WhileConnect
<1>3. /\ dest' \in [Sides -> [Queues -> 0..Garbage]]
      /\ \A t \in Sides, q \in Queues :
           dest'[t][q] = IF t = "client" /\ q = k["client"] THEN q ELSE dest[t][q]
      /\ k["client"] \in Nat /\ k["client"] >= 1 /\ k["client"] <= N
      /\ N \in Nat /\ Queues = 1..N
  BY <1>1, <1>2, ConnectedFacts
<1>4. /\ k'["server"] = k["server"] /\ pc'["server"] = pc["server"]
      /\ \/ k["client"] < N /\ k'["client"] = k["client"] + 1 /\ pc'["client"] = "writeAddr"
         \/ k["client"] = N /\ k'["client"] = k["client"] /\ pc'["client"] = "close"
      /\ k' \in [Sides -> Queues]
      /\ pc' \in [Sides -> {"writeAddr", "readAddr", "writeDone", "connect", "readDone",
                            "close", "done", "failed"}]
  BY <1>1, NextQueueFacts DEF First
<1>5. Streams'
  BY <1>1, <1>3, <1>4 DEF Streams
<1>6. ASSUME k["client"] < N, k'["client"] = k["client"] + 1, pc'["client"] = "writeAddr"
      PROVE  Dialogue'
  <2>1. \A t \in Sides : \A m : (Silent(t)' <=> Silent(t)) /\ (Coming(t, m)' <=> Coming(t, m))
    BY <1>1 DEF Silent, Coming
  <2>2. /\ \A labels : ServerIs(labels)' <=> ServerIs(labels)
        /\ SameTurn' <=> k["client"] + 1 = k["server"]
    BY <1>4, <1>6 DEF ServerIs, SameTurn
  <2>3. CASE ServerIs({"readDone"}) /\ SameTurn /\ Coming("server", DoneMsg)
    <3>1. k'["client"] = k'["server"] + 1
      BY <1>4, <1>6, <2>3 DEF SameTurn
    <3>2. WhileWriteAddr'
      BY <1>1, <2>1, <2>2, <2>3, <3>1 DEF WhileConnect, LastWord, WhileWriteAddr
    <3> QED
      BY <1>6, <3>2 DEF Dialogue
  <2>4. CASE ServerIs({"readAddr"}) /\ k["server"] = k["client"] + 1 /\ Silent("server")
    <3>1. WhileWriteAddr'
      BY <1>1, <2>1, <2>2, <2>4 DEF WhileConnect, LastWord, WhileWriteAddr
    <3> QED
      BY <1>6, <3>1 DEF Dialogue
  <2>5. CASE ServerIs({"close", "done"}) /\ SameTurn /\ k["server"] = N /\ Silent("server")
    BY <1>3, <1>6, <2>5 DEF SameTurn
  <2> QED
    BY <1>1, <2>3, <2>4, <2>5 DEF WhileConnect, LastWord
<1>7. ASSUME k["client"] = N, k'["client"] = k["client"], pc'["client"] = "close"
      PROVE  Dialogue'
  BY <1>1, <1>3, <1>4, <1>7
     DEF Dialogue, WhileConnect, LastWord, WhileOver, ServerIs, SameTurn, Silent, Coming
<1>8. Connections'
  <2> SUFFICES ASSUME NEW t \in Sides, NEW q \in Queues
               PROVE  dest'[t][q] = IF q < k'[t] \/ (q = k'[t] /\ pc'[t] \in PastConnect(t))
                                      THEN q ELSE 0
    BY DEF Connections
  <2>1. dest[t][q] = IF q < k[t] \/ (q = k[t] /\ pc[t] \in PastConnect(t)) THEN q ELSE 0
    BY DEF IInv, Connections
  <2>2. CASE t = "client"
    <3>1. pc[t] \notin PastConnect(t) /\ "writeAddr" \notin PastConnect(t)
          /\ "close" \in PastConnect(t)
      BY <1>1, <2>2 DEF PastConnect
    <3>2. q \in Nat /\ q <= N /\ k[t] \in Nat
      BY <1>3, <2>2
    <3>3. dest'[t][q] = IF q < k[t] \/ q = k[t] THEN q ELSE 0
      BY <1>3, <2>1, <2>2, <3>1
    <3>4. CASE k[t] < N /\ k'[t] = k[t] + 1 /\ pc'[t] = "writeAddr"
      <4>1. q < k'[t] <=> q < k[t] \/ q = k[t]
        BY <3>2, <3>4
      <4> QED
        BY <3>1, <3>3, <3>4, <4>1
    <3>5. CASE k[t] = N /\ k'[t] = k[t] /\ pc'[t] = "close"
      BY <3>1, <3>3, <3>5
    <3> QED
      BY <1>4, <2>2, <3>4, <3>5
  <2>3. CASE t = "server"
    BY <1>3, <1>4, <2>1, <2>3
  <2> QED
    BY <2>2, <2>3, TwoSides
<1>9. EndsOpen'
  BY <1>1, <1>4, TwoSides DEF IInv, EndsOpen
<1> QED
  BY <1>4, <1>5, <1>6, <1>7, <1>8, <1>9 DEF IInv

LEMMA ConnectFailedIInv ==
  ASSUME IInv, NEW s \in Sides, Step(ConnectFailed(s)) PROVE IInv'
<1>1. pc[s] = "connect" /\ s \in faults /\ Fail(s) /\ faults' = faults
  BY DEF Step, ConnectFailed
<1>2. "connect" \notin PastConnect(s)
  BY DEF PastConnect
<1>3. /\ pc'[s] = "failed" /\ \A t \in Sides : t # s => pc'[t] = pc[t]
      /\ UNCHANGED <<k, got, sent, buf>>
      /\ Streams' /\ Connections' /\ EndsOpen'
  BY <1>1, <1>2, FailFacts
<1>4. CASE s = "client"
  <2>1. LastWord /\ pc'["client"] = "failed" /\ pc'["server"] = pc["server"]
    BY <1>1, <1>3, <1>4, TwoSides DEF IInv, Dialogue, WhileConnect
  <2>2. LastWord'
    BY <1>3, <2>1 DEF LastWord, ServerIs, SameTurn, Silent, Coming
  <2>3. Dialogue'
    BY <1>1, <1>4, <2>1, <2>2 DEF Dialogue, WhileFailed
  <2> QED
    BY <1>3, <2>3 DEF IInv
<1>5. CASE s = "server"
  <2>1. /\ pc["client"] = "readAddr" /\ SameTurn /\ Silent("client") /\ Silent("server")
        /\ pc'["server"] = "failed" /\ pc'["client"] = pc["client"]
    BY <1>1, <1>3, <1>5, TwoSides
       DEF IInv, Dialogue, WhileWriteAddr, WhileReadAddr, WhileWriteDone, WhileConnect, LastWord,
           WhileOver, WhileFailed, ServerIs
  <2>2. Dialogue'
    BY <1>3, <2>1 DEF Dialogue, WhileReadAddr, ServerIs, SameTurn, Silent
  <2> QED
    BY <1>3, <2>2 DEF IInv
<1> QED
  BY <1>4, <1>5, TwoSides

LEMMA CloseIInv == ASSUME IInv, NEW s \in Sides, Step(Close(s)) PROVE IInv'
<1>1. /\ pc[s] = "close" /\ pc' = [pc EXCEPT ![s] = "done"]
      /\ open' = [open EXCEPT ![s] = FALSE]
      /\ UNCHANGED <<k, got, dest, sent, buf, faults>>
  BY DEF Step, Close, Goto, procVars
<1>2. pc'[s] = "done" /\ \A t \in Sides : t # s => pc'[t] = pc[t]
  BY <1>1 DEF IInv, Streams
<1>3. Streams'
  BY <1>1 DEF IInv, Streams
<1>4. Connections'
  BY <1>1, <1>2 DEF IInv, Connections, PastConnect
<1>5. EndsOpen'
  BY <1>1, <1>2 DEF IInv, Streams, EndsOpen
<1>6. \A t \in Sides : \A m : (Silent(t)' <=> Silent(t)) /\ (Coming(t, m)' <=> Coming(t, m))
  BY <1>1 DEF Silent, Coming
<1>7. CASE s = "client"
  <2>1. WhileOver
    BY <1>1, <1>7 DEF IInv, Dialogue
  <2>2. WhileOver'
    BY <1>1, <1>2, <1>6, <1>7, <2>1, TwoSides DEF WhileOver, ServerIs, SameTurn
  <2> QED
    BY <1>2, <1>3, <1>4, <1>5, <1>7, <2>2 DEF IInv, Dialogue
<1>8. CASE s = "server"
  <2>1. /\ pc'["client"] = pc["client"] /\ pc'["server"] = "done"
        /\ pc["client"] \in {"connect", "close", "done", "failed"}
    BY <1>1, <1>2, <1>8, TwoSides
       DEF IInv, Dialogue, WhileWriteAddr, WhileReadAddr, WhileWriteDone, ServerIs
  <2>2. LastWord => LastWord'
    BY <1>1, <1>6, <1>8, <2>1, TwoSides DEF LastWord, ServerIs, SameTurn
  <2>3. WhileConnect => WhileConnect'
    BY <1>1, <2>2 DEF WhileConnect
  <2>4. WhileOver => WhileOver'
    BY <1>1, <1>6, <1>8, <2>1, TwoSides DEF WhileOver, ServerIs, SameTurn
  <2>5. WhileFailed => WhileFailed'
    BY <1>1, <1>8, <2>2 DEF WhileFailed, ServerIs
  <2>6. Dialogue'
    BY <2>1, <2>3, <2>4, <2>5 DEF IInv, Dialogue
  <2> QED
    BY <1>3, <1>4, <1>5, <2>6 DEF IInv
<1> QED
  BY <1>7, <1>8, TwoSides

LEMMA ServerReadAddrIInv == ASSUME IInv, Step(ServerReadAddr) PROVE IInv'
<1>1. /\ pc["server"] = "readAddr" /\ Readable("server") /\ faults' = faults /\ Streams
      /\ "client" \in Sides /\ "server" \in Sides /\ Peer("server") = "client"
      /\ k["server"] \in Queues
  BY TwoSides DEF Step, ServerReadAddr, ReadAddr, IInv, Streams
<1>2. Silent("server") => ~open["client"]
  BY <1>1, ReadFacts
<1>3. \/ /\ pc["client"] = "readAddr" /\ SameTurn /\ Silent("client")
         /\ Coming("server", Addr(k["server"])) \/ Cut
      \/ /\ pc["client"] = "failed" /\ "client" \in faults /\ k["server"] = k["client"] + 1
         /\ Silent("client") /\ Silent("server")
  BY <1>1, <1>2, TwoSides
     DEF IInv, Dialogue, WhileWriteAddr, WhileReadAddr, WhileWriteDone, WhileConnect, LastWord,
         WhileOver, WhileFailed, ServerIs, EndsOpen
<1>4. ASSUME Len(Taken("server")) # AddrLen
      PROVE  /\ pc'["server"] = "failed" /\ pc'["client"] = pc["client"]
             /\ UNCHANGED <<k, got, sent, buf>>
             /\ Streams' /\ Connections' /\ EndsOpen'
  <2>1. Fail("server")
    BY <1>4 DEF Step, ServerReadAddr, ReadAddr
  <2>2. "readAddr" \notin PastConnect("server")
    BY DEF PastConnect
  <2> QED
    BY <1>1, <2>1, <2>2, FailFacts
<1>5. CASE pc["client"] = "readAddr" /\ SameTurn /\ Silent("client") /\ Cut
  <2>1. Len(Taken("server")) # AddrLen
    BY <1>1, <1>5, ReadFacts
  <2>2. Dialogue'
    BY <1>4, <1>5, <2>1 DEF Dialogue, WhileReadAddr, ServerIs, SameTurn, Silent, Cut
  <2> QED
    BY <1>4, <2>1, <2>2 DEF IInv
<1>6. CASE /\ pc["client"] = "failed" /\ "client" \in faults /\ k["server"] = k["client"] + 1
           /\ Silent("client") /\ Silent("server")
  <2>1. Len(Taken("server")) # AddrLen
    BY <1>1, <1>6, ReadFacts
  <2>2. Dialogue'
    BY <1>1, <1>4, <1>6, <2>1 DEF Dialogue, WhileFailed, ServerIs, SameTurn, Silent
  <2> QED
    BY <1>4, <2>1, <2>2 DEF IInv
<1>7. CASE /\ pc["client"] = "readAddr" /\ SameTurn /\ Silent("client")
           /\ Coming("server", Addr(k["server"]))
  <2>1. /\ Taken("server") = Addr(k["server"]) /\ Len(Taken("server")) = AddrLen
        /\ Read("server") => Silent("server")'
    BY <1>1, <1>7, ReadFacts
  <2>2. /\ Read("server") /\ got' = [got EXCEPT !["server"] = k["server"]]
        /\ pc' = [pc EXCEPT !["server"] = "connect"]
        /\ UNCHANGED <<k, dest>>
    BY <1>1, <2>1, Messages DEF Step, ServerReadAddr, ReadAddr, Goto
  <2>3. /\ buf' \in [Sides -> Seq(Bytes)] /\ sent' = sent /\ open' = open
        /\ \A t \in Sides : Len(buf'[t]) <= AddrLen + DoneLen
        /\ buf'["client"] = buf["client"]
    BY <1>1, <2>2, ReadStreams
  <2>4. pc'["server"] = "connect" /\ pc'["client"] = pc["client"] /\ got'["server"] = k["server"]
    BY <1>1, <2>2 DEF Streams
  <2>5. Streams'
    <3>1. k["server"] \in 0..Garbage
      BY <1>1, TwoSides DEF Queues, Garbage
    <3> QED
      BY <1>1, <2>2, <2>3, <3>1 DEF Streams
  <2>6. Dialogue'
    BY <1>7, <2>1, <2>2, <2>3, <2>4
       DEF Dialogue, WhileReadAddr, ServerIs, SameTurn, Silent
  <2>7. Connections' /\ EndsOpen'
    BY <1>1, <2>2, <2>3, <2>4, TwoSides DEF IInv, Connections, PastConnect, EndsOpen
  <2> QED
    BY <2>5, <2>6, <2>7 DEF IInv
<1> QED
  BY <1>3, <1>5, <1>6, <1>7

(* Between its two reads the server has the client waiting.                *)
LEMMA ServerBusy ==
  ASSUME IInv, pc["server"] \in {"connect", "writeAddr"}
  PROVE  /\ pc["client"] = "readAddr" /\ SameTurn /\ Silent("client") /\ Silent("server")
         /\ got["server"] = k["server"]
BY DEF IInv, Dialogue, WhileWriteAddr, WhileReadAddr, WhileWriteDone, WhileConnect, LastWord,
       WhileOver, WhileFailed, ServerIs

LEMMA ServerConnectIInv == ASSUME IInv, Step(ServerConnect) PROVE IInv'
<1>1. /\ pc["server"] = "connect" /\ pc' = [pc EXCEPT !["server"] = "writeAddr"]
      /\ UNCHANGED <<k, got, sent, buf, open, faults>>
      /\ "client" \in Sides /\ "server" \in Sides /\ Streams /\ Connected("server")
  BY TwoSides DEF Step, ServerConnect, IInv, Goto, tcpVars
<1>2. /\ pc["client"] = "readAddr" /\ SameTurn /\ Silent("client") /\ Silent("server")
      /\ got["server"] = k["server"]
  BY <1>1, ServerBusy
<1>3. /\ dest' \in [Sides -> [Queues -> 0..Garbage]]
      /\ \A t \in Sides, q \in Queues :
           dest'[t][q] = IF t = "server" /\ q = k["server"] THEN q ELSE dest[t][q]
      /\ k["server"] \in Nat
  BY <1>1, <1>2, ConnectedFacts
<1>4. pc'["server"] = "writeAddr" /\ pc'["client"] = pc["client"]
  BY <1>1 DEF Streams
<1>5. Streams'
  BY <1>1, <1>3 DEF Streams
<1>6. Dialogue'
  BY <1>1, <1>2, <1>4 DEF Dialogue, WhileReadAddr, ServerIs, SameTurn, Silent
<1>7. Connections'
  BY <1>1, <1>3, <1>4, TwoSides DEF IInv, Connections, PastConnect
<1>8. EndsOpen'
  BY <1>1, <1>4, TwoSides DEF IInv, EndsOpen
<1> QED
  BY <1>5, <1>6, <1>7, <1>8 DEF IInv

LEMMA ServerWriteAddrIInv == ASSUME IInv, Step(ServerWriteAddr) PROVE IInv'
<1> DEFINE m == Addr(k["server"])
<1>1. /\ pc["server"] = "writeAddr" /\ pc' = [pc EXCEPT !["server"] = "readDone"]
      /\ Write("server", m) /\ UNCHANGED <<k, got, dest>> /\ faults' = faults
      /\ "client" \in Sides /\ "server" \in Sides /\ Peer("server") = "client"
      /\ Streams /\ k["server"] \in Queues
  BY TwoSides DEF Step, ServerWriteAddr, Goto, IInv, procVars, Streams
<1>2. pc["client"] = "readAddr" /\ SameTurn /\ Silent("client") /\ Silent("server")
  BY <1>1, ServerBusy
<1>3. pc'["server"] = "readDone" /\ pc'["client"] = pc["client"]
  BY <1>1 DEF Streams
<1>4. m \in Seq(Bytes)
  BY <1>1, Messages
<1>5. /\ sent' \in [Sides -> Seq(Seq(Bytes))] /\ buf' = buf /\ open' = open
      /\ sent'["server"] = sent["server"]
      /\ sent'["client"] = <<m>> /\ buf'["client"] = <<>>
  <2> HIDE DEF m
  <2> QED
    BY <1>1, <1>2, <1>4, TwoSides, WriteFacts
<1>6. Streams'
  BY <1>1, <1>5 DEF Streams
<1>7. Dialogue'
  BY <1>1, <1>2, <1>3, <1>5 DEF Dialogue, WhileReadAddr, ServerIs, SameTurn, Silent, Coming
<1>8. Connections' /\ EndsOpen'
  BY <1>1, <1>3, <1>5, TwoSides DEF IInv, Connections, PastConnect, EndsOpen
<1> QED
  BY <1>6, <1>7, <1>8 DEF IInv

(* The read of the word "done": it may be alone, or swallow the beginning  *)
(* of the next address.                                                    *)
LEMMA ServerReadDoneIInv == ASSUME IInv, Step(ServerReadDone) PROVE IInv'
<1>1. /\ pc["server"] = "readDone" /\ Read("server") /\ Readable("server")
      /\ UNCHANGED <<got, dest, faults>> /\ NextQueue("server")
      /\ "client" \in Sides /\ "server" \in Sides /\ Peer("server") = "client" /\ Streams
      /\ N \in Nat /\ k["server"] \in 1..N /\ k["client"] \in 1..N /\ Queues = 1..N
  BY TwoSides DEF Step, ServerReadDone, Read, IInv, Streams, Queues
<1>2. /\ Silent("server") => ~open["client"]
      /\ Coming("server", DoneMsg) => Silent("server")'
      /\ \A q \in Queues : DoneAndAddr(q) => Coming("server", Addr(q))' \/ Cut'
  BY <1>1, ReadFacts
<1>3. /\ buf' \in [Sides -> Seq(Bytes)] /\ sent' = sent /\ open' = open
      /\ \A t \in Sides : Len(buf'[t]) <= AddrLen + DoneLen
      /\ buf'["client"] = buf["client"]
  BY <1>1, ReadStreams
<1>4. /\ pc'["client"] = pc["client"] /\ k'["client"] = k["client"]
      /\ \/ k["server"] < N /\ k'["server"] = k["server"] + 1 /\ pc'["server"] = "readAddr"
         \/ k["server"] = N /\ k'["server"] = k["server"] /\ pc'["server"] = "close"
      /\ k' \in [Sides -> Queues]
      /\ pc' \in [Sides -> {"writeAddr", "readAddr", "writeDone", "connect", "readDone",
                            "close", "done", "failed"}]
  BY <1>1, NextQueueFacts DEF First
<1>5. Streams'
  BY <1>1, <1>3, <1>4 DEF Streams
<1>6. Silent("client")' <=> Silent("client")
  BY <1>3 DEF Silent
<1>7. Dialogue'
  <2>1. ~Silent("server") \/ pc["client"] \in {"done", "failed"}
    BY <1>1, <1>2 DEF IInv, EndsOpen
  <2>2. CASE pc["client"] = "writeAddr"
    <3>1. Silent("client") /\ k["client"] = k["server"] + 1 /\ Coming("server", DoneMsg)
      BY <1>1, <2>2 DEF IInv, Dialogue, WhileWriteAddr, ServerIs
    <3> QED
      BY <1>1, <1>2, <1>4, <1>6, <2>2, <3>1 DEF Dialogue, WhileWriteAddr, ServerIs, SameTurn
  <2>3. CASE pc["client"] = "readAddr"
    <3>1. Silent("client") /\ k["client"] = k["server"] + 1 /\ DoneAndAddr(k["client"])
      BY <1>1, <2>1, <2>3 DEF IInv, Dialogue, WhileReadAddr, ServerIs
    <3>2. k'["server"] = k["client"] /\ pc'["server"] = "readAddr"
      BY <1>1, <1>4, <3>1
    <3>3. \A q \in Queues : q = k["client"] => Coming("server", Addr(q))' \/ Cut'
      BY <1>2, <3>1
    <3>4. Coming("server", Addr(k["server"]))' \/ Cut'
      <4>1. \A q \in Queues : q = k'["server"] => Coming("server", Addr(k["server"]))' \/ Cut'
        BY <3>2, <3>3 DEF Coming
      <4> QED
        BY <1>1, <3>2, <4>1
    <3> QED
      BY <1>4, <1>6, <2>3, <3>1, <3>2, <3>4 DEF Dialogue, WhileReadAddr, ServerIs, SameTurn
  <2>4. CASE pc["client"] = "writeDone"
    BY <2>1, <2>4 DEF IInv, Dialogue, WhileWriteDone
  <2>5. ASSUME LastWord PROVE LastWord'
    <3>1. Silent("client") /\ SameTurn /\ Coming("server", DoneMsg)
      BY <1>1, <2>5 DEF LastWord, ServerIs
    <3> QED
      BY <1>1, <1>2, <1>4, <1>6, <3>1 DEF LastWord, ServerIs, SameTurn
  <2>6. CASE pc["client"] = "connect"
    BY <1>1, <1>4, <2>5, <2>6 DEF IInv, Dialogue, WhileConnect
  <2>7. CASE pc["client"] \in {"close", "done"}
    <3>1. Silent("client") /\ SameTurn /\ k["client"] = N /\ Coming("server", DoneMsg)
      BY <1>1, <2>7 DEF IInv, Dialogue, WhileOver, ServerIs
    <3>2. k'["server"] = N /\ k'["client"] = N /\ pc'["server"] = "close"
      BY <1>1, <1>4, <3>1 DEF SameTurn
    <3>3. WhileOver'
      BY <1>2, <1>6, <3>1, <3>2 DEF WhileOver, ServerIs, SameTurn
    <3> QED
      BY <1>4, <2>7, <3>3 DEF Dialogue
  <2>8. CASE pc["client"] = "failed"
    <3>1. "client" \in faults /\ LastWord
      BY <1>1, <2>8 DEF IInv, Dialogue, WhileFailed, ServerIs
    <3> QED
      BY <1>1, <1>4, <2>5, <2>8, <3>1 DEF Dialogue, WhileFailed
  <2> QED
    BY <2>2, <2>3, <2>4, <2>6, <2>7, <2>8 DEF IInv, Dialogue
<1>8. Connections'
  BY <1>1, <1>4, TwoSides DEF IInv, Connections, PastConnect
<1>9. EndsOpen'
  BY <1>1, <1>3, <1>4, TwoSides DEF IInv, EndsOpen
<1> QED
  BY <1>5, <1>7, <1>8, <1>9 DEF IInv

LEMMA DeliverIInv == ASSUME IInv, NEW s \in Sides, Step(Deliver(s)) PROVE IInv'
<1>1. /\ Deliver(s) /\ faults' = faults /\ Streams /\ "client" \in Sides /\ "server" \in Sides
      /\ k["client"] \in Queues /\ k["server"] \in Queues
  BY TwoSides DEF Step, IInv, Streams
<1>2. /\ UNCHANGED <<pc, k, got, dest, open>>
      /\ \A t \in Sides : t # s => sent'[t] = sent[t] /\ buf'[t] = buf[t]
      /\ sent[s] # <<>>
      /\ sent' \in [Sides -> Seq(Seq(Bytes))] /\ buf' \in [Sides -> Seq(Bytes)]
      /\ \A m \in Seq(Bytes) : Coming(s, m) => sent'[s] = <<>> /\ buf'[s] = m
      /\ s = "server" => \A q \in Queues : DoneAndAddr(q) =>
           DoneAndAddr(q)' /\ Len(buf'[s]) <= AddrLen + DoneLen
  BY <1>1, DeliverFacts DEF procVars
<1>3. Connections' /\ EndsOpen'
  BY <1>2 DEF IInv, Connections, EndsOpen
<1>4. /\ \A q \in Queues : Coming(s, Addr(q)) =>
           sent'[s] = <<>> /\ buf'[s] = Addr(q) /\ Len(buf'[s]) <= AddrLen + DoneLen
      /\ Coming(s, DoneMsg) =>
           sent'[s] = <<>> /\ buf'[s] = DoneMsg /\ Len(buf'[s]) <= AddrLen + DoneLen
  BY <1>2, Messages, TwoSides
<1>5. ASSUME Len(buf'[s]) <= AddrLen + DoneLen PROVE Streams'
  <2>1. \A t \in Sides : Len(buf'[t]) <= AddrLen + DoneLen
    BY <1>1, <1>2, <1>5 DEF Streams
  <2> QED
    BY <1>1, <1>2, <2>1 DEF Streams
<1>6. CASE s = "client"
  <2>1. /\ pc["client"] = "readAddr" /\ ServerIs({"readDone"}) /\ SameTurn
        /\ Coming("client", Addr(k["client"])) /\ Silent("server")
    BY <1>2, <1>6
       DEF IInv, Dialogue, WhileWriteAddr, WhileReadAddr, WhileWriteDone, WhileConnect, LastWord,
           WhileOver, WhileFailed, Silent
  <2>2. /\ sent'["client"] = <<>> /\ buf'["client"] = Addr(k["client"])
        /\ Len(buf'["client"]) <= AddrLen + DoneLen
    BY <1>1, <1>4, <1>6, <2>1
  <2>3. Dialogue'
    BY <1>2, <1>6, <2>1, <2>2, TwoSides
       DEF Dialogue, WhileReadAddr, ServerIs, SameTurn, Silent, Coming
  <2> QED
    BY <1>3, <1>5, <1>6, <2>2, <2>3 DEF IInv
<1>7. CASE s = "server"
  <2>1. Silent("client")' <=> Silent("client")
    BY <1>1, <1>2, <1>7 DEF Silent
  <2>2. \/ /\ Coming("server", DoneMsg)
           /\ \/ pc["client"] = "writeAddr" /\ WhileWriteAddr
              \/ pc["client"] = "connect" /\ WhileConnect
              \/ pc["client"] = "failed" /\ "client" \in faults /\ LastWord
              \/ pc["client"] \in {"close", "done"} /\ WhileOver
        \/ /\ pc["client"] = "readAddr" /\ DoneAndAddr(k["client"])
           /\ ServerIs({"readDone"}) /\ k["client"] = k["server"] + 1 /\ Silent("client")
        \/ /\ pc["client"] = "readAddr" /\ ServerIs({"readAddr"}) /\ SameTurn
           /\ Silent("client") /\ Coming("server", Addr(k["server"]))
    BY <1>2, <1>7
       DEF IInv, Dialogue, WhileWriteAddr, WhileReadAddr, WhileWriteDone, WhileConnect, LastWord,
           WhileOver, WhileFailed, Silent, Cut
  <2>3. CASE /\ Coming("server", DoneMsg)
             /\ \/ pc["client"] = "writeAddr" /\ WhileWriteAddr
                \/ pc["client"] = "connect" /\ WhileConnect
                \/ pc["client"] = "failed" /\ "client" \in faults /\ LastWord
                \/ pc["client"] \in {"close", "done"} /\ WhileOver
    <3>1. Coming("server", DoneMsg)' /\ Len(buf'[s]) <= AddrLen + DoneLen
      BY <1>4, <1>7, <2>3 DEF Coming
    <3>2. ~Silent("server")
      BY <1>2, <1>7 DEF Silent
    <3>3. pc["client"] = "writeAddr" => WhileWriteAddr'
      BY <1>2, <2>1, <2>3, <3>1, <3>2 DEF WhileWriteAddr, ServerIs, SameTurn
    <3>4. LastWord => LastWord'
      BY <1>2, <2>1, <3>1, <3>2 DEF LastWord, ServerIs, SameTurn
    <3>5. pc["client"] = "connect" => WhileConnect'
      BY <1>2, <2>3, <3>4 DEF WhileConnect
    <3>6. pc["client"] \in {"close", "done"} => WhileOver'
      BY <1>2, <2>1, <2>3, <3>1, <3>2 DEF WhileOver, ServerIs, SameTurn
    <3>7. pc["client"] = "failed" => WhileFailed'
      BY <1>1, <1>2, <2>3, <3>4 DEF WhileFailed
    <3>8. Dialogue'
      BY <1>2, <2>3, <3>3, <3>5, <3>6, <3>7 DEF Dialogue
    <3> QED
      BY <1>3, <1>5, <3>1, <3>8 DEF IInv
  <2>4. CASE /\ pc["client"] = "readAddr" /\ DoneAndAddr(k["client"])
             /\ ServerIs({"readDone"}) /\ k["client"] = k["server"] + 1 /\ Silent("client")
    <3>1. \A q \in Queues : q = k["client"] =>
            DoneAndAddr(q)' /\ Len(buf'[s]) <= AddrLen + DoneLen
      BY <1>2, <1>7, <2>4
    <3>2. k'["client"] \in Queues /\ k'["client"] = k["client"]
      BY <1>1, <1>2
    <3>3. DoneAndAddr(k["client"])' /\ Len(buf'[s]) <= AddrLen + DoneLen
      BY <3>1, <3>2
    <3>4. Dialogue'
      BY <1>2, <2>1, <2>4, <3>3 DEF Dialogue, WhileReadAddr, ServerIs
    <3> QED
      BY <1>3, <1>5, <3>3, <3>4 DEF IInv
  <2>5. CASE /\ pc["client"] = "readAddr" /\ ServerIs({"readAddr"}) /\ SameTurn
             /\ Silent("client") /\ Coming("server", Addr(k["server"]))
    <3>1. /\ sent'["server"] = <<>> /\ buf'["server"] = Addr(k["server"])
          /\ Len(buf'[s]) <= AddrLen + DoneLen
      BY <1>1, <1>4, <1>7, <2>5
    <3>2. Dialogue'
      BY <1>2, <2>1, <2>5, <3>1 DEF Dialogue, WhileReadAddr, ServerIs, SameTurn, Coming
    <3> QED
      BY <1>3, <1>5, <3>1, <3>2 DEF IInv
  <2> QED
    BY <2>2, <2>3, <2>4, <2>5
<1> QED
  BY <1>6, <1>7, TwoSides

LEMMA StutterIInv == ASSUME IInv, UNCHANGED vars PROVE IInv'
<1>1. UNCHANGED <<pc, k, got, dest, sent, buf, open, faults>>
  BY DEF vars, procVars, tcpVars
<1>2. Streams' /\ Connections' /\ EndsOpen'
  BY <1>1 DEF IInv, Streams, Connections, EndsOpen
<1>3. Dialogue'
  BY <1>1
     DEF IInv, Dialogue, WhileWriteAddr, WhileReadAddr, WhileWriteDone, WhileConnect, LastWord,
         WhileOver, WhileFailed, Silent, Coming, DoneAndAddr, Cut, ServerIs, SameTurn
<1> QED
  BY <1>2, <1>3 DEF IInv

LEMMA StepIInv == IInv /\ [Next]_vars => IInv'
<1> SUFFICES ASSUME IInv, [Next]_vars PROVE IInv'
  OBVIOUS
<1>1. CASE Step(Client)
  <2>1. \/ Step(ClientWriteAddr) \/ Step(ClientReadAddr)
        \/ Step(ClientWriteDone) \/ Step(ClientConnect)
    BY <1>1 DEF Step, Client
  <2> QED
    BY <2>1, ClientWriteAddrIInv, ClientReadAddrIInv, ClientWriteDoneIInv, ClientConnectIInv
<1>2. CASE Step(Server)
  <2>1. \/ Step(ServerReadAddr) \/ Step(ServerConnect)
        \/ Step(ServerWriteAddr) \/ Step(ServerReadDone)
    BY <1>2 DEF Step, Server
  <2> QED
    BY <2>1, ServerReadAddrIInv, ServerConnectIInv, ServerWriteAddrIInv, ServerReadDoneIInv
<1>3. ASSUME NEW s \in Sides, Step(ConnectFailed(s)) \/ Step(Close(s)) \/ Step(Deliver(s))
      PROVE  IInv'
  BY <1>3, ConnectFailedIInv, CloseIInv, DeliverIInv
<1>4. CASE Finished \/ UNCHANGED vars
  BY <1>4, StutterIInv DEF Finished
<1> QED
  BY <1>1, <1>2, <1>3, <1>4 DEF Next

(* The invariant of the exchange: for each call of the client, where the   *)
(* server is and what is under way on the connection (lines 180 to 363).   *)
THEOREM Invariance == Spec => []IInv
<1>1. Init => IInv
  BY InitIInv
<1>2. IInv /\ [Next]_vars => IInv'
  BY StepIInv
<1> QED
  BY <1>1, <1>2, PTL DEF Spec

-----------------------------------------------------------------------------
(* What the exchange guarantees.                                           *)

(* How far the sides are apart, at each call of the client.                *)
LEMMA Distance ==
  ASSUME IInv
  PROVE  /\ k["client"] \in 1..N /\ k["server"] \in 1..N /\ N \in Nat
         /\ \/ SameTurn
            \/ k["client"] = k["server"] + 1 /\ pc["server"] = "readDone"
            \/ k["server"] = k["client"] + 1 /\ pc["client"] = "connect"
            \/ k["server"] = k["client"] + 1 /\ pc["client"] = "failed" /\ "client" \in faults
<1>1. k["client"] \in 1..N /\ k["server"] \in 1..N /\ N \in Nat
  BY TwoSides DEF IInv, Streams, Queues
<1>2. pc["client"] = "writeAddr" =>
        SameTurn \/ (k["client"] = k["server"] + 1 /\ pc["server"] = "readDone")
  BY DEF IInv, Dialogue, WhileWriteAddr, ServerIs
<1>3. pc["client"] = "readAddr" =>
        SameTurn \/ (k["client"] = k["server"] + 1 /\ pc["server"] = "readDone")
  BY DEF IInv, Dialogue, WhileReadAddr, ServerIs
<1>4. LastWord => SameTurn \/ k["server"] = k["client"] + 1
  BY DEF LastWord
<1>5. pc["client"] \in {"writeDone", "close", "done"} => SameTurn
  BY DEF IInv, Dialogue, WhileWriteDone, WhileOver
<1>6. pc["client"] = "connect" => SameTurn \/ k["server"] = k["client"] + 1
  BY <1>4 DEF IInv, Dialogue, WhileConnect
<1>7. pc["client"] = "failed" =>
        SameTurn \/ (k["server"] = k["client"] + 1 /\ "client" \in faults)
  BY <1>4 DEF IInv, Dialogue, WhileFailed
<1> QED
  BY <1>1, <1>2, <1>3, <1>5, <1>6, <1>7 DEF IInv, Dialogue

(* Every variable holds a value the code can store in it, and at most the  *)
(* word "done" and one address are under way to a side (lines 180 to 363). *)
THEOREM TypeCorrect == Spec => []TypeOK
<1>1. ASSUME IInv PROVE TypeOK
  <2>1. \A m : Len(<<m>>) = 1
    OBVIOUS
  <2>2. \A l, m : Len(<<l, m>>) = 2
    OBVIOUS
  <2>3. Len(<<>>) = 0
    OBVIOUS
  <2>4. \A s \in Sides : \A m : Coming(s, m) => Len(sent[s]) <= 2
    BY <2>1, <2>3 DEF Coming
  <2>5. \A s \in Sides : Silent(s) => Len(sent[s]) <= 2
    BY <2>3 DEF Silent
  <2>6. \A q : DoneAndAddr(q) => Len(sent["server"]) <= 2
    <3> SUFFICES ASSUME NEW q, DoneAndAddr(q) PROVE Len(sent["server"]) <= 2
      OBVIOUS
    <3>1. CASE sent["server"] = <<DoneMsg, Addr(q)>>
      BY <2>2, <3>1
    <3>2. CASE sent["server"] = <<Addr(q)>>
      BY <2>1, <3>2
    <3>3. CASE sent["server"] = <<>>
      BY <2>3, <3>3
    <3> QED
      BY <3>1, <3>2, <3>3 DEF DoneAndAddr
  <2>7. sent["server"] = <<>> => Len(sent["server"]) <= 2
    BY <2>3
  <2>8. LastWord => Len(sent["client"]) <= 2 /\ Len(sent["server"]) <= 2
    BY <2>4, <2>5, TwoSides DEF LastWord
  <2>9. Len(sent["client"]) <= 2 /\ Len(sent["server"]) <= 2
    <3>1. pc["client"] = "readAddr" => Len(sent["client"]) <= 2 /\ Len(sent["server"]) <= 2
      BY <1>1, <2>4, <2>5, <2>6, <2>7, TwoSides DEF IInv, Dialogue, WhileReadAddr, Cut
    <3>2. pc["client"] = "writeAddr" => Len(sent["client"]) <= 2 /\ Len(sent["server"]) <= 2
      BY <1>1, <2>4, <2>5, TwoSides DEF IInv, Dialogue, WhileWriteAddr
    <3>3. pc["client"] \in {"writeDone", "close", "done"} =>
            Len(sent["client"]) <= 2 /\ Len(sent["server"]) <= 2
      BY <1>1, <2>4, <2>5, TwoSides DEF IInv, Dialogue, WhileWriteDone, WhileOver
    <3>4. pc["client"] \in {"connect", "failed"} =>
            Len(sent["client"]) <= 2 /\ Len(sent["server"]) <= 2
      BY <1>1, <2>5, <2>7, <2>8, TwoSides DEF IInv, Dialogue, WhileConnect, WhileFailed
    <3> QED
      BY <1>1, <3>1, <3>2, <3>3, <3>4 DEF IInv, Dialogue
  <2> QED
    BY <1>1, <2>9, TwoSides DEF IInv, Streams, TypeOK
<1> QED
  BY <1>1, Invariance, PTL

(* However the stream is cut into reads and whatever fails, a queue pair   *)
(* is connected to the peer's of the same number or not at all (lines 216, *)
(* 319 and 353).                                                           *)
THEOREM PairedRight == Spec => []Pairing
<1>1. IInv => Pairing
  BY DEF IInv, Connections, Pairing
<1> QED
  BY <1>1, Invariance, PTL

LEMMA ServerIsFirst == IInv => ServerFirst
<1> SUFFICES ASSUME IInv, NEW q \in Queues, dest["client"][q] # 0 PROVE dest["server"][q] # 0
  BY DEF ServerFirst
<1>1. q \in Nat /\ q # 0
  BY TwoSides DEF Queues
<1>2. /\ k["client"] \in 1..N /\ k["server"] \in 1..N /\ N \in Nat
      /\ \/ SameTurn
         \/ k["client"] = k["server"] + 1 /\ pc["server"] = "readDone"
         \/ k["server"] = k["client"] + 1
  BY Distance
<1>3. q < k["client"] \/ (q = k["client"] /\ pc["client"] \in {"close", "done"})
  BY TwoSides DEF IInv, Connections, PastConnect
<1>4. q < k["server"] \/ (q = k["server"] /\ pc["server"] \in PastConnect("server"))
  <2>1. CASE SameTurn
    <3>1. pc["client"] \in {"close", "done"} => pc["server"] \in PastConnect("server")
      BY DEF IInv, Dialogue, WhileOver, ServerIs, PastConnect
    <3> QED
      BY <1>3, <2>1, <3>1 DEF SameTurn
  <2>2. CASE k["client"] = k["server"] + 1 /\ pc["server"] = "readDone"
    <3>1. pc["client"] \notin {"close", "done"}
      BY <1>2, <2>2 DEF IInv, Dialogue, WhileOver, SameTurn
    <3> QED
      BY <1>1, <1>2, <1>3, <2>2, <3>1 DEF PastConnect
  <2>3. CASE k["server"] = k["client"] + 1
    BY <1>1, <1>2, <1>3, <2>3
  <2> QED
    BY <1>2, <2>1, <2>2, <2>3
<1>5. dest["server"][q] = q
  BY <1>4, TwoSides DEF IInv, Connections
<1> QED
  BY <1>1, <1>5

(* Whatever fails, the client connects a queue pair only after the server  *)
(* has connected its own: the peer of the first send can receive (lines    *)
(* 336 and 345).                                                           *)
THEOREM ServerConnectsFirst == Spec => []ServerFirst
<1> QED
  BY ServerIsFirst, Invariance, PTL

(* In every execution in which no queue pair of the client is refused,     *)
(* both sides have matched their queue pairs right and both say so, or     *)
(* neither (lines 203 to 224 and 318 to 358).                              *)
THEOREM SidesAgree == Spec => []("client" \notin faults => Agreement)
<1>1. ASSUME IInv, "client" \notin faults PROVE SameOutcome
  <2>1. ASSUME NEW s \in Sides, k[s] = N, pc[s] = "done"
        PROVE  \A q \in Queues : dest[s][q] = q
    <3>1. \A q \in Queues : q < N \/ q = N
      BY TwoSides DEF Queues
    <3>2. "done" \in PastConnect(s)
      BY DEF PastConnect
    <3> QED
      BY <1>1, <2>1, <3>1, <3>2 DEF IInv, Connections
  <2>2. CASE pc["client"] = "done"
    <3>1. k["client"] = N /\ k["server"] = N /\ pc["server"] # "failed"
      BY <1>1, <2>2 DEF IInv, Dialogue, WhileOver, ServerIs, SameTurn
    <3> QED
      BY <2>1, <2>2, <3>1, TwoSides DEF SameOutcome
  <2>3. CASE pc["server"] = "done" /\ pc["client"] # "done"
    <3>1. k["server"] = N /\ pc["client"] # "failed"
      BY <1>1, <2>3
         DEF IInv, Dialogue, WhileWriteAddr, WhileReadAddr, WhileWriteDone, WhileConnect,
             LastWord, WhileOver, WhileFailed, ServerIs, SameTurn
    <3> QED
      BY <2>1, <2>3, <3>1, TwoSides DEF SameOutcome
  <2>4. CASE pc["server"] # "done" /\ pc["client"] # "done"
    BY <2>4, TwoSides DEF SameOutcome
  <2> QED
    BY <2>2, <2>3, <2>4
<1>2. IInv => Pairing
  BY DEF IInv, Connections, Pairing
<1>3. IInv => ("client" \notin faults => Agreement)
  BY <1>1, <1>2 DEF Agreement
<1> QED
  BY <1>3, Invariance, PTL

(* In every execution in which no queue pair of the client is refused, the *)
(* sides are at most one turn apart, the server is ahead only of a client  *)
(* that is connecting the queue pair of its turn, and it has connected     *)
(* first (lines 203 to 224 and 318 to 358).                                *)
THEOREM TurnsInStep == Spec => []("client" \notin faults => InTurn)
<1>1. ASSUME IInv, "client" \notin faults PROVE Lockstep
  <2>1. /\ k["client"] \in 1..N /\ k["server"] \in 1..N /\ N \in Nat
        /\ \/ SameTurn
           \/ k["client"] = k["server"] + 1
           \/ k["server"] = k["client"] + 1 /\ pc["client"] = "connect"
    BY <1>1, Distance
  <2>2. k["client"] \in Int /\ k["server"] \in Int
    BY <2>1
  <2>3. CASE SameTurn
    BY <2>2, <2>3 DEF SameTurn, Lockstep
  <2>4. CASE k["client"] = k["server"] + 1
    BY <2>2, <2>4 DEF Lockstep
  <2>5. CASE k["server"] = k["client"] + 1 /\ pc["client"] = "connect"
    BY <2>2, <2>5 DEF Lockstep
  <2> QED
    BY <2>1, <2>3, <2>4, <2>5
<1>2. IInv => ("client" \notin faults => InTurn)
  BY <1>1, ServerIsFirst DEF InTurn
<1> QED
  BY <1>2, Invariance, PTL
=============================================================================
