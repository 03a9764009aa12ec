---------------------------- MODULE AddrExchange ----------------------------
(***************************************************************************)
(* The exchange of queue pair addresses of multistreamTestRunner.c: the    *)
(* loop of runPingPong that calls pp_client_exch_dest or                   *)
(* pp_server_exch_dest for one queue pair after the other, on one TCP      *)
(* connection, up to the close of that connection.                         *)
(*                                                                         *)
(* A byte stream has no message boundaries: what the client wrote in two   *)
(* calls of write may come out of one call of read.  An address (52 bytes  *)
(* in the code) and the word "done" (5 bytes) are sequences of AddrLen and *)
(* DoneLen units; a single write is far below the size of a TCP segment    *)
(* and travels as a whole.                                                 *)
(***************************************************************************)
EXTENDS Integers, Sequences

CONSTANTS
  N,            (* peerNum, the number of queue pairs                       *)
  AddrLen,      (* sizeof msg                                               *)
  DoneLen,      (* sizeof "done"                                            *)
  Faults        (* what may happen in an execution, see faults              *)

ASSUME NAssumption       == N \in Nat \ {0}
ASSUME LengthsAssumption == AddrLen \in Nat /\ DoneLen \in 1..(AddrLen - 1)
ASSUME FaultsAssumption  == Faults \subseteq {"client", "server", "coalescing"}

VARIABLES
  pc,      (* the next call of each side                                    *)
  k,       (* the queue pair each side is at                                *)
  got,     (* the queue pair named by the address each side has read last   *)
  dest,    (* per side and queue pair: the remote queue pair it is          *)
           (* connected to (state RTS), or 0                                *)
  sent,    (* per reader: writes that have not arrived, oldest first        *)
  buf,     (* per reader: the bytes that have arrived and are unread        *)
  open,    (* per side: its end of the connection is open                   *)
  faults   (* what may happen in this execution: a side in it may have a    *)
           (* queue pair that ibv_modify_qp refuses; with "coalescing" a    *)
           (* write may arrive before the previous one is read              *)

procVars == <<k, got, dest>>
tcpVars  == <<sent, buf, open>>
vars     == <<pc, procVars, tcpVars, faults>>

Sides   == {"client", "server"}
Peer(s) == IF s = "client" THEN "server" ELSE "client"
Queues  == 1..N
Garbage == N + 1

Addr(q)  == [i \in 1..AddrLen |-> <<q, i>>]
DoneMsg  == [i \in 1..DoneLen |-> <<0, i>>]

(* sscanf: the queue pair an address names, if it is one address.          *)
Parse(msg) == IF \E q \in Queues : msg = Addr(q)
                THEN CHOOSE q \in Queues : msg = Addr(q)
                ELSE Garbage

Init ==
  /\ pc = [s \in Sides |-> IF s = "client" THEN "writeAddr" ELSE "readAddr"]
  /\ k = [s \in Sides |-> 1]
  /\ got = [s \in Sides |-> 0]
  /\ dest = [s \in Sides |-> [q \in Queues |-> 0]]
  /\ sent = [s \in Sides |-> <<>>]
  /\ buf = [s \in Sides |-> <<>>]
  /\ open = [s \in Sides |-> TRUE]
  /\ faults \in SUBSET Faults

-----------------------------------------------------------------------------
(* The socket calls.                                                       *)

Write(s, msg) ==
  /\ sent' = [sent EXCEPT ![Peer(s)] = Append(@, msg)]
  /\ UNCHANGED <<buf, open>>

(* read(connfd, msg, sizeof msg) returns what is there, up to AddrLen      *)
(* bytes, and blocks while nothing is and the peer is there.               *)
Readable(s) == buf[s] # <<>> \/ (sent[s] = <<>> /\ ~open[Peer(s)])
Taken(s)    == SubSeq(buf[s], 1, IF Len(buf[s]) < AddrLen THEN Len(buf[s]) ELSE AddrLen)
Read(s) ==
  /\ Readable(s)
  /\ buf' = [buf EXCEPT ![s] = SubSeq(@, Len(Taken(s)) + 1, Len(@))]
  /\ UNCHANGED <<sent, open>>

(* Mutant: the connection stays open.                                      *)
FailMutant(s) == /\ pc' = [pc EXCEPT ![s] = "failed"]
                 /\ UNCHANGED <<procVars, tcpVars>>

(* On a failure the worker returns 1 as a pointer, main dereferences it,   *)
(* the process dies and the kernel closes the connection.                  *)
Fail(s) == /\ pc' = [pc EXCEPT ![s] = "failed"]
           /\ open' = [open EXCEPT ![s] = FALSE]
           /\ UNCHANGED <<procVars, sent, buf>>

Goto(s, label) == pc' = [pc EXCEPT ![s] = label]

(* The end of the body of the loop over the queue pairs; after the last    *)
(* one the connection is closed.                                           *)
First(s) == IF s = "client" THEN "writeAddr" ELSE "readAddr"
NextQueue(s) ==
  IF k[s] < N
    THEN /\ k' = [k EXCEPT ![s] = @ + 1]
         /\ Goto(s, First(s))
    ELSE /\ Goto(s, "close")
         /\ UNCHANGED k

-----------------------------------------------------------------------------
(* Both sides.                                                             *)

(* Mutant: the length of what was read is not tested.                      *)
ReadAddrMutant(s, label) ==
  /\ pc[s] = "readAddr"
  /\ Read(s)
  /\ got' = [got EXCEPT ![s] = Parse(Taken(s))]
  /\ Goto(s, label)
  /\ UNCHANGED <<k, dest>>

(* The address of the peer is read; anything but a whole one is an error.  *)
ReadAddr(s, label) ==
  /\ pc[s] = "readAddr"
  /\ Readable(s)
  /\ IF Len(Taken(s)) = AddrLen
       THEN /\ Read(s)
            /\ got' = [got EXCEPT ![s] = Parse(Taken(s))]
            /\ Goto(s, label)
            /\ UNCHANGED <<k, dest>>
       ELSE Fail(s)

(* pp_connect_ctx_per_qp: the queue pair of the turn goes to RTR and RTS.  *)
Connected(s) == dest' = [dest EXCEPT ![s][k[s]] = got[s]]

ConnectFailed(s) ==
  /\ pc[s] = "connect" /\ s \in faults
  /\ Fail(s)

Close(s) ==
  /\ pc[s] = "close"
  /\ open' = [open EXCEPT ![s] = FALSE]
  /\ Goto(s, "done")
  /\ UNCHANGED <<procVars, sent, buf>>

-----------------------------------------------------------------------------
(* The client: write, read, write "done", connect.                         *)

ClientWriteAddr ==
  /\ pc["client"] = "writeAddr"
  /\ Write("client", Addr(k["client"]))
  /\ Goto("client", "readAddr")
  /\ UNCHANGED procVars

ClientReadAddr == ReadAddr("client", "writeDone")

ClientWriteDone ==
  /\ pc["client"] = "writeDone"
  /\ Write("client", DoneMsg)
  /\ Goto("client", "connect")
  /\ UNCHANGED procVars

ClientConnect ==
  /\ pc["client"] = "connect"
  /\ Connected("client")
  /\ NextQueue("client")
  /\ UNCHANGED <<got, tcpVars>>

(* The server: read, connect, write, read the word "done".                 *)

(* Mutant: the server answers before it has connected its queue pair.      *)
ServerReadAddrMutant ==
  /\ pc["server"] = "readAddr"
  /\ Len(Taken("server")) = AddrLen
  /\ Readable("server")
  /\ buf' = [buf EXCEPT !["server"] = SubSeq(@, AddrLen + 1, Len(@))]
  /\ sent' = [sent EXCEPT !["client"] = Append(@, Addr(k["server"]))]
  /\ got' = [got EXCEPT !["server"] = Parse(Taken("server"))]
  /\ Goto("server", "connect")
  /\ UNCHANGED <<k, dest, open>>

ServerReadAddr == ReadAddr("server", "connect")

ServerConnect ==
  /\ pc["server"] = "connect"
  /\ Connected("server")
  /\ Goto("server", "writeAddr")
  /\ UNCHANGED <<k, got, tcpVars>>

ServerWriteAddr ==
  /\ pc["server"] = "writeAddr"
  /\ Write("server", Addr(k["server"]))
  /\ Goto("server", "readDone")
  /\ UNCHANGED procVars

(* Mutant: the server does not wait for the word "done".                   *)
ServerReadDoneMutant ==
  /\ pc["server"] = "readDone"
  /\ NextQueue("server")
  /\ UNCHANGED <<got, dest, tcpVars>>

(* The result of this read is not looked at: it asks for sizeof msg bytes, *)
(* the word "done" is shorter, and the next address may follow it.         *)
ServerReadDone ==
  /\ pc["server"] = "readDone"
  /\ Read("server")
  /\ NextQueue("server")
  /\ UNCHANGED <<got, dest>>

-----------------------------------------------------------------------------
(* The network delivers one write.                                         *)
Deliver(s) ==
  /\ sent[s] # <<>>
  /\ "coalescing" \in faults \/ buf[s] = <<>>
  /\ buf' = [buf EXCEPT ![s] = @ \o Head(sent[s])]
  /\ sent' = [sent EXCEPT ![s] = Tail(@)]
  /\ UNCHANGED <<pc, procVars, open>>

Ended(s) == pc[s] \in {"done", "failed"}
Finished ==
  /\ \A s \in Sides : Ended(s)
  /\ UNCHANGED vars

Client == ClientWriteAddr \/ ClientReadAddr \/ ClientWriteDone \/ ClientConnect
Server == ServerReadAddr \/ ServerConnect \/ ServerWriteAddr \/ ServerReadDone
Step(action) == action /\ UNCHANGED faults
Next ==
  \/ Step(Client)
  \/ Step(Server)
  \/ \E s \in Sides : Step(ConnectFailed(s)) \/ Step(Close(s)) \/ Step(Deliver(s))
  \/ Finished

Spec == Init /\ [][Next]_vars

(* Both processes run, and TCP delivers.                                   *)
FairSpec == /\ Spec
            /\ WF_vars(Step(Client \/ Close("client")))
            /\ WF_vars(Step(Server \/ Close("server")))
            /\ \A s \in Sides : WF_vars(Step(Deliver(s)))
-----------------------------------------------------------------------------
(* What the exchange is to guarantee.                                      *)

Bytes == {<<q, i>> : q \in Queues, i \in 1..AddrLen} \cup {<<0, i>> : i \in 1..DoneLen}

(* Every variable holds a value the code can store in it; at most the word *)
(* "done" and one address are under way to the server.                     *)
TypeOK ==
  /\ pc \in [Sides -> {"writeAddr", "readAddr", "writeDone", "connect", "readDone",
                       "close", "done", "failed"}]
  /\ k \in [Sides -> Queues]
  /\ got \in [Sides -> 0..Garbage]
  /\ dest \in [Sides -> [Queues -> 0..Garbage]]
  /\ \A s \in Sides : /\ buf[s] \in Seq(Bytes) /\ Len(buf[s]) <= AddrLen + DoneLen
                      /\ Len(sent[s]) <= 2
  /\ open \in [Sides -> BOOLEAN]
  /\ faults \subseteq Faults

(* However the stream is cut into reads, a queue pair is connected to the  *)
(* peer's queue pair of the same number or not at all: an address that was *)
(* swallowed in part together with "done" (line 353) is noticed by its     *)
(* length (line 319) and never taken for another address.                  *)
Pairing == \A s \in Sides, q \in Queues : dest[s][q] \in {0, q}

(* The two sides do not disagree about the exchange: no side goes on to    *)
(* the measurement when the other has given up.  (A client whose own queue *)
(* pair cannot be connected has said "done" already and is not meant.)     *)
SameOutcome ==
  \A s \in Sides : pc[s] = "done" =>
    pc[Peer(s)] # "failed" /\ \A q \in Queues : dest[s][q] = q

(* Both: queue pairs are matched right, and both sides say so or neither   *)
(* (lines 203 to 224 and 318 to 358).                                      *)
Agreement == Pairing /\ SameOutcome

(* The client connects a queue pair only after the server has connected    *)
(* its own (line 336 precedes the answer of line 345): when the client     *)
(* posts the first send, the peer is ready to receive.                     *)
ServerFirst ==
  \A q \in Queues : dest["client"][q] # 0 => dest["server"][q] # 0

(* The sides are never more than one turn apart, and the server is not     *)
(* ahead unless the "done" it has passed is all it is owed.                *)
Lockstep ==
  /\ k["client"] - k["server"] \in {-1, 0, 1}
  /\ k["server"] > k["client"] => pc["client"] = "connect"

(* Both hold, however the stream is cut into reads (lines 203 to 224 and   *)
(* 318 to 358).                                                            *)
InTurn == ServerFirst /\ Lockstep

(* Whatever happens, nobody waits for ever: each side completes or fails.  *)
Ends == <>[](\A s \in Sides : Ended(s))

(* The exchange completes.                                                 *)
Completes == <>[](\A s \in Sides : pc[s] = "done")

(* It does when every queue pair connects and every write is read before   *)
(* the next one arrives: the read of line 353 is all that stands in the    *)
(* way.                                                                    *)
CompletesPaced == faults = {} => Completes

(* The exchange always comes to an end, and to the right one if paced.     *)
EndsRight == Ends /\ CompletesPaced
=============================================================================
