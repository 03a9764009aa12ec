---------------------------- MODULE SelectServer ----------------------------
(***************************************************************************)
(* The single-threaded echo server NonBlockingTcpServer.cpp under          *)
(* processes of its client MultiStreamTcpClient.cpp.  The server waits in  *)
(* select, accepts at most one connection per turn into the first free     *)
(* slot, and reads once from every slot select has reported.  A client     *)
(* warms up with short connections, then plays one round for every message *)
(* size and number of sockets: it connects the sockets one after the       *)
(* other, sends each its share and waits for the echo, and closes them all.*)
(*                                                                         *)
(* A client may be killed, and the server, which never ends by itself, may *)
(* be stopped.                                                             *)
(*                                                                         *)
(* Bytes are counted, not looked at.  A write takes all bytes at once: how *)
(* writes wait for buffers is module EchoFlow.                             *)
(***************************************************************************)
EXTENDS Integers, Sequences, FiniteSets, SequencesExt, FiniteSetsExt

CONSTANTS
  Procs,      (* the processes of the client                                *)
  Slots,      (* MAX_CLIENTS of the server                                  *)
  Sockets,    (* MAX_CLIENTS of the client                                  *)
  MinSize,    (* MIN_MSG_SIZE                                               *)
  Doublings,  (* how often the message size is doubled from there on        *)
  Messages,   (* messages per socket                                        *)
  WarmUps,    (* connections of warmUpServer                                *)
  MaxPacket,  (* MAX_PACKET_SIZE, what one read of the server takes at most *)
  Faults      (* what may happen: "kill" a client, "stop" the server        *)

ASSUME SizesAssumption ==
  /\ {Slots, Sockets, MinSize, Messages, MaxPacket} \subseteq Nat \ {0}
  /\ {Doublings, WarmUps} \subseteq Nat

ASSUME FaultsAssumption == Faults \subseteq {"kill", "stop"}

VARIABLES
  cpc,        (* where each client is                                       *)
  round,      (* its round, the warm-ups included                           *)
  sock,       (* the socket it works on                                     *)
  msg,        (* messages answered on that socket                           *)
  bytesRead,  (* bytes of the answer read so far                            *)
  copen,      (* connections the clients have open                          *)
  backlog,    (* connections not yet accepted                               *)
  up, down,   (* bytes under way on each connection                         *)
  reset,      (* connections whose other end is gone and has said so with a *)
              (* reset                                                      *)
  spc,        (* where the server is                                        *)
  clients,    (* its slots                                                  *)
  fds,        (* what select has reported                                   *)
  i           (* the slot it looks at                                       *)

clientVars == <<cpc, round, sock, msg, bytesRead>>
connVars   == <<copen, backlog, up, down, reset>>
serverVars == <<spc, clients, fds, i>>
vars       == <<clientVars, connVars, serverVars>>

-----------------------------------------------------------------------------
(* The schedule of a client.                                               *)

Rounds == WarmUps + (Doublings + 1) * Sockets

IsWarmUp(r)  == r <= WarmUps
Size(r)      == IF IsWarmUp(r) THEN 1 ELSE MinSize * 2 ^ ((r - WarmUps - 1) \div Sockets)
SocketNum(r) == IF IsWarmUp(r) THEN 1 ELSE ((r - WarmUps - 1) % Sockets) + 1
MsgNum(r)    == IF IsWarmUp(r) THEN 1 ELSE Messages

(* msgSizes: with fewer bytes than sockets the first socket sends all of   *)
(* them and every other a byte of its own.                                 *)
MsgSize(r, s) ==
  LET n == SocketNum(r)
  IN  IF Size(r) < n
        THEN IF s = 1 THEN Size(r) ELSE 1
        ELSE (Size(r) \div n) + (IF s = 1 THEN Size(r) % n ELSE 0)

Conns  == Procs \X (1..Rounds) \X (1..Sockets)
Empty  == <<>>
Lsd    == <<"lsd">>      (* the listening socket *)
Cur(p) == <<p, round[p], sock[p]>>

ServerUp == spc \notin {"failed", "stopped"}

Init ==
  /\ cpc = [p \in Procs |-> "connect"]
  /\ round = [p \in Procs |-> 1] /\ sock = [p \in Procs |-> 1]
  /\ msg = [p \in Procs |-> 0] /\ bytesRead = [p \in Procs |-> 0]
  /\ copen = {} /\ reset = {}
  /\ backlog = <<>>
  /\ up = [c \in Conns |-> 0] /\ down = [c \in Conns |-> 0]
  /\ spc = "select"
  /\ clients = [k \in 1..Slots |-> Empty]
  /\ fds = {}
  /\ i = 1

-----------------------------------------------------------------------------
(* The clients.                                                            *)

Goto(p, l) == cpc' = [cpc EXCEPT ![p] = l]

Connect(p) ==
  /\ cpc[p] = "connect" /\ ServerUp
  /\ copen' = copen \cup {Cur(p)}
  /\ backlog' = Append(backlog, Cur(p))
  /\ Goto(p, "send")
  /\ UNCHANGED <<round, sock, msg, bytesRead, up, down, reset, serverVars>>

NextSocket(p) ==
  IF sock[p] < SocketNum(round[p])
    THEN Goto(p, "connect") /\ sock' = [sock EXCEPT ![p] = @ + 1]
    ELSE Goto(p, "close") /\ sock' = [sock EXCEPT ![p] = 1]

(* connect returns NULL: every message of the socket is passed over.       *)
Refused(p) ==
  /\ cpc[p] = "connect" /\ ~ServerUp
  /\ NextSocket(p)
  /\ UNCHANGED <<round, msg, bytesRead, connVars, serverVars>>

(* What write returns is not looked at.                                    *)
Send(p) ==
  /\ cpc[p] = "send"
  /\ up' = IF ServerUp THEN [up EXCEPT ![Cur(p)] = @ + MsgSize(round[p], sock[p])] ELSE up
  /\ bytesRead' = [bytesRead EXCEPT ![p] = 0]
  /\ Goto(p, "receive")
  /\ UNCHANGED <<round, sock, msg, copen, backlog, down, reset, serverVars>>

(* Mutant: one message too many.                                           *)
NextMessageMutant(p) ==
  IF msg[p] < MsgNum(round[p])
    THEN msg' = [msg EXCEPT ![p] = @ + 1] /\ Goto(p, "send") /\ UNCHANGED sock
    ELSE msg' = [msg EXCEPT ![p] = 0] /\ NextSocket(p)

(* After the last message the next socket is connected, after the last     *)
(* socket all are closed.                                                  *)
NextMessage(p) ==
  IF msg[p] + 1 < MsgNum(round[p])
    THEN msg' = [msg EXCEPT ![p] = @ + 1] /\ Goto(p, "send") /\ UNCHANGED sock
    ELSE msg' = [msg EXCEPT ![p] = 0] /\ NextSocket(p)

(* Mutant: the answer is taken to arrive in one piece.                     *)
WantsMoreMutant(p, n) == n < 1

(* while (bytesRead < msgSizes[stream])                                    *)
WantsMore(p, n) == n < MsgSize(round[p], sock[p])

(* receive, once and then until the whole answer is there.                 *)
Receive(p) ==
  /\ cpc[p] = "receive" /\ down[Cur(p)] > 0
  /\ bytesRead' = [bytesRead EXCEPT ![p] = @ + down[Cur(p)]]
  /\ down' = [down EXCEPT ![Cur(p)] = 0]
  /\ IF WantsMore(p, bytesRead'[p])
       THEN UNCHANGED <<cpc, sock, msg>>
       ELSE NextMessage(p)
  /\ UNCHANGED <<round, copen, backlog, up, reset, serverVars>>

(* The server is gone.  A reset is returned once, as -1, and added; from   *)
(* then on receive returns 0, and the client goes round the loop for ever. *)
ReceiveFails(p) ==
  /\ cpc[p] = "receive" /\ down[Cur(p)] = 0 /\ ~ServerUp
  /\ ~IsWarmUp(round[p])
  /\ IF Cur(p) \in reset
       THEN bytesRead' = [bytesRead EXCEPT ![p] = @ - 1] /\ reset' = reset \ {Cur(p)}
       ELSE UNCHANGED <<bytesRead, reset>>
  /\ UNCHANGED <<cpc, round, sock, msg, copen, backlog, up, down, serverVars>>

(* A warm-up calls receive once, whatever it returns, and goes on to the   *)
(* next connection.                                                        *)
WarmUpFails(p) ==
  /\ cpc[p] = "receive" /\ down[Cur(p)] = 0 /\ ~ServerUp
  /\ IsWarmUp(round[p])
  /\ reset' = reset \ {Cur(p)}
  /\ NextMessage(p)
  /\ UNCHANGED <<round, bytesRead, copen, backlog, up, down, serverVars>>

(* The kernel closes an end of a client: with bytes left unread the other  *)
(* end is reset.                                                           *)
CloseEnds(cs) ==
  /\ copen' = copen \ cs
  /\ reset' = IF ServerUp THEN reset \cup {c \in cs : down[c] > 0} ELSE reset \ cs
  /\ down' = [c \in Conns |-> IF c \in cs THEN 0 ELSE down[c]]

(* delete streams[stream].                                                 *)
Close(p) ==
  /\ cpc[p] = "close"
  /\ CloseEnds({Cur(p)} \cap copen)
  /\ IF sock[p] < SocketNum(round[p])
       THEN sock' = [sock EXCEPT ![p] = @ + 1] /\ UNCHANGED <<cpc, round>>
       ELSE /\ sock' = [sock EXCEPT ![p] = 1]
            /\ IF round[p] < Rounds
                 THEN round' = [round EXCEPT ![p] = @ + 1] /\ Goto(p, "connect")
                 ELSE Goto(p, "done") /\ UNCHANGED round
  /\ UNCHANGED <<msg, bytesRead, backlog, up, serverVars>>

(* The process is killed, and its variables with it.                       *)
Kill(p) ==
  /\ "kill" \in Faults
  /\ cpc[p] \notin {"done", "killed"}
  /\ Goto(p, "killed")
  /\ round' = [round EXCEPT ![p] = 1] /\ sock' = [sock EXCEPT ![p] = 1]
  /\ msg' = [msg EXCEPT ![p] = 0] /\ bytesRead' = [bytesRead EXCEPT ![p] = 0]
  /\ CloseEnds({c \in copen : c[1] = p})
  /\ UNCHANGED <<backlog, up, serverVars>>

-----------------------------------------------------------------------------
(* The server.                                                             *)

Held == {clients[k] : k \in 1..Slots} \ {Empty}

(* A connection select reports, and from which a read returns at once: it  *)
(* has bytes, or its client has closed it.                                 *)
Readable(c) == IF c = Lsd THEN backlog # <<>> ELSE up[c] > 0 \/ c \notin copen

(* Mutant: without reinit the listening socket is not looked at as long as *)
(* there are connections.                                                  *)
SelectMutant ==
  /\ spc = "select"
  /\ fds' = {c \in (IF Held = {} THEN {Lsd} ELSE Held) : Readable(c)}
  /\ fds' # {}
  /\ spc' = "accept"
  /\ UNCHANGED <<clients, i, clientVars, connVars>>

(* reinit, FD_SET and select.                                              *)
Select ==
  /\ spc = "select"
  /\ fds' = {c \in Held \cup {Lsd} : Readable(c)}
  /\ fds' # {}
  /\ spc' = "accept"
  /\ UNCHANGED <<clients, i, clientVars, connVars>>

FreeSlots == {k \in 1..Slots : clients[k] = Empty}

(* accept into the first free slot; without one the socket is dropped, but *)
(* not closed.                                                             *)
Store(c) ==
  IF FreeSlots = {}
    THEN clients
    ELSE [clients EXCEPT ![Min(FreeSlots)] = c]

(* Mutant: every occupied slot is read.                                    *)
ReportedMutant(slots, k) == slots[k] # Empty

(* FD_ISSET(cur_sd).                                                       *)
Reported(slots, k) == slots[k] # Empty /\ slots[k] \in fds

(* The loop over the slots from the first on: those not reported are       *)
(* passed over.                                                            *)
ReadFrom(first, slots) ==
  LET todo == {k \in first..Slots : Reported(slots, k)}
  IN  IF todo = {}
        THEN spc' = "select" /\ i' = 1
        ELSE spc' = "read" /\ i' = Min(todo)

Accept ==
  /\ spc = "accept"
  /\ IF Lsd \in fds
       THEN /\ clients' = Store(Head(backlog))
            /\ backlog' = Tail(backlog)
       ELSE UNCHANGED <<clients, backlog>>
  /\ ReadFrom(1, clients')
  /\ UNCHANGED <<fds, clientVars, copen, up, down, reset>>

(* Mutant: the slot is not given back.                                     *)
DropMutant(c) ==
  /\ up[c] = 0 /\ c \notin copen
  /\ UNCHANGED <<clients, up, down, reset>>

(* read returns 0: a closed connection gives its slot back.                *)
Drop(c) ==
  /\ up[c] = 0 /\ c \notin copen
  /\ clients' = [clients EXCEPT ![i] = Empty]
  /\ UNCHANGED <<up, down, reset>>

(* What is read is sent back.  An echo to a client that is gone is         *)
(* answered with a reset.                                                  *)
Echo(c) ==
  LET n == IF up[c] < MaxPacket THEN up[c] ELSE MaxPacket
  IN  /\ up[c] > 0
      /\ up' = [up EXCEPT ![c] = @ - n]
      /\ IF c \in copen
           THEN down' = [down EXCEPT ![c] = @ + n] /\ UNCHANGED reset
           ELSE reset' = reset \cup {c} /\ UNCHANGED down
      /\ UNCHANGED clients

Read ==
  /\ spc = "read"
  /\ Drop(clients[i]) \/ Echo(clients[i])
  /\ ReadFrom(i + 1, clients)
  /\ UNCHANGED <<fds, clientVars, copen, backlog>>

(* The process ends and the kernel closes its sockets: a connection with   *)
(* bytes left unread, or in no slot, is reset.                             *)
EndServer(l) ==
  /\ spc' = l
  /\ reset' = {c \in copen : up[c] > 0 \/ c \notin Held}
  /\ up' = [c \in Conns |-> 0]
  /\ backlog' = <<>>
  /\ clients' = [k \in 1..Slots |-> Empty] /\ fds' = {} /\ i' = 1
  /\ UNCHANGED <<clientVars, copen, down>>

(* read or send returns -1, or SIGPIPE comes first.  Whether the reset has *)
(* arrived by now, and whether read returns the end of the stream instead, *)
(* is left open.                                                           *)
ReadFails ==
  /\ spc = "read"
  /\ clients[i] \in reset
  /\ EndServer("failed")

(* while (1): the server is stopped from outside.                          *)
Stop ==
  /\ "stop" \in Faults
  /\ ServerUp
  /\ EndServer("stopped")

-----------------------------------------------------------------------------
Client(p) ==
  \/ Connect(p) \/ Refused(p) \/ Send(p)
  \/ Receive(p) \/ ReceiveFails(p) \/ WarmUpFails(p) \/ Close(p)

Server == Select \/ Accept \/ Read \/ ReadFails

Finished == (\A p \in Procs : cpc[p] \in {"done", "killed"}) /\ UNCHANGED vars

Next ==
  \/ \E p \in Procs : Client(p) \/ Kill(p)
  \/ Server \/ Stop \/ Finished

Spec == Init /\ [][Next]_vars

(* All programs run; nobody has to be killed.                              *)
FairSpec == Spec /\ (\A p \in Procs : WF_vars(Client(p))) /\ WF_vars(Server)

-----------------------------------------------------------------------------
(* Every variable holds a value the code can store in it.                  *)
TypeOK ==
  /\ cpc \in [Procs -> {"connect", "send", "receive", "close", "done", "killed"}]
  /\ round \in [Procs -> 1..Rounds] /\ sock \in [Procs -> 1..Sockets]
  /\ msg \in [Procs -> 0..(Messages - 1)]
  /\ bytesRead \in [Procs -> -1..Size(Rounds)]
  /\ copen \subseteq Conns /\ reset \subseteq Conns
  /\ \A k \in 1..Len(backlog) : backlog[k] \in Conns
  /\ up \in [Conns -> 0..Size(Rounds)] /\ down \in [Conns -> 0..Size(Rounds)]
  /\ spc \in {"select", "accept", "read", "failed", "stopped"}
  /\ clients \in [1..Slots -> Conns \cup {Empty}]
  /\ fds \subseteq Conns \cup {Lsd}
  /\ i \in 1..Slots

(* The server never waits in accept or in a read: what select reported is  *)
(* still readable when its turn comes, although the clients have gone on   *)
(* and a slot may have been filled since (lines 79 to 97).                 *)
NeverBlocks ==
  /\ spc = "accept" /\ Lsd \in fds => Readable(Lsd)
  /\ spc = "read" =>
       \A k \in i..Slots : Reported(clients, k) => Readable(clients[k])

(* A client that runs to its end never makes the server fail: when it      *)
(* closes a connection, it has taken every byte it asked for and has left  *)
(* none to be echoed.  Only the reset of a killed client reaches lines 101 *)
(* to 110.                                                                 *)
ServerOutlives == spc = "failed" => \E p \in Procs : cpc[p] = "killed"

(* The server neither waits for one client nor ends with it (lines 79 to   *)
(* 113): it goes on for the others.                                        *)
GoesOn == NeverBlocks /\ ServerOutlives

(* A connection never has two slots, else its second turn would read where *)
(* there is nothing left.                                                  *)
OneSlot ==
  \A k, l \in 1..Slots : k # l /\ clients[k] # Empty => clients[k] # clients[l]

(* No connection is lost: what a client has open waits to be accepted or   *)
(* has a slot.                                                             *)
Accounted(c) == c \in Held \/ c \in ToSet(backlog)
NoneLost == ServerUp => \A c \in copen : Accounted(c)

(* With room for all, every open connection has exactly one slot once it   *)
(* is accepted (lines 85 to 91).                                           *)
ServedOnce == NoneLost /\ OneSlot

(* With as many slots as the clients have sockets, as in the code, an open *)
(* connection is lost only in this way: all slots are taken (lines 85 to   *)
(* 91), and among them is its own socket of an earlier round; whatever its *)
(* client holds there is of an earlier round, and closed by the client.    *)
Forgotten(c) == c \in copen' /\ ServerUp' /\ Accounted(c) /\ ~Accounted(c)'
LostToItsPast ==
  [][\A c \in Conns : Forgotten(c) =>
       /\ \A k \in 1..Slots : clients[k] # Empty
       /\ \E k \in 1..Slots : clients[k][1] = c[1] /\ clients[k][3] = c[3]
       /\ \A k \in 1..Slots : clients[k][1] = c[1] =>
            clients[k] \notin copen /\ clients[k][2] < c[2]]_vars

Ended(p) == cpc[p] \in {"done", "killed"}

(* The loop of lines 79 to 81 of the client, which never ends without a    *)
(* server; the warm-up has no such loop.                                   *)
ReadsNothing(p) == cpc[p] = "receive" /\ ~IsWarmUp(round[p]) /\ ~ServerUp

(* With room for all, every client gets through all its rounds and the     *)
(* server gives all slots back, those of killed clients too; only when the *)
(* server is gone may a client be left, and only in the loop of lines 79   *)
(* to 81 of its program.                                                   *)
ClientsGetThrough ==
  <>[](/\ \A p \in Procs : Ended(p) \/ ReadsNothing(p)
       /\ ServerUp => Held = {})
=============================================================================
