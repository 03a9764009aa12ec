------------------------------ MODULE EchoFlow ------------------------------
(***************************************************************************)
(* One TCP client and its echo server, byte for byte: the client writes a  *)
(* whole message before it reads, the server reads at most a packet and    *)
(* writes all of it back before it reads again.  Both writes block while   *)
(* the buffers of the connection in that direction are full.               *)
(*                                                                         *)
(* Both servers and both clients have this loop; the module names the      *)
(* lines of NonBlockingTcpServer.cpp and MultiStreamTcpClient.cpp.         *)
(***************************************************************************)
EXTENDS Integers

CONSTANTS
  Message,    (* bytes of a message                                         *)
  Messages,   (* messages sent one after the other                          *)
  MaxPacket,  (* MAX_PACKET_SIZE                                            *)
  Up, Down    (* bytes the buffers hold in either direction: the sender's   *)
              (* send buffer and the receiver's receive buffer together     *)

ASSUME SizesAssumption == {Message, Messages, MaxPacket, Up, Down} \subseteq Nat \ {0}

(* What a host must provide: a message fits into the buffers of both       *)
(* directions and one byte in the hands of the server.  One byte more, and *)
(* both writes can block at once.                                          *)
ASSUME BuffersAssumption == Message <= Up + Down + 1

VARIABLES
  cpc,      (* where the client is                                          *)
  k,        (* messages answered                                            *)
  left,     (* bytes of the message not yet taken by the client's write     *)
  up,       (* bytes in the buffers towards the server                      *)
  buffer,   (* bytes the server has read and not yet written                *)
  down,     (* bytes in the buffers towards the client                      *)
  bytesRead (* bytes of the answer the client has read                      *)

vars == <<cpc, k, left, up, buffer, down, bytesRead>>

Init ==
  /\ cpc = "write" /\ k = 0
  /\ left = Message
  /\ up = 0 /\ buffer = 0 /\ down = 0
  /\ bytesRead = 0

(* Mutant: a write that does not wait for room.                            *)
WriteMutant ==
  /\ cpc = "write"
  /\ left' = 0 /\ up' = up + left
  /\ cpc' = "read"
  /\ UNCHANGED <<k, buffer, down, bytesRead>>

(* Stream::send: some bytes find room; it returns when all have.           *)
Write ==
  /\ cpc = "write"
  /\ \E n \in 1..left :
       /\ up + n <= Up
       /\ left' = left - n /\ up' = up + n
  /\ cpc' = IF left' = 0 THEN "read" ELSE "write"
  /\ UNCHANGED <<k, buffer, down, bytesRead>>

(* read of the server.                                                     *)
ServerRead ==
  /\ buffer = 0
  /\ \E n \in 1..MaxPacket :
       /\ n <= up
       /\ up' = up - n /\ buffer' = n
  /\ UNCHANGED <<cpc, k, left, down, bytesRead>>

(* sendVerifier.                                                           *)
ServerWrite ==
  /\ \E n \in 1..buffer :
       /\ down + n <= Down
       /\ buffer' = buffer - n /\ down' = down + n
  /\ UNCHANGED <<cpc, k, left, up, bytesRead>>

(* Mutants: the first bytes are taken for the whole answer; the loop over  *)
(* the messages does not count.                                            *)
ReceiveMutantShort ==
  /\ cpc = "read"
  /\ \E n \in 1..down : down' = down - n
  /\ bytesRead' = 0 /\ k' = k + 1
  /\ IF k' < Messages THEN cpc' = "write" /\ left' = Message
                      ELSE cpc' = "done" /\ UNCHANGED left
  /\ UNCHANGED <<up, buffer>>

ReceiveMutantForever ==
  /\ cpc = "read"
  /\ \E n \in 1..down :
       /\ down' = down - n
       /\ IF bytesRead + n < Message
            THEN bytesRead' = bytesRead + n /\ UNCHANGED <<cpc, left>>
            ELSE bytesRead' = 0 /\ cpc' = "write" /\ left' = Message
  /\ UNCHANGED <<k, up, buffer>>

(* Stream::receive until the answer is complete, then the next message.    *)
Receive ==
  /\ cpc = "read"
  /\ \E n \in 1..down :
       /\ down' = down - n
       /\ IF bytesRead + n < Message
            THEN bytesRead' = bytesRead + n /\ UNCHANGED <<cpc, k, left>>
            ELSE /\ bytesRead' = 0
                 /\ k' = k + 1
                 /\ IF k' < Messages THEN cpc' = "write" /\ left' = Message
                                     ELSE cpc' = "done" /\ UNCHANGED left
  /\ UNCHANGED <<up, buffer>>

Client == Write \/ Receive
Server == ServerRead \/ ServerWrite

Finished == cpc = "done" /\ UNCHANGED vars

Next == Client \/ Server \/ Finished

Spec == Init /\ [][Next]_vars

(* Both programs run.                                                      *)
FairSpec == Spec /\ WF_vars(Client) /\ WF_vars(Server)

-----------------------------------------------------------------------------
(* Every variable holds a value the code can store in it.                  *)
TypeOK ==
  /\ cpc \in {"write", "read", "done"}
  /\ k \in 0..Messages
  /\ left \in 0..Message
  /\ up \in 0..Up
  /\ buffer \in 0..MaxPacket
  /\ down \in 0..Down
  /\ bytesRead \in 0..(Message - 1)

ClientBlocked == cpc = "write" /\ up = Up
ServerBlocked == buffer > 0 /\ down = Down

(* The client's write and the server's write never wait for each other.    *)
NotBothBlocked == ~(ClientBlocked /\ ServerBlocked)

(* No byte is lost or kept for the next message: wherever its bytes are,   *)
(* they add up to one message, and to none when all are answered.          *)
NoByteLost ==
  left + up + buffer + down + bytesRead = IF cpc = "done" THEN 0 ELSE Message

(* All messages are answered.                                              *)
Answered == <>(cpc = "done")
=============================================================================
