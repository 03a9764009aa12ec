---------------------------- MODULE ThreadClient ----------------------------
(***************************************************************************)
(* MultiThreadTcpClient.cpp against MultiThreadTcpServer.cpp: in every     *)
(* round main starts one thread per core, passes all of them the same      *)
(* structure, which it fills anew for each, and joins them.  A thread      *)
(* copies the size when it starts, but takes the message and its length    *)
(* from the structure whenever it sends.                                   *)
(*                                                                         *)
(* Nothing orders these reads with the writes of main: every read finds    *)
(* what was stored last.  The server has a thread per connection, which    *)
(* echoes what it reads; it never ends by itself, but may be stopped.      *)
(***************************************************************************)
EXTENDS Integers, FiniteSets

CONSTANTS
  MinSize,    (* MIN_MSG_SIZE                                               *)
  MaxSize,    (* MAX_MSG_SIZE                                               *)
  MaxCore,    (* MAX_CORE                                                   *)
  Messages    (* messages per thread                                        *)

ASSUME SizesAssumption ==
  {MinSize, MaxSize, MaxCore, Messages} \subseteq Nat \ {0} /\ MinSize <= MaxSize

Threads == 0..(MaxCore - 1)
None    == -1

VARIABLES
  mpc,        (* where main is                                              *)
  msgSize,    (* loop variable of main                                      *)
  coreCount,  (* loop variable of main                                      *)
  j,          (* the thread main creates or joins                           *)
  data,       (* the structure main shares with all threads                 *)
  th,         (* the threads                                                *)
  up, down,   (* bytes under way on the connection of each thread           *)
  serverUp    (* has the server not been stopped?                           *)

mainVars == <<mpc, msgSize, coreCount, j, data>>
vars     == <<mainVars, th, up, down, serverUp>>

-----------------------------------------------------------------------------
(* msgSizes of the round, and how many bytes of msgs a send may read: with *)
(* fewer bytes than threads, every thread but the first sends one byte of  *)
(* a message that was created empty.                                       *)
SizeOf(t) ==
  IF msgSize < coreCount
    THEN IF t = 0 THEN msgSize ELSE 1
    ELSE (msgSize \div coreCount) + (IF t = 0 THEN msgSize % coreCount ELSE 0)

Allocated(t) == (IF msgSize < coreCount /\ t # 0 THEN 0 ELSE SizeOf(t)) + 1

Idle == [pc |-> "none", msgSize |-> None, msg |-> None, len |-> None, i |-> 0, bytesRead |-> 0]

Init ==
  /\ mpc = "create" /\ msgSize = MinSize /\ coreCount = 1 /\ j = 0
  /\ data = [msgSize |-> None, msg |-> None]
  /\ th = [t \in Threads |-> Idle]
  /\ up = [t \in Threads |-> 0] /\ down = [t \in Threads |-> 0]
  /\ serverUp = TRUE

-----------------------------------------------------------------------------
(* main.                                                                   *)

(* Mutant: the size of the whole message.                                  *)
SetSizeMutant ==
  /\ mpc = "create" /\ j < coreCount
  /\ data' = [data EXCEPT !.msgSize = msgSize]
  /\ mpc' = "message"
  /\ UNCHANGED <<msgSize, coreCount, j, th, up, down, serverUp>>

(* Two stores into the structure, one step each, and pthread_create.  The  *)
(* third, the number of the thread, only decides which core it runs on.    *)
SetSize ==
  /\ mpc = "create" /\ j < coreCount
  /\ data' = [data EXCEPT !.msgSize = SizeOf(j)]
  /\ mpc' = "message"
  /\ UNCHANGED <<msgSize, coreCount, j, th, up, down, serverUp>>

SetMessage ==
  /\ mpc = "message"
  /\ data' = [data EXCEPT !.msg = j]
  /\ mpc' = "start"
  /\ UNCHANGED <<msgSize, coreCount, j, th, up, down, serverUp>>

CreateThread ==
  /\ mpc = "start"
  /\ th' = [th EXCEPT ![j] = [Idle EXCEPT !.pc = "size"]]
  /\ j' = j + 1 /\ mpc' = "create"
  /\ UNCHANGED <<msgSize, coreCount, data, up, down, serverUp>>

StartJoin ==
  /\ mpc = "create" /\ j = coreCount
  /\ mpc' = "join" /\ j' = 0
  /\ UNCHANGED <<msgSize, coreCount, data, th, up, down, serverUp>>

Join ==
  /\ mpc = "join" /\ j < coreCount
  /\ th[j].pc = "ended"
  /\ j' = j + 1
  /\ UNCHANGED <<mpc, msgSize, coreCount, data, th, up, down, serverUp>>

(* Mutant: the number of threads is not doubled.                           *)
NextRoundMutant ==
  /\ mpc = "join" /\ j = coreCount
  /\ j' = 0 /\ mpc' = "create"
  /\ th' = [t \in Threads |-> Idle]
  /\ UNCHANGED <<msgSize, coreCount, data, up, down, serverUp>>

(* The results, free(msgs), the next round.                                *)
NextRound ==
  /\ mpc = "join" /\ j = coreCount
  /\ j' = 0
  /\ IF 2 * coreCount <= MaxCore
       THEN coreCount' = 2 * coreCount /\ mpc' = "create" /\ UNCHANGED msgSize
       ELSE IF 2 * msgSize <= MaxSize
         THEN coreCount' = 1 /\ msgSize' = 2 * msgSize /\ mpc' = "create"
         ELSE mpc' = "done" /\ UNCHANGED <<coreCount, msgSize>>
  /\ th' = [t \in Threads |-> Idle]
  /\ UNCHANGED <<data, up, down, serverUp>>

-----------------------------------------------------------------------------
(* client, the function of the threads.                                    *)

(* Mutant: the thread waits for the whole message.                         *)
CopySizeMutant(t) ==
  /\ th[t].pc = "size"
  /\ th' = [th EXCEPT ![t].msgSize = msgSize, ![t].pc = "connect"]
  /\ UNCHANGED <<up, down>>

CopySize(t) ==
  /\ th[t].pc = "size"
  /\ th' = [th EXCEPT ![t].msgSize = data.msgSize, ![t].pc = "connect"]
  /\ UNCHANGED <<up, down>>

(* connect, always a new connection; without a stream every message is     *)
(* passed over.                                                            *)
Connect(t) ==
  /\ th[t].pc = "connect"
  /\ th' = [th EXCEPT ![t].pc = IF serverUp THEN "args" ELSE "ended"]
  /\ up' = [up EXCEPT ![t] = 0] /\ down' = [down EXCEPT ![t] = 0]

(* The arguments of send: both are read from the structure, in any order.  *)
LoadMessage(t) ==
  /\ th[t].pc = "args" /\ th[t].msg = None
  /\ th' = [th EXCEPT ![t].msg = data.msg]
  /\ UNCHANGED <<up, down>>

LoadLength(t) ==
  /\ th[t].pc = "args" /\ th[t].len = None
  /\ th' = [th EXCEPT ![t].len = data.msgSize]
  /\ UNCHANGED <<up, down>>

Send(t) ==
  /\ th[t].pc = "args" /\ th[t].msg # None /\ th[t].len # None
  /\ up' = IF serverUp THEN [up EXCEPT ![t] = @ + th[t].len] ELSE up
  /\ th' = [th EXCEPT ![t].pc = "receive", ![t].msg = None, ![t].len = None,
                      ![t].bytesRead = 0]
  /\ UNCHANGED down

(* Mutant: one message too many.                                           *)
ReceiveMutantMore(t) ==
  /\ th[t].pc = "receive" /\ down[t] > 0
  /\ down' = [down EXCEPT ![t] = 0]
  /\ LET b == th[t].bytesRead + down[t]
     IN  th' = IF b < th[t].msgSize
                 THEN [th EXCEPT ![t].bytesRead = b]
                 ELSE [th EXCEPT ![t].bytesRead = b, ![t].i = @ + 1,
                         ![t].pc = IF th[t].i + 1 <= Messages THEN "args" ELSE "ended"]
  /\ UNCHANGED up

(* receive until msgSize bytes are there, the size the thread has copied.  *)
Receive(t) ==
  /\ th[t].pc = "receive" /\ down[t] > 0
  /\ down' = [down EXCEPT ![t] = 0]
  /\ LET b == th[t].bytesRead + down[t]
     IN  th' = IF b < th[t].msgSize
                 THEN [th EXCEPT ![t].bytesRead = b]
                 ELSE [th EXCEPT ![t].bytesRead = b, ![t].i = @ + 1,
                         ![t].pc = IF th[t].i + 1 < Messages THEN "args" ELSE "ended"]
  /\ UNCHANGED up

(* The server is gone: receive adds 0, or a -1 once, and the loop goes on. *)
ReceiveFails(t) ==
  /\ th[t].pc = "receive" /\ down[t] = 0 /\ ~serverUp
  /\ UNCHANGED <<th, up, down>>

Thread(t) ==
  /\ \/ CopySize(t) \/ Connect(t) \/ LoadMessage(t) \/ LoadLength(t)
     \/ Send(t) \/ Receive(t) \/ ReceiveFails(t)
  /\ UNCHANGED <<mainVars, serverUp>>

(* ConnectionHandler: one read and one write, of some of the bytes.        *)
Echo(t) ==
  /\ \E n \in 1..up[t] :
       /\ up' = [up EXCEPT ![t] = @ - n]
       /\ down' = [down EXCEPT ![t] = @ + n]
  /\ UNCHANGED <<mainVars, th, serverUp>>

(* while (1): the server is stopped from outside; what it has not read is  *)
(* lost.                                                                   *)
Stop ==
  /\ serverUp /\ serverUp' = FALSE
  /\ up' = [t \in Threads |-> 0]
  /\ UNCHANGED <<mainVars, th, down>>

-----------------------------------------------------------------------------
Main ==
  \/ SetSize \/ SetMessage \/ CreateThread
  \/ StartJoin \/ Join \/ NextRound

Finished == mpc = "done" /\ UNCHANGED vars

Next ==
  \/ Main \/ (\E t \in Threads : Thread(t) \/ Echo(t))
  \/ Stop \/ Finished

Spec == Init /\ [][Next]_vars

(* All threads of both programs are scheduled.                             *)
FairSpec ==
  /\ Spec /\ WF_vars(Main)
  /\ \A t \in Threads : WF_vars(Thread(t)) /\ WF_vars(Echo(t))

-----------------------------------------------------------------------------
(* Every variable holds a value the code can store in it.                  *)
TypeOK ==
  /\ mpc \in {"create", "message", "start", "join", "done"}
  /\ msgSize \in MinSize..MaxSize /\ coreCount \in 1..MaxCore
  /\ j \in 0..MaxCore
  /\ data \in [msgSize : 1..MaxSize \cup {None}, msg : Threads \cup {None}]
  /\ th \in [Threads -> [pc : {"none", "size", "connect", "args", "receive", "ended"},
                         msgSize : 1..MaxSize \cup {None},
                         msg : Threads \cup {None}, len : 1..MaxSize \cup {None},
                         i : 0..Messages, bytesRead : Nat]]
  /\ up \in [Threads -> Nat] /\ down \in [Threads -> Nat]
  /\ serverUp \in BOOLEAN

(* A send never reads behind the end of a message, whichever message and   *)
(* whichever length it finds in the structure.                             *)
InBounds ==
  \A t \in Threads :
    (th[t].msg # None /\ th[t].len # None) => th[t].len <= Allocated(th[t].msg)

(* Every thread that waits for an answer has sent as many bytes as it      *)
(* waits for: none is left waiting for ever.                               *)
NobodyStuck ==
  \A t \in Threads :
    serverUp /\ th[t].pc = "receive" => up[t] + down[t] + th[t].bytesRead >= th[t].msgSize

(* No byte of an answer stays behind on the connection of a thread that    *)
(* goes on to its next message or ends.                                    *)
NothingLeft == \A t \in Threads : th[t].pc \in {"args", "ended"} => up[t] + down[t] = 0

(* With even shares a thread waits for what it has sent, and for all of it.*)
AnswersMatch == NobodyStuck /\ NothingLeft

(* In a round in which all threads have the same share, a thread sends     *)
(* what its message has and waits for what it sends, although messages and *)
(* lengths pass through one structure that main overwrites (lines 147 to   *)
(* 152), and whatever the rounds before have left there.                   *)
EvenShares == \A t \in 0..(coreCount - 1) : SizeOf(t) = SizeOf(0)
SharesHold == EvenShares => InBounds /\ AnswersMatch

(* Main waits in a join for a thread that is in the loop of lines 150 to   *)
(* 152 and to which nothing is under way.                                  *)
MainWaits == mpc = "join" /\ j < coreCount /\ th[j].pc = "receive" /\ up[j] + down[j] = 0

(* All rounds are measured, with two exceptions, in which main is left in  *)
(* a join: the server is gone, or the shares of the round are uneven       *)
(* (fewer bytes than threads, but more than one) and the thread has sent   *)
(* less than the size it had copied (line 147).                            *)
RoundsMeasured ==
  <>[](mpc = "done" \/ (MainWaits /\ (~serverUp \/ ~EvenShares)))
=============================================================================
