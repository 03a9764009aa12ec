----------------------------- MODULE MultiThread -----------------------------
(***************************************************************************)
(* multithreadIB.c: in every round the server accepts one connection per   *)
(* thread and the client makes one per thread; a thread exchanges the      *)
(* addresses of its queue pair over its connection, closes it, plays       *)
(* ping-pong and releases its device.  The threads of the server share the *)
(* descriptor table of their process, which the module keeps exactly: the  *)
(* kernel hands out the lowest free number, and a number names whatever    *)
(* was opened under it last.                                               *)
(*                                                                         *)
(* The ping-pong of a pair of threads is one step here (module PingPong    *)
(* has it), the back-off of the client and the late close of the           *)
(* listening socket are in module Rounds.                                  *)
(***************************************************************************)
EXTENDS Integers, Sequences, FiniteSets

CONSTANTS
  MaxSize,      (* MAX_MSG_SIZE                                             *)
  MaxThreads,   (* maxThreadNum                                             *)
  Windows       (* the values window may have, see below                    *)

ASSUME LimitsAssumption == MaxSize \in Nat \ {0} /\ MaxThreads \in Nat \ {0}
ASSUME WindowAssumption == Windows \subseteq BOOLEAN /\ Windows # {}

Threads == 0..(MaxThreads - 1)
None    == -1

(* The descriptors a server needs at most: a listening socket, and a       *)
(* connection and a device per thread.                                     *)
Fds == 0..(2 * MaxThreads)

VARIABLES
  spc, cpc,       (* where main of the server and of the client is          *)
  sround, cround, (* <<varsize, numThreads>> of each                        *)
  si, ci,         (* the loop variable thread of each                       *)
  fd,             (* the descriptor table of the server: what fd[f] names   *)
  lfd,            (* sockfd of the server                                   *)
  st,             (* the threads of the server                              *)
  ct,             (* the threads of the client                              *)
  window,         (* how the threads are scheduled: do others run between   *)
                  (* the two close(connfd) of a thread of the server? fixed *)
                  (* when the programs start                                *)
  backlog,        (* connections not yet accepted, by thread of the client  *)
  toS, toC        (* what waits to be read on each connection               *)

serverMain == <<spc, sround, si, lfd>>
clientMain == <<cpc, cround, ci>>
wires      == <<backlog, toS, toC>>
vars == <<serverMain, clientMain, fd, st, ct, wires, window>>

-----------------------------------------------------------------------------
(* Rounds and the split of the message.                                    *)

(* sizePerPeer: thread 0 takes what the even split leaves over.            *)
SizePerPeer(r, i) ==
  LET regular == r[1] \div r[2]
  IN  IF i = 0 THEN r[1] - regular * (r[2] - 1) ELSE regular

First        == <<1, 1>>
(* Mutant: one more doubling of the threads.                               *)
FollowingMutant(r) == IF r[2] <= MaxThreads THEN <<r[1], 2 * r[2]>> ELSE <<2 * r[1], 1>>
Following(r) == IF 2 * r[2] <= MaxThreads THEN <<r[1], 2 * r[2]>> ELSE <<2 * r[1], 1>>
IsRound(r)   == r[1] <= MaxSize

(* What a descriptor names: nothing, the listening socket, the connection  *)
(* of a thread of the client, the device of a thread of the server.        *)
Free     == <<"free", None>>
Listener == <<"listen", None>>
Conn(k)  == <<"conn", k>>
Dev(i)   == <<"dev", i>>
Objects  == {Free, Listener} \cup {Conn(k) : k \in Threads} \cup {Dev(i) : i \in Threads}

(* open, socket and accept return the lowest free number.                  *)
Lowest == CHOOSE f \in Fds : fd[f] = Free /\ \A g \in 0..(f - 1) : fd[g] # Free

Fresh  == [pc |-> "none", connfd |-> None, dev |-> None, rem |-> None]
CFresh == [pc |-> "none", rem |-> None]

Init ==
  /\ window \in Windows
  /\ spc = "listen" /\ cpc = "connect"
  /\ sround = First /\ cround = First
  /\ si = 0 /\ ci = 0
  /\ fd = [f \in Fds |-> Free]
  /\ lfd = None
  /\ st = [i \in Threads |-> Fresh]
  /\ ct = [k \in Threads |-> CFresh]
  /\ backlog = <<>>
  /\ toS = [k \in Threads |-> "none"]
  /\ toC = [k \in Threads |-> None]

-----------------------------------------------------------------------------
(* The ends of a connection.                                               *)

ServerHas(k) == (\E f \in Fds : fd[f] = Conn(k)) \/ (\E j \in 1..Len(backlog) : backlog[j] = k)
ClientHas(k) ==
  /\ cpc # "failed"
  /\ \/ ct[k].pc \in {"write", "read", "done", "close"}
     \/ ct[k].pc = "failed" /\ ct[k].rem = None

(* The message a read on connection k takes, None at the end of the        *)
(* stream; a read waits while there is neither.                            *)
ReadableS(k) == toS[k] # "none" \/ ~ClientHas(k)
ReadableC(k) == toC[k] # None \/ ~ServerHas(k)

-----------------------------------------------------------------------------
(* main of the server.                                                     *)

(* createServerConnection.                                                 *)
Listen ==
  /\ spc = "listen"
  /\ lfd' = Lowest
  /\ fd' = [fd EXCEPT ![Lowest] = Listener]
  /\ spc' = "accept" /\ si' = 0
  /\ UNCHANGED <<sround, clientMain, st, ct, wires>>

(* The accept loop: threads without payload are skipped.                   *)
ServerSkip ==
  /\ spc = "accept" /\ si < sround[2]
  /\ SizePerPeer(sround, si) = 0
  /\ si' = si + 1
  /\ UNCHANGED <<spc, sround, lfd, clientMain, fd, st, ct, wires>>

Accept ==
  /\ spc = "accept" /\ si < sround[2]
  /\ SizePerPeer(sround, si) # 0
  /\ backlog # <<>>
  /\ fd' = [fd EXCEPT ![Lowest] = Conn(Head(backlog))]
  /\ st' = [st EXCEPT ![si] = [Fresh EXCEPT !.pc = "open", !.connfd = Lowest]]
  /\ backlog' = Tail(backlog)
  /\ si' = si + 1
  /\ UNCHANGED <<spc, sround, lfd, clientMain, ct, toS, toC>>

CloseListener ==
  /\ spc = "accept" /\ si = sround[2]
  /\ fd' = [fd EXCEPT ![lfd] = Free]
  /\ backlog' = <<>>
  /\ spc' = "join" /\ si' = 0
  /\ UNCHANGED <<sround, lfd, clientMain, st, ct, toS, toC>>

(* pthread_join of the threads in turn; main dereferences what the thread  *)
(* returned, and dies when that is 1.  A process that ends closes all it   *)
(* has open.                                                               *)
ServerJoin ==
  /\ spc = "join" /\ si < sround[2]
  /\ st[si].pc \in {"none", "ended"}
  /\ si' = si + 1
  /\ UNCHANGED <<spc, sround, lfd, clientMain, fd, st, ct, wires>>

ServerCrash ==
  /\ spc = "join" /\ si < sround[2]
  /\ st[si].pc = "failed"
  /\ spc' = "failed"
  /\ fd' = [f \in Fds |-> Free]
  /\ backlog' = <<>>
  /\ UNCHANGED <<sround, si, lfd, clientMain, st, ct, toS, toC>>

ServerRound ==
  /\ spc = "join" /\ si = sround[2]
  /\ IF IsRound(Following(sround))
       THEN spc' = "listen" /\ sround' = Following(sround)
       ELSE spc' = "finished" /\ UNCHANGED sround
  /\ st' = [i \in Threads |-> Fresh]
  /\ si' = 0
  /\ UNCHANGED <<lfd, clientMain, fd, ct, wires>>

-----------------------------------------------------------------------------
(* A thread of the server: runPingPong with pp_server_exch_dest.           *)

Running == spc \in {"accept", "join"}

(* Nobody runs while another thread is between its two closes.             *)
Undisturbed(i) == window \/ \A j \in Threads \ {i} : st[j].pc # "close2"
MainUndisturbed == window \/ \A j \in Threads : st[j].pc # "close2"

Goto(i, pc) == st' = [st EXCEPT ![i].pc = pc]

(* pp_init_ctx opens the device.                                           *)
OpenDevice(i) ==
  /\ st[i].pc = "open"
  /\ fd' = [fd EXCEPT ![Lowest] = Dev(i)]
  /\ st' = [st EXCEPT ![i].dev = Lowest, ![i].pc = "init"]
  /\ UNCHANGED wires

HasDevice(i) == fd[st[i].dev] = Dev(i)
Named(i)     == fd[st[i].connfd]

(* The rest of pp_init_ctx are commands to the device.                     *)
InitContext(i) ==
  /\ st[i].pc = "init"
  /\ Goto(i, IF HasDevice(i) THEN "read" ELSE "failed")
  /\ UNCHANGED <<fd, wires>>

(* Mutant: a read that does not wait.                                      *)
ReadAddrMutantNoWait(i) ==
  /\ st[i].pc = "read"
  /\ IF Named(i)[1] = "conn" /\ toS[Named(i)[2]] = "addr" /\ HasDevice(i)
       THEN /\ toS' = [toS EXCEPT ![Named(i)[2]] = "none"]
            /\ st' = [st EXCEPT ![i].rem = Named(i)[2], ![i].pc = "write"]
            /\ UNCHANGED <<backlog, toC>>
       ELSE Goto(i, "close1bad") /\ UNCHANGED wires
  /\ UNCHANGED fd

(* The read of the client's address, on whatever the descriptor names by   *)
(* now, and pp_connect_ctx, a command to the device.                       *)
ReadAddr(i) ==
  /\ st[i].pc = "read"
  /\ IF Named(i)[1] # "conn"
       THEN Goto(i, "close1bad") /\ UNCHANGED wires
       ELSE LET k == Named(i)[2]
            IN  /\ ReadableS(k)
                /\ toS' = [toS EXCEPT ![k] = "none"]
                /\ IF toS[k] = "addr" /\ HasDevice(i)
                     THEN st' = [st EXCEPT ![i].rem = k, ![i].pc = "write"]
                     ELSE Goto(i, "close1bad")
                /\ UNCHANGED <<backlog, toC>>
  /\ UNCHANGED fd

(* Mutant: the threads format their answers in one static buffer.          *)
WriteAddrMutant(i) ==
  /\ st[i].pc = "write" /\ Named(i)[1] = "conn"
  /\ \E j \in Threads : st[j].pc = "write" /\ toC' = [toC EXCEPT ![Named(i)[2]] = j]
  /\ Goto(i, "readdone")
  /\ UNCHANGED <<fd, backlog, toS>>

(* The answer.                                                             *)
WriteAddr(i) ==
  /\ st[i].pc = "write"
  /\ IF Named(i)[1] # "conn"
       THEN Goto(i, "close1bad") /\ UNCHANGED wires
       ELSE /\ toC' = [toC EXCEPT ![Named(i)[2]] = i]
            /\ Goto(i, "readdone")
            /\ UNCHANGED <<backlog, toS>>
  /\ UNCHANGED fd

(* The read for done; what it returns is not looked at.                    *)
ReadDone(i) ==
  /\ st[i].pc = "readdone"
  /\ IF Named(i)[1] # "conn"
       THEN UNCHANGED wires
       ELSE /\ ReadableS(Named(i)[2])
            /\ toS' = [toS EXCEPT ![Named(i)[2]] = "none"]
            /\ UNCHANGED <<backlog, toC>>
  /\ Goto(i, "close1")
  /\ UNCHANGED fd

(* close(connfd) at the end of pp_server_exch_dest.                        *)
CloseFirst(i) ==
  /\ st[i].pc \in {"close1", "close1bad"}
  /\ fd' = [fd EXCEPT ![st[i].connfd] = Free]
  /\ Goto(i, IF st[i].pc = "close1" THEN "close2" ELSE "failed")
  /\ UNCHANGED wires

(* close(connfd) again in runPingPong.                                     *)
CloseSecond(i) ==
  /\ st[i].pc = "close2"
  /\ fd' = [fd EXCEPT ![st[i].connfd] = Free]
  /\ Goto(i, "measure")
  /\ UNCHANGED wires

(* Mutants: the second close only after the measurement; the device is     *)
(* left open.                                                              *)
CloseDeviceMutantLate(i) ==
  /\ st[i].pc = "closectx"
  /\ fd' = [fd EXCEPT ![st[i].dev] = Free, ![st[i].connfd] = Free]
  /\ Goto(i, "ended")
  /\ UNCHANGED wires

CloseDeviceMutantLeak(i) ==
  /\ st[i].pc = "closectx"
  /\ Goto(i, IF HasDevice(i) THEN "ended" ELSE "failed")
  /\ UNCHANGED <<fd, wires>>

(* pp_close_ctx: the first command on a closed device fails.               *)
CloseDevice(i) ==
  /\ st[i].pc = "closectx"
  /\ IF HasDevice(i)
       THEN fd' = [fd EXCEPT ![st[i].dev] = Free] /\ Goto(i, "ended")
       ELSE UNCHANGED fd /\ Goto(i, "failed")
  /\ UNCHANGED wires

(* The measurement of a thread whose peer is gone: its send is retried to  *)
(* no end and the loop returns 1, or it has nothing to send and polls.     *)
ServerStray(i) ==
  /\ st[i].pc = "measure" /\ cpc = "failed"
  /\ Goto(i, "failed") \/ UNCHANGED st
  /\ UNCHANGED <<fd, wires>>

ServerThread(i) ==
  /\ Running /\ Undisturbed(i)
  /\ \/ OpenDevice(i) \/ InitContext(i) \/ ReadAddr(i) \/ WriteAddr(i)
     \/ ReadDone(i) \/ CloseFirst(i) \/ CloseSecond(i) \/ CloseDevice(i)
     \/ ServerStray(i)
  /\ UNCHANGED <<serverMain, clientMain, ct>>

ServerMain ==
  /\ MainUndisturbed
  /\ \/ Listen \/ ServerSkip \/ Accept \/ CloseListener
     \/ ServerJoin \/ ServerCrash \/ ServerRound

-----------------------------------------------------------------------------
(* main of the client.                                                     *)

(* A skipped thread advances the loop variable twice.                      *)
ClientSkip ==
  /\ cpc = "connect" /\ ci < cround[2]
  /\ SizePerPeer(cround, ci) = 0
  /\ ci' = ci + 2
  /\ UNCHANGED <<cpc, cround, serverMain, fd, st, ct, wires>>

Connect ==
  /\ cpc = "connect" /\ ci < cround[2]
  /\ SizePerPeer(cround, ci) # 0
  /\ spc = "accept" /\ sround = cround
  /\ backlog' = Append(backlog, ci)
  /\ toS' = [toS EXCEPT ![ci] = "none"]
  /\ toC' = [toC EXCEPT ![ci] = None]
  /\ ct' = [ct EXCEPT ![ci] = [CFresh EXCEPT !.pc = "write"]]
  /\ ci' = ci + 1
  /\ UNCHANGED <<cpc, cround, serverMain, fd, st>>

ClientFails ==
  /\ cpc' = "failed"
  /\ UNCHANGED <<cround, ci, serverMain, fd, st, ct, wires>>

(* The server is gone: all attempts are refused.                           *)
ConnectFails ==
  /\ cpc = "connect" /\ ci < cround[2]
  /\ spc \in {"failed", "finished"}
  /\ ClientFails

ClientStarted ==
  /\ cpc = "connect" /\ ci >= cround[2]
  /\ cpc' = "join" /\ ci' = 0
  /\ UNCHANGED <<cround, serverMain, fd, st, ct, wires>>

ClientJoin ==
  /\ cpc = "join" /\ ci < cround[2]
  /\ ct[ci].pc \in {"none", "ended"}
  /\ ci' = ci + 1
  /\ UNCHANGED <<cpc, cround, serverMain, fd, st, ct, wires>>

ClientCrash ==
  /\ cpc = "join" /\ ci < cround[2]
  /\ ct[ci].pc = "failed"
  /\ ClientFails

ClientRound ==
  /\ cpc = "join" /\ ci = cround[2]
  /\ IF IsRound(Following(cround))
       THEN cpc' = "connect" /\ cround' = Following(cround)
       ELSE cpc' = "finished" /\ UNCHANGED cround
  /\ ct' = [k \in Threads |-> CFresh]
  /\ ci' = 0
  /\ UNCHANGED <<serverMain, fd, st, wires>>

ClientMain ==
  \/ ClientSkip \/ Connect \/ ConnectFails \/ ClientStarted
  \/ ClientJoin \/ ClientCrash \/ ClientRound

-----------------------------------------------------------------------------
(* A thread of the client: runPingPong with pp_client_exch_dest.           *)

CGoto(k, pc) == ct' = [ct EXCEPT ![k].pc = pc]

ClientWriteAddr(k) ==
  /\ ct[k].pc = "write"
  /\ toS' = [toS EXCEPT ![k] = "addr"]
  /\ CGoto(k, "read")
  /\ UNCHANGED <<backlog, toC>>

ClientReadAddr(k) ==
  /\ ct[k].pc = "read" /\ ReadableC(k)
  /\ ct' = [ct EXCEPT ![k].rem = toC[k],
                      ![k].pc = IF toC[k] = None THEN "failed" ELSE "done"]
  /\ toC' = [toC EXCEPT ![k] = None]
  /\ UNCHANGED <<backlog, toS>>

ClientWriteDone(k) ==
  /\ ct[k].pc = "done"
  /\ toS' = [toS EXCEPT ![k] = "done"]
  /\ CGoto(k, "close")
  /\ UNCHANGED <<backlog, toC>>

(* pp_connect_ctx and close(connfd).                                       *)
ClientClose(k) ==
  /\ ct[k].pc = "close"
  /\ CGoto(k, "measure")
  /\ UNCHANGED wires

(* The first send finds no queue pair that takes it.                       *)
ClientStray(k) ==
  /\ ct[k].pc = "measure"
  /\ spc = "failed" \/ st[ct[k].rem].rem # k
  /\ CGoto(k, "failed")
  /\ UNCHANGED wires

ClientCloseDevice(k) ==
  /\ ct[k].pc = "closectx"
  /\ CGoto(k, "ended")
  /\ UNCHANGED wires

ClientThread(k) ==
  /\ cpc \in {"connect", "join"}
  /\ \/ ClientWriteAddr(k) \/ ClientReadAddr(k) \/ ClientWriteDone(k)
     \/ ClientClose(k) \/ ClientStray(k) \/ ClientCloseDevice(k)
  /\ UNCHANGED <<serverMain, clientMain, fd, st>>

(* The ping-pong of a thread of the server and one of the client, each     *)
(* connected to the other.                                                 *)
Measure(i, k) ==
  /\ Running /\ cpc \in {"connect", "join"} /\ MainUndisturbed
  /\ st[i].pc = "measure" /\ ct[k].pc = "measure"
  /\ st[i].rem = k /\ ct[k].rem = i
  /\ Goto(i, "closectx") /\ CGoto(k, "closectx")
  /\ UNCHANGED <<serverMain, clientMain, fd, wires>>

-----------------------------------------------------------------------------
(* Both programs are through, or the client is gone and the server waits.  *)
Finished ==
  /\ cpc \in {"finished", "failed"}
  /\ UNCHANGED vars

Step(action) == action /\ UNCHANGED window

Next ==
  \/ Step(ServerMain) \/ Step(ClientMain)
  \/ \E i \in Threads : Step(ServerThread(i)) \/ Step(ClientThread(i))
  \/ \E i, k \in Threads : Step(Measure(i, k))
  \/ Finished

Spec == Init /\ [][Next]_vars

(* Every thread of either process is scheduled.                            *)
FairSpec ==
  /\ Spec
  /\ WF_vars(Step(ServerMain)) /\ WF_vars(Step(ClientMain))
  /\ \A i \in Threads : WF_vars(Step(ServerThread(i))) /\ WF_vars(Step(ClientThread(i)))
  /\ \A i, k \in Threads : WF_vars(Step(Measure(i, k)))

-----------------------------------------------------------------------------
(* Every variable holds a value the code can store in it.                  *)
TypeOK ==
  /\ spc \in {"listen", "accept", "join", "finished", "failed"}
  /\ cpc \in {"connect", "join", "finished", "failed"}
  /\ {sround, cround} \subseteq (1..MaxSize) \X (1..MaxThreads)
  /\ si \in 0..MaxThreads /\ ci \in 0..(MaxThreads + 1)
  /\ fd \in [Fds -> Objects] /\ lfd \in Fds \cup {None}
  /\ st \in [Threads -> [pc : {"none", "open", "init", "read", "write", "readdone",
                                "close1", "close1bad", "close2", "measure",
                                "closectx", "ended", "failed"},
                         connfd : Fds \cup {None}, dev : Fds \cup {None},
                         rem : Threads \cup {None}]]
  /\ ct \in [Threads -> [pc : {"none", "write", "read", "done", "close", "measure",
                                "closectx", "ended", "failed"},
                         rem : Threads \cup {None}]]
  /\ \A j \in 1..Len(backlog) : backlog[j] \in Threads
  /\ toS \in [Threads -> {"none", "addr", "done"}]
  /\ toC \in [Threads -> Threads \cup {None}]
  /\ window \in Windows

(* A thread of the server that still uses its connection or its device     *)
(* finds it under the number it got for it, and no two threads hold one    *)
(* number: nobody closes what another thread has open, unless some thread  *)
(* runs in the window of another between lines 379 and 726.                *)
Exchanging == {i \in Threads : st[i].pc \in {"open", "init", "read", "write", "readdone", "close1"}}
WithDevice == {i \in Threads : st[i].pc \in {"init", "read", "write", "readdone", "close1",
                                             "close2", "measure", "closectx"}}
OwnDescriptors ==
  Running /\ ~window =>
    /\ \A i \in Exchanging : Named(i)[1] = "conn"
    /\ \A i, j \in Exchanging : i # j => st[i].connfd # st[j].connfd
    /\ \A i \in WithDevice : HasDevice(i)

(* Two threads that measure with each other agree on it, both split the    *)
(* message the same way, although neither tells the other which of the     *)
(* threads it is, and no queue pair of the client has two servers; the     *)
(* window of lines 379 to 726 is the only thing that breaks it.            *)
Pairs ==
  (Running /\ ~window /\ cround = sround /\ cpc # "failed") =>
    /\ \A k \in Threads : ct[k].rem # None =>
         /\ st[ct[k].rem].rem = k
         /\ SizePerPeer(sround, ct[k].rem) = SizePerPeer(cround, k)
    /\ \A i, j \in Threads : i # j /\ st[i].rem # None => st[i].rem # st[j].rem

(* No descriptor outlives its round.                                       *)
NoLeak == spc \in {"listen", "finished"} => \A f \in Fds : fd[f] = Free

(* Descriptors are kept apart while they are in use and given back after   *)
(* (lines 371, 726, 842 and 951).                                          *)
DescriptorsKept == OwnDescriptors /\ NoLeak

(* All sizes are measured with all numbers of threads.                     *)
AllRounds == <>(spc = "finished" /\ cpc = "finished")

(* They are, when nobody runs in the window of another thread.             *)
AllRoundsUndisturbed == ~window => AllRounds
=============================================================================
