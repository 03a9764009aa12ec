------------------------------ MODULE RcPingPong ------------------------------
(***************************************************************************)
(* Original/rc_pingpong.c, the example the tests of this repository grew   *)
(* from, as a whole: the client process and the server process from main   *)
(* to exit, with the TCP connection they exchange addresses over and the   *)
(* HCAs as environment.  Unlike its descendants the example can sleep on   *)
(* completion events (option -e) instead of polling.                       *)
(*                                                                         *)
(* Every exit with status 1 ends the process: the kernel closes its socket *)
(* and destroys its queue pair.                                            *)
(***************************************************************************)
EXTENDS Integers, Sequences, FiniteSets, SequencesExt, Resources

CONSTANTS
  Iters,      (* option -n, the same on both command lines                  *)
  RxDepths    (* the values option -r may have, one for each side           *)

ASSUME ItersAssumption   == Iters \in Nat \ {0}
ASSUME DepthsAssumption  == RxDepths \subseteq [{"client", "server"} -> Nat \ {0}] /\ RxDepths # {}

VARIABLES
  opt,       (* fixed at the start: event[s] and depth[s], the options of   *)
             (* side s, and faulty: may any call of the programs fail, a    *)
             (* read return a part of an address, and the client be started *)
             (* before the server listens?                                  *)
  pc,        (* where each process is                                       *)
  held,      (* what it has allocated and not given back                    *)
  sock,      (* its end of the TCP connection                               *)
  listening, (* does the server's first socket accept connections?          *)
  inbox,     (* what the peer has written and it has not read               *)
  pending,   (* ctx->pending                                                *)
  routs, rcnt, scnt,
  wc,        (* the completions polled and not yet handled                  *)
  got,       (* num_cq_events                                               *)
  qp,        (* the queue pair in the HCA: "init", "ready", or gone         *)
  rq, sq,    (* receives posted, and the one send work request              *)
  cq,        (* completions not yet polled                                  *)
  armed,     (* will the next completion raise an event?                    *)
  events,    (* events in the channel                                       *)
  acked      (* events acknowledged                                         *)

setupVars == <<held, sock, listening, inbox>>
loopVars  == <<pending, routs, rcnt, scnt, wc, got>>
hcaVars   == <<qp, rq, sq, cq>>
eventVars == <<armed, events, acked>>
vars      == <<opt, pc, setupVars, loopVars, hcaVars, eventVars>>

Sides   == {"client", "server"}
Peer(s) == IF s = "client" THEN "server" ELSE "client"

Recv == "recv"
Send == "send"
Wc(o, k) == [op |-> o, ok |-> k]
Completions == [op : {Recv, Send}, ok : BOOLEAN]

Exchanging == {"listen", "accept", "connect", "readAddr", "connectQp", "writeAddr",
               "readDone", "writeDone"}
SettingUp  == {"open", "prepare"} \cup Exchanging \cup {"begin"}
Looping    == {"loop", "arm", "poll"}
Exits      == {"exit0", "setupFailed", "loopFailed", "closeFailed"}

Running(s) == pc[s] \notin Exits
HungUp(s)  == sock[s] = "closed"

Init ==
  /\ opt \in [event : [Sides -> BOOLEAN], depth : RxDepths, faulty : BOOLEAN]
  /\ pc = [s \in Sides |-> "open"]
  /\ held = [s \in Sides |-> {}]
  /\ sock = [s \in Sides |-> "none"]
  /\ listening = FALSE
  /\ inbox = [s \in Sides |-> <<>>]
  /\ pending = [s \in Sides |-> {}]
  /\ routs = [s \in Sides |-> 0]
  /\ rcnt = [s \in Sides |-> 0] /\ scnt = [s \in Sides |-> 0]
  /\ wc = [s \in Sides |-> <<>>]
  /\ got = [s \in Sides |-> 0]
  /\ qp = [s \in Sides |-> "none"]
  /\ rq = [s \in Sides |-> 0]
  /\ sq = [s \in Sides |-> "idle"]
  /\ cq = [s \in Sides |-> <<>>]
  /\ armed = [s \in Sides |-> FALSE]
  /\ events = [s \in Sides |-> 0]
  /\ acked = [s \in Sides |-> 0]

Goto(s, l) == pc' = [pc EXCEPT ![s] = l]

(* The process ends, in the program or by a failed call.                   *)
Ends(s, exit) ==
  /\ Goto(s, exit)
  /\ held' = [held EXCEPT ![s] = {}]
  /\ sock' = [sock EXCEPT ![s] = IF @ = "open" THEN "closed" ELSE @]
  /\ listening' = (listening /\ s # "server")
  /\ qp' = [qp EXCEPT ![s] = "gone"]

-----------------------------------------------------------------------------
(* main up to the exchange of addresses.                                   *)

(* ibv_get_device_list and pp_init_ctx, one allocation at a time; the new  *)
(* queue pair is moved to INIT.                                            *)
Open(s) ==
  /\ pc[s] = "open"
  /\ LET order == OpenOrder(opt.event[s])
         n     == Cardinality(held[s]) + 1
     IN  /\ held' = [held EXCEPT ![s] = @ \cup {order[n]}]
         /\ IF n = Len(order)
              THEN Goto(s, "prepare") /\ qp' = [qp EXCEPT ![s] = "init"]
              ELSE UNCHANGED <<pc, qp>>
  /\ UNCHANGED <<opt, sock, listening, inbox, loopVars, rq, sq, cq, eventVars>>

(* rx_depth receives, the first request for an event, and the local        *)
(* address.  The queue pair is in INIT: nothing can arrive in between.     *)
Prepare(s) ==
  /\ pc[s] = "prepare"
  /\ rq' = [rq EXCEPT ![s] = opt.depth[s]]
  /\ routs' = [routs EXCEPT ![s] = opt.depth[s]]
  /\ armed' = [armed EXCEPT ![s] = opt.event[s]]
  /\ Goto(s, IF s = "server" THEN "listen" ELSE "connect")
  /\ UNCHANGED <<opt, setupVars, pending, rcnt, scnt, wc, got, qp, sq, cq, events, acked>>

(* pp_server_exch_dest: socket, bind, listen with a backlog of one.        *)
Listen ==
  /\ pc["server"] = "listen"
  /\ listening' = TRUE
  /\ Goto("server", "accept")
  /\ UNCHANGED <<opt, held, sock, inbox, loopVars, hcaVars, eventVars>>

(* accept, and close of the listening socket.                              *)
Accept ==
  /\ pc["server"] = "accept"
  /\ sock["client"] # "none"
  /\ listening' = FALSE
  /\ Goto("server", "readAddr")
  /\ UNCHANGED <<opt, held, sock, inbox, loopVars, hcaVars, eventVars>>

(* pp_client_exch_dest: the connection is made in the server's backlog.    *)
Connect ==
  /\ pc["client"] = "connect"
  /\ listening
  /\ sock' = [s \in Sides |-> "open"]
  /\ Goto("client", "writeAddr")
  /\ UNCHANGED <<opt, held, listening, inbox, loopVars, hcaVars, eventVars>>

(* connect fails and is not retried; a server that is not yet there counts  *)
(* as a fault.                                                             *)
Refused ==
  /\ pc["client"] = "connect"
  /\ ~listening
  /\ opt.faulty \/ pc["server"] \in Exits
  /\ Ends("client", "setupFailed")
  /\ UNCHANGED <<opt, inbox, loopVars, rq, sq, cq, eventVars>>

WriteAddr(s) ==
  /\ pc[s] = "writeAddr"
  /\ inbox' = [inbox EXCEPT ![Peer(s)] = Append(@, "addr")]
  /\ Goto(s, IF s = "server" THEN "readDone" ELSE "readAddr")
  /\ UNCHANGED <<opt, held, sock, listening, loopVars, hcaVars, eventVars>>

(* A connection whose other end is closed may refuse more: the call fails, *)
(* or SIGPIPE ends the process.                                            *)
WriteFails(s) ==
  /\ pc[s] \in {"writeAddr", "writeDone"}
  /\ HungUp(Peer(s))
  /\ Ends(s, "setupFailed")
  /\ UNCHANGED <<opt, inbox, loopVars, rq, sq, cq, eventVars>>

(* Mutant: the server answers before it has connected its queue pair.      *)
ReadAddrMutantEager(s) ==
  /\ pc[s] = "readAddr"
  /\ inbox[s] # <<>>
  /\ inbox' = IF s = "server" THEN [client |-> <<"addr">>, server |-> Tail(inbox[s])]
              ELSE [inbox EXCEPT ![s] = Tail(@)]
  /\ held' = [held EXCEPT ![s] = @ \cup {"rem"}]
  /\ Goto(s, IF s = "server" THEN "connectQp" ELSE "writeDone")
  /\ UNCHANGED <<opt, sock, listening, loopVars, hcaVars, eventVars>>

ReadAddr(s) ==
  /\ pc[s] = "readAddr"
  /\ inbox[s] # <<>>
  /\ inbox' = [inbox EXCEPT ![s] = Tail(@)]
  /\ held' = [held EXCEPT ![s] = @ \cup {"rem"}]
  /\ Goto(s, IF s = "server" THEN "connectQp" ELSE "writeDone")
  /\ UNCHANGED <<opt, sock, listening, loopVars, hcaVars, eventVars>>

(* Mutant: only an error ends the exchange, not the end of the stream.     *)
ReadFailsMutant(s) ==
  /\ pc[s] = "readAddr"
  /\ inbox[s] # <<>> /\ opt.faulty
  /\ Ends(s, "setupFailed")
  /\ UNCHANGED <<opt, inbox, loopVars, rq, sq, cq, eventVars>>

(* read(...) != sizeof msg: the end of the stream, or a part of it.        *)
ReadFails(s) ==
  /\ pc[s] = "readAddr"
  /\ \/ inbox[s] = <<>> /\ HungUp(Peer(s))
     \/ inbox[s] # <<>> /\ opt.faulty
  /\ Ends(s, "setupFailed")
  /\ UNCHANGED <<opt, inbox, loopVars, rq, sq, cq, eventVars>>

(* The client confirms and closes, before its queue pair is connected.     *)
WriteDone ==
  /\ pc["client"] = "writeDone"
  /\ inbox' = [inbox EXCEPT !["server"] = Append(@, "done")]
  /\ sock' = [sock EXCEPT !["client"] = "closed"]
  /\ Goto("client", "connectQp")
  /\ UNCHANGED <<opt, held, listening, loopVars, hcaVars, eventVars>>

(* The last read of the server: what it returns is not looked at.          *)
ReadDone ==
  /\ pc["server"] = "readDone"
  /\ inbox["server"] # <<>> \/ HungUp("client")
  /\ inbox' = [inbox EXCEPT !["server"] = <<>>]
  /\ sock' = [sock EXCEPT !["server"] = "closed"]
  /\ Goto("server", "begin")
  /\ UNCHANGED <<opt, held, listening, loopVars, hcaVars, eventVars>>

(* pp_connect_ctx: RTR, then RTS.                                          *)
ConnectQp(s) ==
  /\ pc[s] = "connectQp"
  /\ qp' = [qp EXCEPT ![s] = "ready"]
  /\ Goto(s, IF s = "server" THEN "writeAddr" ELSE "begin")
  /\ UNCHANGED <<opt, setupVars, loopVars, rq, sq, cq, eventVars>>

(* The pending bits, and the client's first send.                          *)
Begin(s) ==
  /\ pc[s] = "begin"
  /\ pending' = [pending EXCEPT ![s] = IF s = "client" THEN {Recv, Send} ELSE {Recv}]
  /\ sq' = [sq EXCEPT ![s] = IF s = "client" THEN "wire" ELSE @]
  /\ Goto(s, "loop")
  /\ UNCHANGED <<opt, setupVars, routs, rcnt, scnt, wc, got, qp, rq, cq, eventVars>>

(* Any call up to here may fail.                                           *)
SetupFails(s) ==
  /\ opt.faulty
  /\ pc[s] \in SettingUp
  /\ Ends(s, "setupFailed")
  /\ UNCHANGED <<opt, inbox, loopVars, rq, sq, cq, eventVars>>

-----------------------------------------------------------------------------
(* The measured loop.                                                      *)

LoopGoesOn(s) == rcnt[s] < Iters \/ scnt[s] < Iters
AtLoopTest(s) == pc[s] = "loop" /\ wc[s] = <<>>

(* Mutant: it returns although there is none.                              *)
GetEventMutant(s) ==
  /\ AtLoopTest(s) /\ LoopGoesOn(s) /\ opt.event[s]
  /\ events' = [events EXCEPT ![s] = @ - 1]
  /\ got' = [got EXCEPT ![s] = @ + 1]
  /\ Goto(s, "arm")
  /\ UNCHANGED <<opt, setupVars, pending, routs, rcnt, scnt, wc, hcaVars, armed, acked>>

(* ibv_get_cq_event sleeps until there is an event.                        *)
GetEvent(s) ==
  /\ AtLoopTest(s) /\ LoopGoesOn(s) /\ opt.event[s]
  /\ events[s] > 0
  /\ events' = [events EXCEPT ![s] = @ - 1]
  /\ got' = [got EXCEPT ![s] = @ + 1]
  /\ Goto(s, "arm")
  /\ UNCHANGED <<opt, setupVars, pending, routs, rcnt, scnt, wc, hcaVars, armed, acked>>

(* The next event is requested before the completion queue is polled.      *)
Arm(s) ==
  /\ pc[s] = "arm"
  /\ armed' = [armed EXCEPT ![s] = TRUE]
  /\ Goto(s, "poll")
  /\ UNCHANGED <<opt, setupVars, loopVars, hcaVars, events, acked>>

(* ibv_poll_cq with room for two; a run without events polls until there   *)
(* is something, a run with events may find nothing.                       *)
MayPoll(s) == \/ pc[s] = "poll"
              \/ AtLoopTest(s) /\ LoopGoesOn(s) /\ ~opt.event[s] /\ cq[s] # <<>>

PollUpTo(s, room) ==
  /\ MayPoll(s)
  /\ LET n == IF Len(cq[s]) < room THEN Len(cq[s]) ELSE room
     IN  /\ wc' = [wc EXCEPT ![s] = SubSeq(cq[s], 1, n)]
         /\ cq' = [cq EXCEPT ![s] = SubSeq(@, n + 1, Len(@))]
  /\ Goto(s, "loop")
  /\ UNCHANGED <<opt, setupVars, pending, routs, rcnt, scnt, got, qp, rq, sq, eventVars>>

(* Mutant: one completion for each event.                                  *)
PollMutant(s) == PollUpTo(s, 1)

Poll(s) == PollUpTo(s, 2)

Handling(s) == pc[s] = "loop" /\ wc[s] # <<>>
Waiting(s, o) == {i \in DOMAIN cq[s] : cq[s][i].op = o}

SendSlotFree(s) == sq[s] = "idle" /\ Waiting(s, Send) = {}

(* Mutant: the next send does not wait for the answer.                     *)
MaySendMutant(left, sent) == sent < Iters /\ Send \notin left

MaySend(left, sent) == sent < Iters /\ left = {}

(* The end of the body of the for loop: the next send is posted when the   *)
(* last one is complete and answered; a refused post ends the process.     *)
ClearAndMaybeSend(s, o, sent) ==
  LET left == pending[s] \ {o}
  IN  IF MaySend(left, sent)
        THEN IF SendSlotFree(s)
               THEN /\ sq' = [sq EXCEPT ![s] = "wire"]
                    /\ pending' = [pending EXCEPT ![s] = {Recv, Send}]
                    /\ UNCHANGED <<pc, held, sock, listening, qp>>
               ELSE /\ Ends(s, "loopFailed")
                    /\ UNCHANGED <<sq, pending>>
        ELSE /\ pending' = [pending EXCEPT ![s] = left]
             /\ UNCHANGED <<sq, pc, held, sock, listening, qp>>

HandleSend(s) ==
  /\ Handling(s) /\ Head(wc[s]) = Wc(Send, TRUE)
  /\ wc' = [wc EXCEPT ![s] = Tail(@)]
  /\ scnt' = [scnt EXCEPT ![s] = @ + 1]
  /\ ClearAndMaybeSend(s, Send, scnt[s] + 1)
  /\ UNCHANGED <<opt, inbox, routs, rcnt, got, rq, cq, eventVars>>

(* pp_post_recv(ctx, n) posts what the receive queue has room for.         *)
RecvRoom(s)   == opt.depth[s] - rq[s] - Cardinality(Waiting(s, Recv))
PostRecv(s, n) == IF n < RecvRoom(s) THEN n ELSE RecvRoom(s)

(* Mutant: routs is set to what pp_post_recv returned.                     *)
BookedMutant(left, new) == IF new > 0 THEN new ELSE left

(* routs += pp_post_recv(...)                                              *)
Booked(left, new) == left + new

(* --routs <= 1: the number of receives left at which new ones are posted. *)
RepostAt == 1

HandleRecv(s) ==
  /\ Handling(s) /\ Head(wc[s]) = Wc(Recv, TRUE)
  /\ wc' = [wc EXCEPT ![s] = Tail(@)]
  /\ LET left == routs[s] - 1
         new  == IF left <= RepostAt THEN PostRecv(s, opt.depth[s] - left) ELSE 0
         now  == Booked(left, new)
     IN  /\ routs' = [routs EXCEPT ![s] = now]
         /\ rq' = [rq EXCEPT ![s] = @ + new]
         /\ IF left <= RepostAt /\ now < opt.depth[s]
              THEN /\ Ends(s, "loopFailed")
                   /\ UNCHANGED <<rcnt, sq, pending>>
              ELSE /\ rcnt' = [rcnt EXCEPT ![s] = @ + 1]
                   /\ ClearAndMaybeSend(s, Recv, scnt[s])
  /\ UNCHANGED <<opt, inbox, scnt, got, cq, eventVars>>

HandleBadStatus(s) ==
  /\ Handling(s) /\ ~Head(wc[s]).ok
  /\ Ends(s, "loopFailed")
  /\ UNCHANGED <<opt, inbox, loopVars, rq, sq, cq, eventVars>>

(* ibv_get_cq_event, ibv_req_notify_cq, ibv_poll_cq or a post fails.       *)
LoopFails(s) ==
  /\ opt.faulty
  /\ pc[s] \in Looping
  /\ Ends(s, "loopFailed")
  /\ UNCHANGED <<opt, inbox, loopVars, rq, sq, cq, eventVars>>

(* Mutant: the events are not acknowledged.                                *)
AckEventsMutant(s) ==
  /\ AtLoopTest(s) /\ ~LoopGoesOn(s)
  /\ Goto(s, "close")
  /\ UNCHANGED <<opt, setupVars, loopVars, hcaVars, eventVars>>

(* The loop is over: ibv_ack_cq_events with the number of events taken.    *)
AckEvents(s) ==
  /\ AtLoopTest(s) /\ ~LoopGoesOn(s)
  /\ acked' = [acked EXCEPT ![s] = got[s]]
  /\ Goto(s, "close")
  /\ UNCHANGED <<opt, setupVars, loopVars, hcaVars, armed, events>>

-----------------------------------------------------------------------------
(* pp_close_ctx and the end of main.                                       *)

ToFree(s) == SelectSeq(CloseOrder(opt.event[s]), LAMBDA r : r \in held[s])
Usable(s) == {r \in held[s] : Head(ToFree(s)) \in MadeFrom(r)}

(* ibv_destroy_cq waits until all events taken are acknowledged.           *)
Free(s) ==
  /\ pc[s] = "close" /\ held[s] # {}
  /\ Usable(s) = {}
  /\ Head(ToFree(s)) = "cq" => acked[s] = got[s]
  /\ held' = [held EXCEPT ![s] = @ \ {Head(ToFree(s))}]
  /\ qp' = [qp EXCEPT ![s] = IF Head(ToFree(s)) = "qp" THEN "gone" ELSE @]
  /\ UNCHANGED <<opt, pc, sock, listening, inbox, loopVars, rq, sq, cq, eventVars>>

(* A resource that is in use is not given back: the process ends with 1.   *)
CloseFails(s) ==
  /\ pc[s] = "close" /\ held[s] # {}
  /\ Usable(s) # {} \/ opt.faulty
  /\ Ends(s, "closeFailed")
  /\ UNCHANGED <<opt, inbox, loopVars, rq, sq, cq, eventVars>>

Return(s) ==
  /\ pc[s] = "close" /\ held[s] = {}
  /\ Goto(s, "exit0")
  /\ UNCHANGED <<opt, setupVars, loopVars, hcaVars, eventVars>>

-----------------------------------------------------------------------------
(* The HCAs and the reliable connection.                                   *)

(* A completion enters the queue; the first since the last request for one *)
(* raises an event.                                                        *)
Complete(s, c) ==
  /\ cq' = [cq EXCEPT ![s] = Append(@, c)]
  /\ events' = [events EXCEPT ![s] = IF armed[s] THEN @ + 1 ELSE @]
  /\ armed' = [armed EXCEPT ![s] = FALSE]
  /\ UNCHANGED acked

(* The message consumes a receive of the peer, if there is one.            *)
Deliver(s) ==
  /\ sq[s] = "wire"
  /\ qp[Peer(s)] = "ready" /\ rq[Peer(s)] > 0
  /\ rq' = [rq EXCEPT ![Peer(s)] = @ - 1]
  /\ sq' = [sq EXCEPT ![s] = "arrived"]
  /\ Complete(Peer(s), Wc(Recv, TRUE))
  /\ UNCHANGED <<opt, pc, setupVars, loopVars, qp>>

Acknowledge(s) ==
  /\ sq[s] = "arrived" /\ qp[s] = "ready"
  /\ sq' = [sq EXCEPT ![s] = "idle"]
  /\ Complete(s, Wc(Send, TRUE))
  /\ UNCHANGED <<opt, pc, setupVars, loopVars, qp, rq>>

(* Seven retries to a queue pair that is not there.  The HCA then flushes  *)
(* the posted receives into the completion queue, behind the failed send,  *)
(* at which the loop ends; with one queue pair there is room for them      *)
(* (OneQueuePairNeverOverruns in PingPongProofs), and nothing polls them.  *)
RetryExceeded(s) ==
  /\ sq[s] = "wire" /\ qp[s] = "ready"
  /\ qp[Peer(s)] # "ready"
  /\ sq' = [sq EXCEPT ![s] = "idle"]
  /\ Complete(s, Wc(Send, FALSE))
  /\ UNCHANGED <<opt, pc, setupVars, loopVars, qp, rq>>

-----------------------------------------------------------------------------
Setup(s) ==
  \/ Open(s) \/ Prepare(s)
  \/ s = "server" /\ (Listen \/ Accept \/ ReadDone)
  \/ s = "client" /\ (Connect \/ Refused \/ WriteDone)
  \/ WriteAddr(s) \/ WriteFails(s) \/ ReadAddr(s) \/ ReadFails(s)
  \/ ConnectQp(s) \/ Begin(s)

Loop(s) ==
  \/ GetEvent(s) \/ Arm(s) \/ Poll(s)
  \/ HandleSend(s) \/ HandleRecv(s) \/ HandleBadStatus(s)
  \/ AckEvents(s)

Close(s) == Free(s) \/ CloseFails(s) \/ Return(s)

Program(s) == Setup(s) \/ Loop(s) \/ Close(s)
Dies(s)    == SetupFails(s) \/ LoopFails(s)
Fabric(s)  == Deliver(s) \/ Acknowledge(s) \/ RetryExceeded(s)

(* Nothing more happens: each process has ended or waits for ever.         *)
Next == \E s \in Sides : Program(s) \/ Dies(s) \/ Fabric(s)

Spec == Init /\ [][Next]_vars

(* A process that can go on does, and the HCA serves a queue pair for as   *)
(* long as it exists.  A fault is never obliged to happen, except that a   *)
(* client whose peer is not there is refused.                              *)
Fairness ==
  \A s \in Sides : WF_vars(Program(s)) /\ WF_vars(Fabric(s))

FairSpec == Spec /\ Fairness
-----------------------------------------------------------------------------
(* Every variable holds a value the code can store in it.                  *)
TypeOK ==
  /\ opt \in [event : [Sides -> BOOLEAN], depth : RxDepths, faulty : BOOLEAN]
  /\ pc \in [Sides -> SettingUp \cup Looping \cup {"close"} \cup Exits]
  /\ held \in [Sides -> SUBSET Things]
  /\ sock \in [Sides -> {"none", "open", "closed"}]
  /\ listening \in BOOLEAN
  /\ inbox \in [Sides -> Seq({"addr", "done"})]
  /\ pending \in [Sides -> SUBSET {Recv, Send}]
  /\ routs \in [Sides -> Nat] /\ rcnt \in [Sides -> Nat] /\ scnt \in [Sides -> Nat]
  /\ wc \in [Sides -> Seq(Completions)]
  /\ cq \in [Sides -> Seq(Completions)]
  /\ got \in [Sides -> Nat] /\ events \in [Sides -> Nat] /\ acked \in [Sides -> Nat]
  /\ qp \in [Sides -> {"none", "init", "ready", "gone"}]
  /\ rq \in [Sides -> Nat]
  /\ sq \in [Sides -> {"idle", "wire", "arrived"}]
  /\ armed \in [Sides -> BOOLEAN]

(* The TCP exchange orders the set-up of the two queue pairs: no message   *)
(* is under way before the peer's queue pair is connected (line 283 comes  *)
(* before line 293, line 700 after line 689), whatever fails and whoever is *)
(* slow, and one that is under way finds a receive posted (line 770).      *)
NeverEarly ==
  \A s \in Sides : sq[s] = "wire" =>
    /\ qp[Peer(s)] \in {"ready", "gone"}
    /\ qp[Peer(s)] = "ready" /\ pc[Peer(s)] # "close" => rq[Peer(s)] > 0

(* No wake-up is lost: a process that sleeps in ibv_get_cq_event (line 725) *)
(* has no completion to handle, and the next one raises an event.  The     *)
(* request at line 737 precedes the poll at line 748, and one poll takes   *)
(* all that is there.                                                      *)
NoLostWakeup ==
  \A s \in Sides :
    AtLoopTest(s) /\ LoopGoesOn(s) /\ opt.event[s] /\ events[s] = 0 =>
      cq[s] = <<>> /\ armed[s]

(* The loop's count of receives is the HCA's plus the completions it has   *)
(* not handled; there are never more completions than the two that wc      *)
(* holds and the rx_depth + 1 that the queue holds, nor more than one event *)
(* that is not taken; no post is refused.                                  *)
Balance ==
  \A s \in Sides :
    /\ pc[s] \in Looping =>
         routs[s] = rq[s] + Cardinality(Waiting(s, Recv))
                      + Cardinality({i \in DOMAIN wc[s] : wc[s][i].op = Recv})
    /\ Len(cq[s]) <= 2 /\ Len(cq[s]) <= opt.depth[s] + 1
    /\ events[s] <= 1
    /\ pc[s] = "loopFailed" => opt.faulty

(* The loop of the example implements the rally of a single queue pair,    *)
(* whether it polls or sleeps and whatever its peer does.                  *)
Started(s) == pc[s] \in Looping \cup {"close", "exit0", "loopFailed", "closeFailed"}
Has(s)     == IF Started(s) THEN Recv \notin pending[s] ELSE s = "client"
Landed(s)  == Recv \in {wc[s][i].op : i \in DOMAIN wc[s]} \cup {cq[s][i].op : i \in DOMAIN cq[s]}
Ball ==
  CASE Has("client")         -> "atClient"
    [] Has("server")         -> "atServer"
    [] sq["client"] = "wire" -> "toServer"
    [] sq["server"] = "wire" -> "toClient"
    [] Landed("client")      -> "toClient"
    [] Landed("server")      -> "toServer"
    [] OTHER                 -> "lost"

Abstract == INSTANCE Rally WITH
              QPs       <- {"qp"},
              Faulty    <- Sides,
              Impatient <- FALSE,
              ball      <- [q \in {"qp"} |-> Ball],
              caught    <- rcnt,
              state     <- [s \in Sides |->
                              CASE pc[s] \in {"close", "exit0", "closeFailed"} -> "done"
                                [] pc[s] \in {"setupFailed", "loopFailed"} -> "failed"
                                [] OTHER -> "playing"]
ImplementsRally == Abstract!Spec

(* Without a fault both processes count their iters messages, give back    *)
(* all they have allocated in an order the verbs accept, and return 0.     *)
Finishes ==
  ~opt.faulty =>
    <>[](\A s \in Sides : pc[s] = "exit0" /\ held[s] = {} /\ rcnt[s] = Iters /\ scnt[s] = Iters)

(* Whatever fails, a process is not left anywhere in the exchange once it  *)
(* is connected, nor with a send outstanding: it ends, or the server waits *)
(* in accept for a client that has not connected (line 262), or a loop     *)
(* waits for a message of a peer that is gone (lines 725 and 748).         *)
WaitsForClient(s) == s = "server" /\ pc[s] = "accept" /\ sock["client"] = "none"
WaitsForMessage(s) ==
  AtLoopTest(s) /\ cq[s] = <<>> /\ sq[s] = "idle" /\ qp[Peer(s)] = "gone"
LeavesOrWaits ==
  <>[](\A s \in Sides : ~Running(s) \/ WaitsForClient(s) \/ WaitsForMessage(s))
=============================================================================
