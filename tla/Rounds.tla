------------------------------- MODULE Rounds -------------------------------
(***************************************************************************)
(* The rounds of multistreamTestRunner.c: main of the client and main of   *)
(* the server walk through the same message sizes and numbers of queue     *)
(* pairs, meet on one TCP port for every round and hand the connection to  *)
(* a worker thread.  The workers are modules AddrExchange and PingPong;    *)
(* here a worker on an accepted connection succeeds, and a worker whose    *)
(* connection is reset makes main dereference the pointer 1.               *)
(***************************************************************************)
EXTENDS Integers

CONSTANTS
  Sizes,        (* number of message sizes                                  *)
  Peers,        (* peerNum, the largest number of queue pairs               *)
  Attempts,     (* connects the client makes before it gives up             *)
  Faults        (* what may happen in an execution, see faults              *)

ASSUME SizesAssumption    == Sizes \in Nat \ {0} /\ Peers \in Nat \ {0}
ASSUME AttemptsAssumption == Attempts \in Nat \ {0}
ASSUME FaultsAssumption   == Faults \subseteq {"slow", "late", "accept"}

VARIABLES
  cpc, spc,     (* where main of the client and of the server is            *)
  cround,       (* the round of the client: <<size, queue pairs>>           *)
  sround,       (* the round of the server                                  *)
  tries,        (* connects refused in this round                           *)
  bound,        (* is a listening socket bound to the port?                 *)
  sock,         (* is sockfd of the server a socket?                        *)
  conn,         (* the client's connection                                  *)
  peer,         (* the round of the client the server accepted last         *)
  sworker,      (* the worker of the server                                 *)
  faults        (* what may happen in this execution: a round of the server *)
                (* outlasts all attempts of the client (slow), the client   *)
                (* finishes a whole round before the server closes the      *)
                (* listening socket of that round (late), accept fails      *)

clientVars == <<cpc, cround, tries>>
serverVars == <<spc, sround, sock, peer, sworker>>
vars       == <<clientVars, serverVars, bound, conn, faults>>

Rounds    == (1..Sizes) \X (1..Peers)
NoRound   == <<0, 0>>
Last      == <<Sizes, Peers>>
Following(r) == IF r[2] < Peers THEN <<r[1], r[2] + 1>> ELSE <<r[1] + 1, 1>>

ClientEnded == cpc \in {"done", "failed"}
ServerEnded == spc = "done"

Init ==
  /\ cpc = "connect" /\ spc = "listen"
  /\ cround = <<1, 1>> /\ sround = <<1, 1>>
  /\ tries = 0
  /\ bound = FALSE /\ sock = FALSE
  /\ conn = "none"
  /\ peer = NoRound
  /\ sworker = "idle"
  /\ faults \in SUBSET Faults

(* A connection that waits in the backlog of a socket that is closed is    *)
(* reset.                                                                  *)
Reset(c) == IF c = "queued" THEN "reset" ELSE c

-----------------------------------------------------------------------------
(* The server.                                                             *)

(* createServerConnection: socket, bind, listen.  The bind fails while     *)
(* another socket listens on the port; sockfd is -1 then and nobody looks. *)
Listen ==
  /\ spc = "listen"
  /\ sock' = ~bound
  /\ bound' = TRUE
  /\ spc' = "accept"
  /\ UNCHANGED <<clientVars, sround, peer, sworker, conn>>

(* accept, and the worker thread of the round.                             *)
Accept ==
  /\ spc = "accept" /\ sock
  /\ conn = "queued"
  /\ conn' = "accepted"
  /\ peer' = cround
  /\ sworker' = "run"
  /\ spc' = "close"
  /\ UNCHANGED <<clientVars, sround, sock, bound>>

(* A failed accept breaks out of the loop over the queue pairs: main goes  *)
(* on with the next size and leaves the listening socket open.  When all   *)
(* sizes are through, main returns and the kernel closes every socket.     *)
BreakOut(r) ==
  IF r[1] < Sizes
    THEN /\ sround' = <<r[1] + 1, 1>>
         /\ spc' = "listen"
         /\ UNCHANGED <<bound, conn>>
    ELSE /\ spc' = "done"
         /\ bound' = FALSE
         /\ conn' = Reset(conn)
         /\ UNCHANGED sround

(* Mutant: the listening socket is closed before the loop is left.         *)
AcceptFailMutant ==
  /\ spc = "accept"
  /\ ~sock \/ "accept" \in faults
  /\ bound' = FALSE
  /\ conn' = Reset(conn)
  /\ IF sround[1] < Sizes
       THEN sround' = <<sround[1] + 1, 1>> /\ spc' = "listen"
       ELSE UNCHANGED sround /\ spc' = "done"
  /\ UNCHANGED <<clientVars, sock, peer, sworker>>

AcceptFail ==
  /\ spc = "accept"
  /\ ~sock \/ "accept" \in faults
  /\ BreakOut(sround)
  /\ UNCHANGED <<clientVars, sock, peer, sworker>>

(* Mutant: the listening socket stays open during the round.               *)
CloseListenerMutant ==
  /\ spc = "close"
  /\ spc' = "join"
  /\ UNCHANGED <<clientVars, sround, sock, peer, sworker, bound, conn>>

CloseListener ==
  /\ spc = "close"
  /\ bound' = FALSE
  /\ conn' = Reset(conn)
  /\ spc' = "join"
  /\ UNCHANGED <<clientVars, sround, sock, peer, sworker>>

ServerWorkerEnds ==
  /\ sworker = "run"
  /\ sworker' = "idle"
  /\ UNCHANGED <<clientVars, spc, sround, sock, peer, bound, conn>>

(* pthread_join, the results, the next round.                              *)
ServerJoin ==
  /\ spc = "join" /\ sworker = "idle"
  /\ IF sround = Last
       THEN /\ spc' = "done"
            /\ bound' = FALSE
            /\ conn' = Reset(conn)
            /\ UNCHANGED sround
       ELSE /\ spc' = "listen"
            /\ sround' = Following(sround)
            /\ UNCHANGED <<bound, conn>>
  /\ UNCHANGED <<clientVars, sock, peer, sworker>>

-----------------------------------------------------------------------------
(* The client.                                                             *)

(* createClientSocketConnection: a connect succeeds as soon as the kernel  *)
(* of the server completes the handshake, before any accept.               *)
Connect ==
  /\ cpc = "connect" /\ bound
  /\ "late" \in faults \/ spc # "close"
  /\ conn' = "queued"
  /\ tries' = 0
  /\ cpc' = "join"
  /\ UNCHANGED <<cround, serverVars, bound>>

(* Mutants: one attempt too many; no count of the attempts.                *)
RefusedMutantMore ==
  /\ cpc = "connect" /\ ~bound
  /\ IF tries < Attempts
       THEN tries' = tries + 1 /\ UNCHANGED cpc
       ELSE cpc' = "failed" /\ UNCHANGED tries
  /\ UNCHANGED <<cround, serverVars, bound, conn>>

RefusedMutantForever ==
  /\ cpc = "connect" /\ ~bound
  /\ UNCHANGED vars

(* A refused connect is tried again after 1, 2, 4 ... 64 seconds.          *)
Refused ==
  /\ cpc = "connect" /\ ~bound
  /\ IF tries + 1 < Attempts
       THEN tries' = tries + 1 /\ UNCHANGED cpc
       ELSE /\ "slow" \in faults \/ ServerEnded
            /\ cpc' = "failed" /\ UNCHANGED tries
  /\ UNCHANGED <<cround, serverVars, bound, conn>>

(* The worker has measured, main takes its result and starts the next      *)
(* round.                                                                  *)
ClientJoin ==
  /\ cpc = "join" /\ conn = "accepted"
  /\ conn' = "none"
  /\ IF cround = Last
       THEN cpc' = "done" /\ UNCHANGED cround
       ELSE cpc' = "connect" /\ cround' = Following(cround)
  /\ UNCHANGED <<tries, serverVars, bound>>

(* The worker cannot exchange addresses, main dereferences what it         *)
(* returned.                                                               *)
ClientCrash ==
  /\ cpc = "join" /\ conn = "reset"
  /\ cpc' = "failed"
  /\ UNCHANGED <<cround, tries, serverVars, bound, conn>>

-----------------------------------------------------------------------------
Server == Listen \/ Accept \/ AcceptFail \/ CloseListener \/ ServerJoin
Client == Connect \/ Refused \/ ClientJoin \/ ClientCrash

Finished ==
  /\ ClientEnded
  /\ ServerEnded \/ spc = "accept"
  /\ UNCHANGED vars

Step(action) == action /\ UNCHANGED faults

Next == Step(Server) \/ Step(ServerWorkerEnds) \/ Step(Client) \/ Finished

Spec == Init /\ [][Next]_vars

(* Both processes and the worker are scheduled.                            *)
FairSpec ==
  Spec /\ WF_vars(Step(Server)) /\ WF_vars(Step(ServerWorkerEnds)) /\ WF_vars(Step(Client))

-----------------------------------------------------------------------------
(* What the rounds are to guarantee.                                       *)

(* Every variable holds a value the code can store in it.                  *)
TypeOK ==
  /\ cpc \in {"connect", "join", "done", "failed"}
  /\ spc \in {"listen", "accept", "close", "join", "done"}
  /\ cround \in Rounds /\ sround \in Rounds
  /\ tries \in 0..(Attempts - 1)
  /\ bound \in BOOLEAN /\ sock \in BOOLEAN
  /\ conn \in {"none", "queued", "accepted", "reset"}
  /\ peer \in Rounds \cup {NoRound}
  /\ sworker \in {"idle", "run"}
  /\ faults \subseteq Faults

(* Two workers never measure different rounds, with messages of different  *)
(* sizes or another number of queue pairs, although the mains do not tell  *)
(* each other where they are: after a failed accept the socket that line   *)
(* 924 leaves open keeps the server from ever accepting again.             *)
SameRound == spc \in {"close", "join"} => peer = sround

(* However the server fares, the client ends: it finishes or fails.        *)
ClientEnds == <>ClientEnded

(* When accept works, the server is in time and closes its socket before   *)
(* the client is through with the round, both go through all rounds.       *)
AllRounds == faults = {} => <>[](cpc = "done" /\ spc = "done")

(* The rounds come to an end, and to the right one if nothing interferes.  *)
RoundsEnd == ClientEnds /\ AllRounds
=============================================================================
