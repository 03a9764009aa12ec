---------------------------- MODULE RoundsProofs ----------------------------
(***************************************************************************)
(* Client and server of Rounds never measure different rounds with each    *)
(* other, for any number of sizes and queue pairs.                         *)
(***************************************************************************)
EXTENDS Rounds, TLAPS

(* Where the client can be, seen from the round of the server.             *)
Behind == cpc = "join" /\ conn = "accepted" /\ Following(cround) = sround
Coming == cpc = "connect" \/ (cpc = "join" /\ conn = "queued")
Here   == cround = sround /\ Coming
Served == cpc = "join" /\ conn = "accepted" /\ cround = sround
Ahead  == cround = Following(sround) /\ Coming
Lost   == cpc = "join" /\ conn = "reset"

(* The server can accept only in a round it entered with the port free,    *)
(* that is from a round in which it had served the client, or the first.   *)
InStep ==
  /\ conn = "queued" => bound /\ cpc = "join"
  /\ spc = "accept" => bound
  /\ (spc = "listen" /\ ~bound) \/ (spc = "accept" /\ sock)
       => Behind \/ Here \/ Lost \/ ClientEnded
  /\ spc \in {"close", "join"}
       => peer = sround /\ (Served \/ Ahead \/ Lost \/ ClientEnded)

IInv == TypeOK /\ InStep

USE DEF ClientEnded, ServerEnded, Behind, Coming, Here, Served, Ahead, Lost

LEMMA SizesInNat ==
  Sizes \in Nat \ {0} /\ Peers \in Nat \ {0} /\ Attempts \in Nat \ {0}
BY SizesAssumption, AttemptsAssumption

LEMMA FollowingInRounds ==
  ASSUME NEW r \in Rounds, r # Last
  PROVE  Following(r) \in Rounds
BY SizesInNat DEF Rounds, Last, Following

LEMMA NextSizeInRounds ==
  ASSUME NEW r \in Rounds, r[1] < Sizes
  PROVE  <<r[1] + 1, 1>> \in Rounds
BY SizesInNat DEF Rounds

LEMMA InitIInv == Init => IInv
<1> SUFFICES ASSUME Init PROVE IInv
  OBVIOUS
<1>1. <<1, 1>> \in Rounds
  BY SizesInNat DEF Rounds
<1>2. TypeOK
  <2>1. tries \in 0..(Attempts - 1)
    BY SizesInNat DEF Init
  <2>2. cround \in Rounds /\ sround \in Rounds /\ peer \in Rounds \cup {NoRound}
    BY <1>1 DEF Init
  <2> QED
    BY <2>1, <2>2 DEF Init, TypeOK
<1>3. InStep
  BY DEF Init, InStep
<1> QED
  BY <1>2, <1>3 DEF IInv

-----------------------------------------------------------------------------
(* The types.                                                              *)

LEMMA ServerTypes == TypeOK /\ Step(Server \/ ServerWorkerEnds) => TypeOK'
<1> SUFFICES ASSUME TypeOK, Server \/ ServerWorkerEnds, faults' = faults PROVE TypeOK'
  BY DEF Step
<1> USE DEF TypeOK, clientVars, Reset
<1>1. CASE Listen
  BY <1>1 DEF Listen
<1>2. CASE Accept
  BY <1>2 DEF Accept
<1>3. CASE AcceptFail
  <2>1. UNCHANGED <<cpc, cround, tries, sock, peer, sworker>>
    BY <1>3 DEF AcceptFail
  <2>2. CASE sround[1] < Sizes
    <3>1. sround' \in Rounds
      BY <1>3, <2>2, NextSizeInRounds DEF AcceptFail, BreakOut
    <3> QED
      BY <1>3, <2>1, <2>2, <3>1 DEF AcceptFail, BreakOut
  <2>3. CASE ~(sround[1] < Sizes)
    BY <1>3, <2>1, <2>3 DEF AcceptFail, BreakOut
  <2> QED
    BY <2>2, <2>3
<1>4. CASE CloseListener
  BY <1>4 DEF CloseListener
<1>5. CASE ServerJoin
  <2>1. CASE sround = Last
    BY <1>5, <2>1 DEF ServerJoin
  <2>2. CASE sround # Last
    BY <1>5, <2>2, FollowingInRounds DEF ServerJoin
  <2> QED
    BY <2>1, <2>2
<1>6. CASE ServerWorkerEnds
  BY <1>6 DEF ServerWorkerEnds
<1> QED
  BY <1>1, <1>2, <1>3, <1>4, <1>5, <1>6 DEF Server

LEMMA ClientTypes == TypeOK /\ Step(Client) => TypeOK'
<1> SUFFICES ASSUME TypeOK, Client, faults' = faults PROVE TypeOK'
  BY DEF Step
<1> USE SizesInNat DEF TypeOK, serverVars
<1>1. CASE Connect
  BY <1>1 DEF Connect
<1>2. CASE Refused
  BY <1>2 DEF Refused
<1>3. CASE ClientJoin
  <2>1. CASE cround = Last
    BY <1>3, <2>1 DEF ClientJoin
  <2>2. CASE cround # Last
    BY <1>3, <2>2, FollowingInRounds DEF ClientJoin
  <2> QED
    BY <2>1, <2>2
<1>4. CASE ClientCrash
  BY <1>4 DEF ClientCrash
<1> QED
  BY <1>1, <1>2, <1>3, <1>4 DEF Client

-----------------------------------------------------------------------------
(* Client and server stay in step.                                         *)

LEMMA ServerInStep == TypeOK /\ InStep /\ (Server \/ ServerWorkerEnds) => InStep'
<1> SUFFICES ASSUME TypeOK, InStep, Server \/ ServerWorkerEnds PROVE InStep'
  OBVIOUS
<1> USE DEF InStep, clientVars, Reset
<1>1. CASE Listen
  BY <1>1 DEF Listen, TypeOK
<1>2. CASE Accept
  BY <1>2 DEF Accept
<1>3. CASE AcceptFail
  BY <1>3 DEF AcceptFail, BreakOut
<1>4. CASE CloseListener
  BY <1>4 DEF CloseListener
<1>5. CASE ServerJoin
  BY <1>5 DEF ServerJoin
<1>6. CASE ServerWorkerEnds
  BY <1>6 DEF ServerWorkerEnds
<1> QED
  BY <1>1, <1>2, <1>3, <1>4, <1>5, <1>6 DEF Server

LEMMA ClientInStep == TypeOK /\ InStep /\ Client => InStep'
<1> SUFFICES ASSUME TypeOK, InStep, Client PROVE InStep'
  OBVIOUS
<1> USE DEF InStep, serverVars
<1>1. CASE Connect
  BY <1>1 DEF Connect
<1>2. CASE Refused
  BY <1>2 DEF Refused
<1>3. CASE ClientJoin
  <2>1. CASE cround = Last
    BY <1>3, <2>1 DEF ClientJoin
  <2>2. CASE cround # Last
    BY <1>3, <2>2 DEF ClientJoin
  <2> QED
    BY <2>1, <2>2
<1>4. CASE ClientCrash
  BY <1>4 DEF ClientCrash
<1> QED
  BY <1>1, <1>2, <1>3, <1>4 DEF Client

LEMMA StutterKeeps == IInv /\ UNCHANGED vars => IInv'
BY DEF IInv, TypeOK, InStep, vars, clientVars, serverVars

LEMMA NextKeeps == IInv /\ [Next]_vars => IInv'
<1> SUFFICES ASSUME IInv, [Next]_vars PROVE IInv'
  OBVIOUS
<1>1. CASE Step(Server \/ ServerWorkerEnds)
  BY <1>1, ServerTypes, ServerInStep DEF IInv, Step
<1>2. CASE Step(Client)
  BY <1>2, ClientTypes, ClientInStep DEF IInv, Step
<1>3. CASE UNCHANGED vars
  BY <1>3, StutterKeeps
<1> QED
  BY <1>1, <1>2, <1>3 DEF Next, Finished, Step

LEMMA Inductive == Spec => []IInv
BY InitIInv, NextKeeps, PTL DEF Spec

-----------------------------------------------------------------------------
(* Rounds, attempts and the states of both mains keep their ranges.        *)
THEOREM TypeCorrect == Spec => []TypeOK
<1>1. IInv => TypeOK
  BY DEF IInv
<1> QED
  BY Inductive, <1>1, PTL

(* When the server has accepted, its client is in the same round, whatever *)
(* failed before: the loops of multistreamTestRunner.c:896-900 run apart   *)
(* on both sides and nothing but the connection ties them together.        *)
THEOREM RoundsMatch == Spec => []SameRound
<1>1. IInv => SameRound
  BY DEF IInv, InStep, SameRound
<1> QED
  BY Inductive, <1>1, PTL
=============================================================================
