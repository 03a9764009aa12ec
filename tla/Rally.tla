-------------------------------- MODULE Rally --------------------------------
(***************************************************************************)
(* What the measurement of multistreamTestRunner.c promises, without       *)
(* completion queues, posted receives, pending bits or batches: on every   *)
(* queue pair one message goes back and forth between the two sides, and   *)
(* a side stops in the regular way only when the exchange of iters         *)
(* messages in each direction can no longer fail to complete.              *)
(***************************************************************************)
EXTENDS Integers, FiniteSets

CONSTANTS
  QPs,     (* the queue pairs                                               *)
  Iters,   (* the messages each side is to take in                          *)
  Faulty,  (* the sides whose own completion queue may report an error      *)
  Impatient (* may a send fail although the other side left in the regular   *)
           (* way?                                                          *)

VARIABLES
  ball,     (* where the message of each queue pair is                      *)
  caught,   (* messages taken in by each side                               *)
  state     (* of each side: "playing", "done" or "failed"                 *)

vars == <<ball, caught, state>>

Sides    == {"client", "server"}
Other(s) == IF s = "client" THEN "server" ELSE "client"

At(s) == IF s = "client" THEN "atClient" ELSE "atServer"
To(s) == IF s = "client" THEN "toClient" ELSE "toServer"

Init ==
  /\ ball = [q \in QPs |-> At("client")]
  /\ caught = [s \in Sides |-> 0]
  /\ state = [s \in Sides |-> "playing"]

(* The client opens the rally on every queue pair.                         *)
Serve ==
  /\ state["client"] = "playing"
  /\ ball = [q \in QPs |-> At("client")]
  /\ ball' = [q \in QPs |-> To("server")]
  /\ UNCHANGED <<caught, state>>

Hit(s, q) ==
  /\ state[s] = "playing"
  /\ ball[q] = At(s)
  /\ ball' = [ball EXCEPT ![q] = To(Other(s))]
  /\ UNCHANGED <<caught, state>>

(* Side s takes the message in, and keeps it or sends it back at once.     *)
Catch(s, q) ==
  /\ state[s] = "playing"
  /\ ball[q] = To(s)
  /\ \E place \in {At(s), To(Other(s))} : ball' = [ball EXCEPT ![q] = place]
  /\ caught' = [caught EXCEPT ![s] = @ + 1]
  /\ UNCHANGED state

(* A message is lost only on its way to a side that has left.              *)
Lose(s, q) ==
  /\ state[s] # "playing"
  /\ ball[q] = To(s)
  /\ ball' = [ball EXCEPT ![q] = "lost"]
  /\ UNCHANGED <<caught, state>>

(* A side leaves when it has taken in iters messages and the other side    *)
(* has, or is certain to.                                                  *)
Leave(s) ==
  /\ state[s] = "playing"
  /\ caught[s] >= Iters
  /\ caught[Other(s)] + Cardinality({q \in QPs : ball[q] = To(Other(s))}) >= Iters
  /\ state' = [state EXCEPT ![s] = "done"]
  /\ UNCHANGED <<ball, caught>>

(* A side fails on an error of its own, or on a send to a side that has    *)
(* left.                                                                   *)
Quit(s) ==
  /\ state[s] = "playing"
  /\ s \in Faulty \/ state[Other(s)] = "failed" \/ (Impatient /\ state[Other(s)] = "done")
  /\ state' = [state EXCEPT ![s] = "failed"]
  /\ UNCHANGED <<ball, caught>>

Next ==
  \/ Serve
  \/ \E s \in Sides, q \in QPs : Hit(s, q) \/ Catch(s, q) \/ Lose(s, q)
  \/ \E s \in Sides : Leave(s) \/ Quit(s)

Spec == Init /\ [][Next]_vars
=============================================================================
