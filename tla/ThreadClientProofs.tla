------------------------- MODULE ThreadClientProofs -------------------------
(***************************************************************************)
(* Proofs about ThreadClient, for all sizes, numbers of threads and of     *)
(* messages, with a server that may be stopped at any moment.  What is     *)
(* proved of even shares holds in every round whose shares are even,       *)
(* whatever the rounds before it were.                                     *)
(***************************************************************************)
EXTENDS ThreadClient, TLAPS

-----------------------------------------------------------------------------
(* The inductive invariant.                                                *)

Share == SizeOf(0)
Cores == 0..(coreCount - 1)

(* The structure is filled before there is a thread that could read it.    *)
Filled ==
  /\ mpc \in {"message", "start"} => j < coreCount /\ data.msgSize # None
  /\ mpc = "start" => data.msg # None
  /\ j <= coreCount
  /\ \A t \in Threads :
       /\ th[t].pc # "none" => t \in Cores /\ data.msgSize # None /\ data.msg # None
       /\ th[t].pc # "ended" => th[t].i < Messages

(* It then holds the one share there is, with whichever message; a thread  *)
(* waits for this share, has sent it in full, and leaves no byte behind.   *)
StructureFits ==
  /\ mpc \in {"message", "start"} => data.msgSize = Share
  /\ mpc = "start" => data.msg \in Cores
  /\ \A t \in Threads : th[t].pc # "none" => data.msgSize = Share /\ data.msg \in Cores
Loaded(r) ==
  /\ r.msg \in Cores \cup {None} /\ r.len \in {Share, None}
  /\ r.pc \in {"connect", "args", "receive", "ended"} => r.msgSize = Share
UnderWay(r, u, d) ==
  /\ r.pc \in {"args", "ended"} => u = 0 /\ d = 0
  /\ r.pc = "receive" => u + d + r.bytesRead <= Share
                        /\ (serverUp => u + d + r.bytesRead = Share)
ThreadFits(t) == Loaded(th[t]) /\ UnderWay(th[t], up[t], down[t])
Even == StructureFits /\ \A t \in Threads : ThreadFits(t)

Drained == ~serverUp => \A t \in Threads : up[t] = 0

IInv == TypeOK /\ Filled /\ Drained /\ (EvenShares => Even)

-----------------------------------------------------------------------------
(* Shares.                                                                 *)

LEMMA Constants ==
  /\ MinSize \in Nat \ {0} /\ MaxSize \in Nat \ {0} /\ MaxCore \in Nat \ {0}
  /\ Messages \in Nat \ {0} /\ MinSize <= MaxSize
BY SizesAssumption

LEMMA Division ==
  ASSUME NEW m \in Nat, NEW c \in Nat \ {0}
  PROVE  /\ m \div c \in Nat /\ m % c \in 0..(c - 1)
         /\ m = c * (m \div c) + (m % c)
OBVIOUS

(* Every thread has at least one byte and at most the whole message.       *)
LEMMA ShareBounds ==
  ASSUME TypeOK, NEW t \in Nat PROVE SizeOf(t) \in 1..MaxSize
<1>1. msgSize \in Nat \ {0} /\ coreCount \in Nat \ {0} /\ msgSize <= MaxSize
  BY Constants DEF TypeOK
<1> DEFINE q == msgSize \div coreCount
           r == msgSize % coreCount
<1>2. q \in Nat /\ r \in 0..(coreCount - 1) /\ msgSize = coreCount * q + r
  BY <1>1, Division
<1>3. CASE msgSize < coreCount
  BY <1>1, <1>3, Constants DEF SizeOf
<1>4. CASE ~(msgSize < coreCount)
  <2>1. q >= 1
    <3> SUFFICES ASSUME q = 0 PROVE FALSE
      BY <1>2
    <3>1. coreCount * q = 0
      BY <1>1
    <3> QED
      BY <1>1, <1>2, <1>4, <3>1
  <2>2. q <= coreCount * q /\ coreCount * q \in Nat
    <3> HIDE DEF q
    <3>1. coreCount = 1 + (coreCount - 1) /\ coreCount - 1 \in Nat
      BY <1>1
    <3>2. coreCount * q = q + (coreCount - 1) * q
      BY <1>1, <1>2, <3>1
    <3>3. (coreCount - 1) * q \in Nat
      BY <1>2, <3>1
    <3> QED
      BY <1>2, <3>2, <3>3
  <2>3. q + r <= msgSize
    BY <1>2, <2>2
  <2>4. SizeOf(t) = IF t = 0 THEN q + r ELSE q + 0
    BY <1>4 DEF SizeOf
  <2> HIDE DEF q, r
  <2> QED
    BY <1>1, <1>2, <2>1, <2>3, <2>4, Constants
<1> QED
  BY <1>3, <1>4

(* Even shares are all the same, and every message has room for one.       *)
LEMMA EvenSplit ==
  ASSUME TypeOK, EvenShares, NEW t \in Cores
  PROVE  SizeOf(t) = Share /\ Share <= Allocated(t)
<1>1. msgSize \in Nat \ {0} /\ coreCount \in Nat \ {0} /\ t \in Nat
  BY Constants DEF TypeOK, Cores
<1>2. SizeOf(t) = Share /\ Share \in Nat
  BY <1>1, ShareBounds DEF EvenShares, Cores, Share
<1>3. CASE msgSize < coreCount /\ t # 0
  BY <1>2, <1>3 DEF Allocated, SizeOf
<1>4. CASE ~(msgSize < coreCount /\ t # 0)
  <2>1. Allocated(t) = SizeOf(t) + 1
    BY <1>4 DEF Allocated
  <2> QED
    BY <1>2, <2>1
<1> QED
  BY <1>3, <1>4

-----------------------------------------------------------------------------
(* Steps of main.                                                          *)

LEMMA InitIInv == Init => IInv
<1> SUFFICES ASSUME Init PROVE IInv
  OBVIOUS
<1>1. TypeOK
  BY Constants DEF Init, TypeOK, Idle, Threads, None
<1>2. Filled /\ Drained
  BY Constants DEF Init, Filled, Drained, Idle
<1>3. Even
  BY DEF Init, Even, StructureFits, ThreadFits, Loaded, UnderWay, Idle
<1> QED
  BY <1>1, <1>2, <1>3 DEF IInv

LEMMA SetSizeIInv == ASSUME IInv, SetSize PROVE IInv'
<1>1. j \in Cores /\ j \in Nat /\ data' = [data EXCEPT !.msgSize = SizeOf(j)] /\ mpc' = "message"
      /\ UNCHANGED <<msgSize, coreCount, j, th, up, down, serverUp>>
  BY DEF IInv, TypeOK, SetSize, Cores
<1>2. SizeOf(j) \in 1..MaxSize
  BY <1>1, ShareBounds DEF IInv
<1>3. data'.msgSize = SizeOf(j) /\ data'.msg = data.msg
  BY <1>1 DEF IInv, TypeOK
<1>4. TypeOK'
  BY <1>1, <1>2 DEF IInv, TypeOK
<1>5. Filled'
  <2>1. j < coreCount /\ coreCount \in Nat /\ data'.msgSize # None
    BY <1>1, <1>2, <1>3 DEF IInv, TypeOK, SetSize, None
  <2>2. j' <= coreCount' /\ j' < coreCount'
    BY <1>1, <2>1
  <2>3. ASSUME NEW t \in Threads
        PROVE  /\ th'[t].pc # "none" => t \in Cores' /\ data'.msgSize # None /\ data'.msg # None
               /\ th'[t].pc # "ended" => th'[t].i < Messages
    BY <1>1, <1>3, <2>1 DEF IInv, Filled, Cores
  <2> QED
    BY <1>1, <2>1, <2>2, <2>3 DEF Filled
<1>6. Drained' /\ (EvenShares' <=> EvenShares) /\ Share' = Share /\ Cores' = Cores
  BY <1>1 DEF IInv, Drained, EvenShares, Share, Cores, SizeOf
<1>7. ASSUME EvenShares PROVE Even'
  <2>1. data'.msgSize = Share
    BY <1>1, <1>3, <1>7, EvenSplit DEF IInv
  <2> QED
    BY <1>1, <1>3, <1>6, <1>7, <2>1 DEF IInv, Even, StructureFits, ThreadFits, Loaded, UnderWay
<1> QED
  BY <1>4, <1>5, <1>6, <1>7 DEF IInv

LEMMA SetMessageIInv == ASSUME IInv, SetMessage PROVE IInv'
<1>1. j \in Cores /\ j \in Threads /\ data' = [data EXCEPT !.msg = j] /\ mpc = "message" /\ mpc' = "start"
      /\ UNCHANGED <<msgSize, coreCount, j, th, up, down, serverUp>>
  <2>1. mpc = "message" /\ j < coreCount
    BY DEF IInv, Filled, SetMessage
  <2>2. j \in Nat /\ coreCount \in 1..MaxCore
    BY DEF IInv, TypeOK
  <2> QED
    BY <2>1, <2>2, Constants DEF SetMessage, Cores, Threads
<1>2. data'.msgSize = data.msgSize /\ data'.msg = j
  BY <1>1 DEF IInv, TypeOK
<1>3. TypeOK'
  BY <1>1 DEF IInv, TypeOK
<1>4. Filled'
  <2>1. j < coreCount /\ j <= coreCount /\ data.msgSize # None
    BY <1>1 DEF IInv, Filled
  <2>2. j # None
    BY <1>1 DEF Threads, None
  <2>3. ASSUME NEW t \in Threads
        PROVE  /\ th'[t].pc # "none" => t \in Cores' /\ data'.msgSize # None /\ data'.msg # None
               /\ th'[t].pc # "ended" => th'[t].i < Messages
    BY <1>1, <1>2, <2>2 DEF IInv, Filled, Cores
  <2> QED
    BY <1>1, <1>2, <2>1, <2>2, <2>3 DEF Filled
<1>5. Drained' /\ (EvenShares' <=> EvenShares) /\ Share' = Share /\ Cores' = Cores
  BY <1>1 DEF IInv, Drained, EvenShares, Share, Cores, SizeOf
<1>6. ASSUME EvenShares PROVE Even'
  BY <1>1, <1>2, <1>5, <1>6 DEF IInv, Even, StructureFits, ThreadFits, Loaded, UnderWay
<1> QED
  BY <1>3, <1>4, <1>5, <1>6 DEF IInv

LEMMA CreateThreadIInv == ASSUME IInv, CreateThread PROVE IInv'
<1> DEFINE new == [Idle EXCEPT !.pc = "size"]
<1>1. j \in Cores /\ j \in Threads /\ th' = [th EXCEPT ![j] = new] /\ mpc = "start" /\ mpc' = "create"
      /\ j' = j + 1 /\ UNCHANGED <<msgSize, coreCount, data, up, down, serverUp>>
  <2>1. mpc = "start" /\ j < coreCount
    BY DEF IInv, Filled, CreateThread
  <2>2. j \in Nat /\ coreCount \in 1..MaxCore
    BY DEF IInv, TypeOK
  <2> QED
    BY <2>1, <2>2, Constants DEF CreateThread, Cores, Threads
<1>2. new = [pc |-> "size", msgSize |-> None, msg |-> None, len |-> None, i |-> 0, bytesRead |-> 0]
  BY DEF Idle
<1>3. th'[j] = new /\ \A t \in Threads : t # j => th'[t] = th[t]
  BY <1>1 DEF IInv, TypeOK
<1>4. TypeOK'
  <2>1. j' \in 0..MaxCore
    BY <1>1, Constants DEF IInv, TypeOK, Cores
  <2> QED
    BY <1>1, <1>2, <2>1, Constants DEF IInv, TypeOK
<1>5. Filled'
  <2>1. j' <= coreCount
    BY <1>1 DEF IInv, TypeOK, Cores
  <2>2. data.msgSize # None /\ data.msg # None
    BY <1>1 DEF IInv, Filled
  <2>3. ASSUME NEW t \in Threads
        PROVE  /\ th'[t].pc # "none" => t \in Cores /\ data.msgSize # None /\ data.msg # None
               /\ th'[t].pc # "ended" => th'[t].i < Messages
    BY <1>1, <1>2, <1>3, <2>2, Constants DEF IInv, Filled
  <2> QED
    BY <1>1, <2>1, <2>3 DEF Filled, Cores
<1>6. Drained' /\ (EvenShares' <=> EvenShares) /\ Share' = Share /\ Cores' = Cores
  BY <1>1 DEF IInv, Drained, EvenShares, Share, Cores, SizeOf
<1>7. ASSUME EvenShares PROVE Even'
  <2>1. data.msgSize = Share /\ data.msg \in Cores
    BY <1>1, <1>7 DEF IInv, Even, StructureFits
  <2>2. ASSUME NEW t \in Threads PROVE ThreadFits(t)'
    BY <1>1, <1>2, <1>3, <1>6, <1>7 DEF IInv, Even, ThreadFits, Loaded, UnderWay
  <2>3. StructureFits'
    BY <1>1, <1>6, <2>1 DEF StructureFits
  <2> QED
    BY <2>2, <2>3 DEF Even
<1> QED
  BY <1>4, <1>5, <1>6, <1>7 DEF IInv

LEMMA StartJoinIInv == ASSUME IInv, StartJoin PROVE IInv'
<1>1. mpc' = "join" /\ j' = 0 /\ UNCHANGED <<msgSize, coreCount, data, th, up, down, serverUp>>
  BY DEF StartJoin
<1>2. TypeOK'
  BY <1>1, Constants DEF IInv, TypeOK
<1>3. Filled' /\ Drained'
  BY <1>1 DEF IInv, TypeOK, Filled, Drained, Cores
<1>4. (EvenShares' <=> EvenShares) /\ Share' = Share /\ Cores' = Cores
  BY <1>1 DEF EvenShares, Share, Cores, SizeOf
<1>5. ASSUME EvenShares PROVE Even'
  BY <1>1, <1>4, <1>5 DEF IInv, Even, StructureFits, ThreadFits, Loaded, UnderWay
<1> QED
  BY <1>2, <1>3, <1>4, <1>5 DEF IInv

LEMMA JoinIInv == ASSUME IInv, Join PROVE IInv'
<1>1. /\ j < coreCount /\ j' = j + 1
      /\ UNCHANGED <<mpc, msgSize, coreCount, data, th, up, down, serverUp>> /\ mpc = "join"
  BY DEF Join
<1> QED
  BY <1>1, Constants DEF IInv, TypeOK, Filled, Drained, Even, StructureFits, ThreadFits, Loaded, UnderWay,
                         EvenShares, Share, Cores, SizeOf

(* A round begins without threads, so nothing need be known of its shares. *)
LEMMA NextRoundIInv == ASSUME IInv, NextRound PROVE IInv'
<1>1. /\ j' = 0 /\ mpc' \in {"create", "done"} /\ th' = [t \in Threads |-> Idle]
      /\ UNCHANGED <<data, up, down, serverUp>>
  BY DEF NextRound
<1>2. msgSize' \in MinSize..MaxSize /\ coreCount' \in 1..MaxCore
  <2>1. msgSize \in MinSize..MaxSize /\ coreCount \in 1..MaxCore
    BY DEF IInv, TypeOK
  <2>2. CASE 2 * coreCount <= MaxCore
    BY <2>1, <2>2, Constants DEF NextRound
  <2>3. CASE ~(2 * coreCount <= MaxCore) /\ 2 * msgSize <= MaxSize
    BY <2>1, <2>3, Constants DEF NextRound
  <2>4. CASE ~(2 * coreCount <= MaxCore) /\ ~(2 * msgSize <= MaxSize)
    BY <2>1, <2>4 DEF NextRound
  <2> QED
    BY <2>2, <2>3, <2>4
<1>3. \A t \in Threads :
        th'[t] = [pc |-> "none", msgSize |-> None, msg |-> None, len |-> None, i |-> 0, bytesRead |-> 0]
  BY <1>1 DEF Idle
<1>4. TypeOK'
  <2>1. th' \in [Threads -> [pc : {"none", "size", "connect", "args", "receive", "ended"},
                             msgSize : 1..MaxSize \cup {None},
                             msg : Threads \cup {None}, len : 1..MaxSize \cup {None},
                             i : 0..Messages, bytesRead : Nat]]
    BY <1>1, Constants DEF Idle
  <2> QED
    BY <1>1, <1>2, <2>1, Constants DEF IInv, TypeOK
<1>5. Filled' /\ Drained'
  BY <1>1, <1>2, <1>3, Constants DEF IInv, Filled, Drained
<1>6. Even'
  BY <1>1, <1>3 DEF Even, StructureFits, ThreadFits, Loaded, UnderWay
<1> QED
  BY <1>4, <1>5, <1>6 DEF IInv

-----------------------------------------------------------------------------
(* Steps of the threads and of the server.                                 *)

ThreadType == [pc : {"none", "size", "connect", "args", "receive", "ended"},
               msgSize : 1..MaxSize \cup {None},
               msg : Threads \cup {None}, len : 1..MaxSize \cup {None},
               i : 0..Messages, bytesRead : Nat]

(* What a step of one thread or one connection has to show.                *)
LEMMA OneThread ==
  ASSUME IInv, NEW t \in Threads, UNCHANGED <<mainVars, serverUp>>,
         NEW r \in ThreadType, th' = [th EXCEPT ![t] = r],
         NEW u \in Nat, up' = [up EXCEPT ![t] = u],
         NEW d \in Nat, down' = [down EXCEPT ![t] = d],
         r.pc # "none" <=> th[t].pc # "none", r.pc # "ended" => r.i < Messages,
         ~serverUp => u = 0,
         EvenShares => Loaded(r) /\ UnderWay(r, u, d)
  PROVE  IInv'
<1>1. th'[t] = r /\ up'[t] = u /\ down'[t] = d
      /\ \A s \in Threads : s # t => th'[s] = th[s] /\ up'[s] = up[s] /\ down'[s] = down[s]
  BY DEF IInv, TypeOK
<1>2. UNCHANGED <<mpc, msgSize, coreCount, j, data>>
  BY DEF mainVars
<1>3. TypeOK'
  <2>1. th \in [Threads -> ThreadType]
    BY DEF IInv, TypeOK, ThreadType
  <2>2. th' \in [Threads -> ThreadType] /\ up' \in [Threads -> Nat] /\ down' \in [Threads -> Nat]
    BY <2>1 DEF IInv, TypeOK
  <2> QED
    BY <1>2, <2>2 DEF IInv, TypeOK, ThreadType
<1>4. Filled'
  BY <1>1, <1>2 DEF IInv, Filled, Cores
<1>5. Drained' /\ (EvenShares' <=> EvenShares) /\ Share' = Share /\ Cores' = Cores
  BY <1>1, <1>2 DEF IInv, Drained, EvenShares, Share, Cores, SizeOf
<1>6. ASSUME EvenShares PROVE Even'
  <2>1. ASSUME NEW s \in Threads PROVE ThreadFits(s)'
    BY <1>1, <1>5, <1>6 DEF IInv, Even, ThreadFits, Loaded, UnderWay
  <2>2. StructureFits'
    BY <1>1, <1>2, <1>5, <1>6 DEF IInv, Even, StructureFits
  <2> QED
    BY <2>1, <2>2 DEF Even
<1> QED
  BY <1>3, <1>4, <1>5, <1>6 DEF IInv

LEMMA ThreadFacts ==
  ASSUME IInv, NEW t \in Threads
  PROVE  /\ th[t] \in ThreadType /\ up[t] \in Nat /\ down[t] \in Nat
         /\ th = [th EXCEPT ![t] = th[t]]
         /\ up = [up EXCEPT ![t] = up[t]] /\ down = [down EXCEPT ![t] = down[t]]
         /\ th[t].pc # "none" => /\ t \in Cores
                                 /\ data.msgSize \in 1..MaxSize /\ data.msg \in Threads
         /\ th[t].pc # "ended" => th[t].i < Messages
         /\ ~serverUp => up[t] = 0
         /\ EvenShares => /\ Share \in Nat \ {0} /\ Loaded(th[t]) /\ UnderWay(th[t], up[t], down[t])
                          /\ th[t].pc # "none" => data.msgSize = Share /\ data.msg \in Cores
<1>1. /\ th \in [Threads -> ThreadType] /\ up \in [Threads -> Nat] /\ down \in [Threads -> Nat]
      /\ data.msgSize \in 1..MaxSize \cup {None} /\ data.msg \in Threads \cup {None}
  BY DEF IInv, TypeOK, ThreadType
<1>2. /\ th[t].pc # "none" => t \in Cores /\ data.msgSize # None /\ data.msg # None
      /\ th[t].pc # "ended" => th[t].i < Messages
      /\ ~serverUp => up[t] = 0
  BY DEF IInv, Filled, Drained
<1>3. Share \in Nat \ {0}
  BY ShareBounds DEF IInv, Share
<1>4. EvenShares => /\ Loaded(th[t]) /\ UnderWay(th[t], up[t], down[t])
                    /\ th[t].pc # "none" => data.msgSize = Share /\ data.msg \in Cores
  BY DEF IInv, Even, StructureFits, ThreadFits
<1> QED
  BY <1>1, <1>2, <1>3, <1>4

LEMMA CopySizeIInv ==
  ASSUME IInv, NEW t \in Threads, CopySize(t), UNCHANGED <<mainVars, serverUp>> PROVE IInv'
<1> DEFINE r == [th[t] EXCEPT !.msgSize = data.msgSize, !.pc = "connect"]
<1>1. th[t].pc = "size" /\ th' = [th EXCEPT ![t] = r] /\ up' = up /\ down' = down
  BY DEF CopySize
<1>2. /\ r \in ThreadType /\ r.pc = "connect" /\ r.msgSize = data.msgSize /\ r.i = th[t].i
      /\ r.msg = th[t].msg /\ r.len = th[t].len
  BY <1>1, ThreadFacts DEF ThreadType
<1>3. EvenShares => Loaded(r) /\ UnderWay(r, up[t], down[t])
  BY <1>1, <1>2, ThreadFacts DEF Loaded, UnderWay
<1>4. /\ r.pc # "none" <=> th[t].pc # "none"
      /\ r.pc # "ended" => r.i < Messages
      /\ up[t] \in Nat /\ down[t] \in Nat /\ (~serverUp => up[t] = 0)
      /\ up' = [up EXCEPT ![t] = up[t]] /\ down' = [down EXCEPT ![t] = down[t]]
  BY <1>1, <1>2, <1>3, ThreadFacts
<1> HIDE DEF r
<1> QED
  BY <1>1, <1>2, <1>3, <1>4, OneThread, Zenon

LEMMA ConnectIInv ==
  ASSUME IInv, NEW t \in Threads, Connect(t), UNCHANGED <<mainVars, serverUp>> PROVE IInv'
<1> DEFINE to == IF serverUp THEN "args" ELSE "ended"
           r  == [th[t] EXCEPT !.pc = to]
<1>1. /\ th[t].pc = "connect" /\ th' = [th EXCEPT ![t] = r]
      /\ up' = [up EXCEPT ![t] = 0] /\ down' = [down EXCEPT ![t] = 0]
  BY DEF Connect
<1>2. /\ r \in ThreadType /\ r.pc \in {"args", "ended"} /\ r.msgSize = th[t].msgSize
      /\ r.i = th[t].i /\ r.msg = th[t].msg /\ r.len = th[t].len
  BY <1>1, ThreadFacts DEF ThreadType
<1>3. EvenShares => Loaded(r) /\ UnderWay(r, 0, 0)
  BY <1>1, <1>2, ThreadFacts DEF Loaded, UnderWay
<1>4. /\ r.pc # "none" <=> th[t].pc # "none"
      /\ r.pc # "ended" => r.i < Messages
      /\ 0 \in Nat /\ 0 \in Nat /\ (~serverUp => 0 = 0)
      /\ up' = [up EXCEPT ![t] = 0] /\ down' = [down EXCEPT ![t] = 0]
  BY <1>1, <1>2, <1>3, ThreadFacts
<1> HIDE DEF r
<1> QED
  BY <1>1, <1>2, <1>3, <1>4, OneThread, Zenon

LEMMA LoadMessageIInv ==
  ASSUME IInv, NEW t \in Threads, LoadMessage(t), UNCHANGED <<mainVars, serverUp>> PROVE IInv'
<1> DEFINE r == [th[t] EXCEPT !.msg = data.msg]
<1>1. th[t].pc = "args" /\ th' = [th EXCEPT ![t] = r] /\ up' = up /\ down' = down
  BY DEF LoadMessage
<1>2. /\ r \in ThreadType /\ r.pc = "args" /\ r.msg = data.msg /\ r.i = th[t].i
      /\ r.msgSize = th[t].msgSize /\ r.len = th[t].len
  BY <1>1, ThreadFacts DEF ThreadType
<1>3. EvenShares => Loaded(r) /\ UnderWay(r, up[t], down[t])
  BY <1>1, <1>2, ThreadFacts DEF Loaded, UnderWay
<1>4. /\ r.pc # "none" <=> th[t].pc # "none"
      /\ r.pc # "ended" => r.i < Messages
      /\ up[t] \in Nat /\ down[t] \in Nat /\ (~serverUp => up[t] = 0)
      /\ up' = [up EXCEPT ![t] = up[t]] /\ down' = [down EXCEPT ![t] = down[t]]
  BY <1>1, <1>2, <1>3, ThreadFacts
<1> HIDE DEF r
<1> QED
  BY <1>1, <1>2, <1>3, <1>4, OneThread, Zenon

LEMMA LoadLengthIInv ==
  ASSUME IInv, NEW t \in Threads, LoadLength(t), UNCHANGED <<mainVars, serverUp>> PROVE IInv'
<1> DEFINE r == [th[t] EXCEPT !.len = data.msgSize]
<1>1. th[t].pc = "args" /\ th' = [th EXCEPT ![t] = r] /\ up' = up /\ down' = down
  BY DEF LoadLength
<1>2. /\ r \in ThreadType /\ r.pc = "args" /\ r.len = data.msgSize /\ r.i = th[t].i
      /\ r.msgSize = th[t].msgSize /\ r.msg = th[t].msg
  BY <1>1, ThreadFacts DEF ThreadType
<1>3. EvenShares => Loaded(r) /\ UnderWay(r, up[t], down[t])
  BY <1>1, <1>2, ThreadFacts DEF Loaded, UnderWay
<1>4. /\ r.pc # "none" <=> th[t].pc # "none"
      /\ r.pc # "ended" => r.i < Messages
      /\ up[t] \in Nat /\ down[t] \in Nat /\ (~serverUp => up[t] = 0)
      /\ up' = [up EXCEPT ![t] = up[t]] /\ down' = [down EXCEPT ![t] = down[t]]
  BY <1>1, <1>2, <1>3, ThreadFacts
<1> HIDE DEF r
<1> QED
  BY <1>1, <1>2, <1>3, <1>4, OneThread, Zenon

(* What is sent to a server that is gone is never under way.               *)
LEMMA SendIInv ==
  ASSUME IInv, NEW t \in Threads, Send(t), UNCHANGED <<mainVars, serverUp>> PROVE IInv'
<1> DEFINE r == [th[t] EXCEPT !.pc = "receive", !.msg = None, !.len = None, !.bytesRead = 0]
           u == IF serverUp THEN up[t] + th[t].len ELSE up[t]
<1>1. /\ th[t].pc = "args" /\ th[t].len # None /\ th' = [th EXCEPT ![t] = r] /\ down' = down
      /\ up' = IF serverUp THEN [up EXCEPT ![t] = up[t] + th[t].len] ELSE up
  BY DEF Send
<1>2. up' = [up EXCEPT ![t] = u]
  BY <1>1, ThreadFacts
<1>3. /\ r \in ThreadType /\ r.pc = "receive" /\ r.i = th[t].i /\ r.bytesRead = 0
      /\ r.msgSize = th[t].msgSize /\ r.msg = None /\ r.len = None
  BY <1>1, ThreadFacts DEF ThreadType
<1>4. u \in Nat /\ (~serverUp => u = 0)
  BY <1>1, ThreadFacts, Constants DEF ThreadType
<1>5. ASSUME EvenShares PROVE Loaded(r) /\ UnderWay(r, u, down[t])
  <2>1. up[t] = 0 /\ down[t] = 0 /\ th[t].len = Share /\ th[t].msgSize = Share /\ Share \in Nat
    BY <1>1, <1>5, ThreadFacts DEF Loaded, UnderWay
  <2> QED
    BY <1>3, <2>1 DEF Loaded, UnderWay
<1>6. /\ r.pc # "none" <=> th[t].pc # "none"
      /\ r.pc # "ended" => r.i < Messages
      /\ u \in Nat /\ down[t] \in Nat /\ (~serverUp => u = 0)
      /\ up' = [up EXCEPT ![t] = u] /\ down' = [down EXCEPT ![t] = down[t]]
  BY <1>1, <1>2, <1>3, <1>4, <1>5, ThreadFacts
<1>7. th' = [th EXCEPT ![t] = r] /\ r \in ThreadType
  BY <1>1, <1>3
<1> HIDE DEF r, u
<1> QED
  BY <1>5, <1>6, <1>7, OneThread, Zenon

LEMMA ReceiveIInv ==
  ASSUME IInv, NEW t \in Threads, Receive(t), UNCHANGED <<mainVars, serverUp>> PROVE IInv'
<1> DEFINE b  == th[t].bytesRead + down[t]
           to == IF th[t].i + 1 < Messages THEN "args" ELSE "ended"
           some == [th[t] EXCEPT !.bytesRead = b]
           full == [th[t] EXCEPT !.bytesRead = b, !.i = th[t].i + 1, !.pc = to]
<1>1. th[t].pc = "receive" /\ up' = up /\ down' = [down EXCEPT ![t] = 0]
      /\ th' = IF b < th[t].msgSize THEN [th EXCEPT ![t] = some] ELSE [th EXCEPT ![t] = full]
  BY DEF Receive
<1>2. b \in Nat /\ th[t].i \in 0..Messages /\ th[t].i < Messages
  BY <1>1, ThreadFacts DEF ThreadType
<1>3. CASE b < th[t].msgSize
  <2>1. /\ some \in ThreadType /\ some.pc = "receive" /\ some.i = th[t].i /\ some.bytesRead = b
        /\ some.msgSize = th[t].msgSize /\ some.msg = th[t].msg /\ some.len = th[t].len
    BY <1>1, <1>2, ThreadFacts DEF ThreadType
  <2>2. ASSUME EvenShares PROVE Loaded(some) /\ UnderWay(some, up[t], 0)
    <3>1. /\ Share \in Nat /\ th[t].msgSize = Share /\ up[t] \in Nat
          /\ up[t] + down[t] + th[t].bytesRead <= Share
          /\ serverUp => up[t] + down[t] + th[t].bytesRead = Share
          /\ down[t] \in Nat /\ th[t].bytesRead \in Nat
      BY <1>1, <2>2, ThreadFacts DEF Loaded, UnderWay, ThreadType
    <3>2. Loaded(th[t])
      BY <2>2, ThreadFacts
    <3> HIDE DEF some
    <3> QED
      BY <2>1, <3>1, <3>2 DEF Loaded, UnderWay
  <2>3. /\ some.pc # "none" <=> th[t].pc # "none"
        /\ some.pc # "ended" => some.i < Messages
        /\ up[t] \in Nat /\ 0 \in Nat /\ (~serverUp => up[t] = 0)
        /\ up' = [up EXCEPT ![t] = up[t]] /\ down' = [down EXCEPT ![t] = 0]
    BY <1>1, <1>2, <1>3, <2>1, <2>2, ThreadFacts
  <2> HIDE DEF some
  <2> QED
    BY <1>1, <1>2, <1>3, <2>1, <2>2, <2>3, OneThread, Zenon
<1>4. CASE ~(b < th[t].msgSize)
  <2>1. /\ full \in ThreadType /\ full.pc \in {"args", "ended"} /\ full.i = th[t].i + 1
        /\ full.msgSize = th[t].msgSize /\ full.msg = th[t].msg /\ full.len = th[t].len
        /\ full.pc # "ended" => full.i < Messages
    <3>1. th[t].i + 1 \in 0..Messages /\ to \in {"args", "ended"}
          /\ (to # "ended" => th[t].i + 1 < Messages)
      BY <1>2, Constants
    <3>2. th[t] \in ThreadType
      BY ThreadFacts
    <3> HIDE DEF to, b
    <3> QED
      BY <1>2, <3>1, <3>2 DEF ThreadType
  <2>2. ASSUME EvenShares PROVE Loaded(full) /\ UnderWay(full, up[t], 0)
    <3>1. /\ Share \in Nat /\ th[t].msgSize = Share /\ up[t] \in Nat
          /\ up[t] + down[t] + th[t].bytesRead <= Share
          /\ down[t] \in Nat /\ th[t].bytesRead \in Nat
      BY <1>1, <2>2, ThreadFacts DEF Loaded, UnderWay, ThreadType
    <3>2. up[t] = 0
      BY <1>4, <3>1
    <3>3. Loaded(th[t])
      BY <2>2, ThreadFacts
    <3> QED
      BY <2>1, <3>1, <3>2, <3>3 DEF Loaded, UnderWay
  <2>3. /\ full.pc # "none" <=> th[t].pc # "none"
        /\ full.pc # "ended" => full.i < Messages
        /\ up[t] \in Nat /\ 0 \in Nat /\ (~serverUp => up[t] = 0)
        /\ up' = [up EXCEPT ![t] = up[t]] /\ down' = [down EXCEPT ![t] = 0]
    BY <1>1, <1>2, <1>4, <2>1, <2>2, ThreadFacts
  <2> HIDE DEF full
  <2> QED
    BY <1>1, <1>2, <1>4, <2>1, <2>2, <2>3, OneThread, Zenon
<1> QED
  BY <1>3, <1>4

LEMMA ReceiveFailsIInv ==
  ASSUME IInv, NEW t \in Threads, ReceiveFails(t), UNCHANGED <<mainVars, serverUp>> PROVE IInv'
<1>1. th' = th /\ up' = up /\ down' = down
  BY DEF ReceiveFails
<1> QED
  BY <1>1, ThreadFacts, OneThread

(* The server moves bytes to the other direction.                          *)
LEMMA EchoIInv ==
  ASSUME IInv, NEW t \in Threads, Echo(t) PROVE IInv'
<1>1. PICK n \in 1..up[t] : up' = [up EXCEPT ![t] = up[t] - n]
                          /\ down' = [down EXCEPT ![t] = down[t] + n]
  BY DEF Echo
<1>2. UNCHANGED <<mainVars, serverUp>> /\ th' = th
  BY DEF Echo
<1>3. n \in Nat /\ n # 0 /\ up[t] - n \in Nat /\ down[t] + n \in Nat /\ serverUp
  BY <1>1, ThreadFacts
<1>4. EvenShares => UnderWay(th[t], up[t] - n, down[t] + n)
  <2>1. EvenShares => UnderWay(th[t], up[t], down[t])
    BY ThreadFacts
  <2>2. th[t].bytesRead \in Nat /\ up[t] \in Nat /\ down[t] \in Nat
    BY ThreadFacts DEF ThreadType
  <2> QED
    BY <1>3, <2>1, <2>2 DEF UnderWay
<1> QED
  BY <1>1, <1>2, <1>3, <1>4, ThreadFacts, OneThread

LEMMA StopIInv == ASSUME IInv, Stop PROVE IInv'
<1>1. /\ serverUp' = FALSE /\ up' = [t \in Threads |-> 0] /\ th' = th /\ down' = down
      /\ UNCHANGED <<mpc, msgSize, coreCount, j, data>>
  BY DEF Stop, mainVars
<1>2. TypeOK'
  BY <1>1 DEF IInv, TypeOK
<1>3. Filled' /\ Drained'
  BY <1>1 DEF IInv, Filled, Drained, Cores
<1>4. (EvenShares' <=> EvenShares) /\ Share' = Share /\ Cores' = Cores
  BY <1>1 DEF EvenShares, Share, Cores, SizeOf
<1>5. ASSUME EvenShares PROVE Even'
  <2>1. StructureFits'
    BY <1>1, <1>4, <1>5 DEF IInv, Even, StructureFits
  <2>2. ASSUME NEW t \in Threads PROVE ThreadFits(t)'
    <3>1. Loaded(th[t])'
      BY <1>1, <1>4, <1>5 DEF IInv, Even, ThreadFits, Loaded
    <3>2. /\ UnderWay(th[t], up[t], down[t]) /\ up[t] \in Nat /\ down[t] \in Nat
          /\ th[t].bytesRead \in Nat /\ Share \in Nat
      BY <1>5, ThreadFacts DEF ThreadType
    <3>3. UnderWay(th[t], up[t], down[t])'
      BY <1>1, <1>4, <3>2 DEF UnderWay
    <3> QED
      BY <3>1, <3>3 DEF ThreadFits
  <2> QED
    BY <2>1, <2>2 DEF Even
<1> QED
  BY <1>2, <1>3, <1>4, <1>5 DEF IInv

LEMMA StepIInv == IInv /\ [Next]_vars => IInv'
<1> SUFFICES ASSUME IInv, [Next]_vars PROVE IInv'
  OBVIOUS
<1>1. CASE Main
  BY <1>1, SetSizeIInv, SetMessageIInv, CreateThreadIInv, StartJoinIInv, JoinIInv, NextRoundIInv
     DEF Main
<1>2. ASSUME NEW t \in Threads, Thread(t) PROVE IInv'
  BY <1>2, CopySizeIInv, ConnectIInv, LoadMessageIInv, LoadLengthIInv, SendIInv, ReceiveIInv,
     ReceiveFailsIInv DEF Thread
<1>3. ASSUME NEW t \in Threads, Echo(t) PROVE IInv'
  BY <1>3, EchoIInv
<1>4. CASE Stop
  BY <1>4, StopIInv
<1>5. CASE UNCHANGED vars
  <2>1. UNCHANGED <<mpc, msgSize, coreCount, j, data, th, up, down, serverUp>>
    BY <1>5 DEF vars, mainVars
  <2>2. (EvenShares' <=> EvenShares) /\ Share' = Share /\ Cores' = Cores
    BY <2>1 DEF EvenShares, Share, Cores, SizeOf
  <2>3. TypeOK' /\ Filled' /\ Drained'
    BY <2>1, <2>2 DEF IInv, TypeOK, Filled, Drained
  <2>4. EvenShares => Even'
    BY <2>1, <2>2 DEF IInv, Even, StructureFits, ThreadFits, Loaded, UnderWay
  <2> QED
    BY <2>2, <2>3, <2>4 DEF IInv
<1> QED
  BY <1>1, <1>2, <1>3, <1>4, <1>5 DEF Next, Finished

-----------------------------------------------------------------------------
(* The inductive invariant holds in every state.                           *)
THEOREM Invariance == Spec => []IInv
<1> QED
  BY InitIInv, StepIInv, PTL DEF Spec

(* The variables hold values the code can store in them, for all sizes,    *)
(* numbers of threads and messages.                                        *)
THEOREM TypeCorrect == Spec => []TypeOK
<1>1. IInv => TypeOK
  BY DEF IInv
<1> QED
  BY <1>1, Invariance, PTL

LEMMA IInvSharesHold == IInv => SharesHold
<1> SUFFICES ASSUME IInv, EvenShares PROVE InBounds /\ AnswersMatch
  BY DEF SharesHold
<1>1. ASSUME NEW t \in Threads, th[t].msg # None, th[t].len # None
      PROVE  th[t].len <= Allocated(th[t].msg)
  <2>1. th[t].msg \in Cores /\ th[t].len = Share
    BY <1>1, ThreadFacts DEF Loaded
  <2> QED
    BY <2>1, EvenSplit DEF IInv
<1>2. ASSUME NEW t \in Threads, serverUp, th[t].pc = "receive"
      PROVE  up[t] + down[t] + th[t].bytesRead >= th[t].msgSize
  <2>1. up[t] + down[t] + th[t].bytesRead = Share /\ th[t].msgSize = Share /\ Share \in Nat
    BY <1>2, ThreadFacts DEF Loaded, UnderWay
  <2> QED
    BY <2>1
<1>3. ASSUME NEW t \in Threads, th[t].pc \in {"args", "ended"} PROVE up[t] + down[t] = 0
  BY <1>3, ThreadFacts DEF UnderWay
<1> QED
  BY <1>1, <1>2, <1>3 DEF InBounds, AnswersMatch, NobodyStuck, NothingLeft

(* In every round with even shares, whatever main overwrites in the shared *)
(* structure meanwhile, no send reads behind the end of its message, every *)
(* thread waits for as many bytes as it has sent and leaves none behind.   *)
THEOREM EvenSharesHold == Spec => []SharesHold
  BY Invariance, IInvSharesHold, PTL
=============================================================================
