------------------------- MODULE SelectServerProofs -------------------------
(***************************************************************************)
(* Proofs about SelectServer for every number of client processes, slots   *)
(* and sockets, every schedule of sizes, and clients that are killed and a *)
(* server that is stopped at any moment.                                   *)
(***************************************************************************)
EXTENDS SelectServer, FiniteSetTheorems, SequenceTheorems, WellFoundedInduction, TLAPS

-----------------------------------------------------------------------------
(* The inductive invariant.                                                *)

Alive(p)     == cpc[p] # "killed"
Talking(p)   == cpc[p] \in {"send", "receive"}
Receiving(p) == cpc[p] = "receive"
Waits(c)     == \E j \in DOMAIN backlog : backlog[j] = c

(* The bytes of one message on a connection.                               *)
Share(c) == MsgSize(c[2], c[3])

(* The connections a client has yet to make.                               *)
Fresh(c) ==
  /\ cpc[c[1]] \notin {"done", "killed"}
  /\ \/ c[2] > round[c[1]]
     \/ c[2] = round[c[1]] /\ cpc[c[1]] = "connect" /\ c[3] >= sock[c[1]]
     \/ c[2] = round[c[1]] /\ Talking(c[1]) /\ c[3] > sock[c[1]]

Types ==
  /\ cpc \in [Procs -> {"connect", "send", "receive", "close", "done", "killed"}]
  /\ round \in [Procs -> 1..Rounds] /\ sock \in [Procs -> 1..Sockets]
  /\ msg \in [Procs -> 0..(Messages - 1)]
  /\ bytesRead \in [Procs -> -1..Size(Rounds)]
  /\ copen \subseteq Conns /\ reset \subseteq Conns
  /\ backlog \in Seq(Conns)
  /\ up \in [Conns -> Nat] /\ down \in [Conns -> Nat]
  /\ spc \in {"select", "accept", "read", "failed", "stopped"}
  /\ clients \in [1..Slots -> Conns \cup {Empty}]
  /\ fds \subseteq Conns \cup {Lsd}
  /\ i \in 1..Slots
  /\ \A p \in Procs : sock[p] <= SocketNum(round[p])

(* What a client has open belongs to its present round.                    *)
OfRound(c) ==
  /\ cpc[c[1]] \notin {"done", "killed"}
  /\ c[2] = round[c[1]] /\ c[3] <= SocketNum(c[2])
  /\ cpc[c[1]] = "close" => c[3] >= sock[c[1]]
OpenNow ==
  /\ \A c \in copen : OfRound(c)
  /\ \A p \in Procs : Talking(p) => Cur(p) \in copen

(* Bytes are under way only on the connection a client waits on, and are   *)
(* those it is still to receive.                                           *)
Account(c) ==
  /\ up[c] + down[c] <= Share(c)
  /\ ~ServerUp => up[c] = 0
  /\ Receiving(c[1]) /\ c = Cur(c[1]) =>
       /\ up[c] + down[c] + bytesRead[c[1]] <= Share(c)
       /\ ServerUp => up[c] + down[c] + bytesRead[c[1]] = Share(c)
       /\ ServerUp \/ c \in reset => bytesRead[c[1]] >= 0
  /\ ~ (Receiving(c[1]) /\ c = Cur(c[1])) => down[c] = 0 /\ (Alive(c[1]) => up[c] = 0)
Accounts == \A c \in Conns : Account(c)

(* Only the connections of killed clients are reset.                       *)
Resets == /\ ServerUp => \A c \in reset : ~Alive(c[1])
          /\ ServerOutlives

(* A client has at most one connection in the backlog, its present one, of *)
(* which it has received nothing; what the server holds of that client is  *)
(* of the same round or over.                                              *)
Unanswered(d) ==
  Alive(d[1]) => /\ Talking(d[1]) /\ d = Cur(d[1])
                 /\ Receiving(d[1]) => down[d] = 0 /\ bytesRead[d[1]] = 0
Before(c, d) == /\ c # d /\ c[2] <= d[2]
                /\ c[2] < d[2] => c \notin copen /\ up[c] = 0
Queue ==
  /\ \A j, l \in DOMAIN backlog : backlog[j][1] = backlog[l][1] => j = l
  /\ \A d \in Conns : Waits(d) => Unanswered(d)
  /\ \A d \in Conns : Waits(d) => \A c \in Held : c[1] = d[1] => Before(c, d)
  /\ ~ServerUp => backlog = <<>> /\ Held = {}

(* A connection has one slot, and only once it is made; the connections of *)
(* a client in the slots are of one round, except that those of its last   *)
(* round may still be ahead of a loop that will drop them.                 *)
Doomed(k) == /\ spc = "read" /\ i <= k /\ clients[k] \in fds
             /\ clients[k] \notin copen /\ up[clients[k]] = 0
Earlier(k, l) == /\ clients[k] # Empty /\ clients[l] # Empty
                 /\ clients[k][1] = clients[l][1] /\ clients[k][2] < clients[l][2]
Placed ==
  /\ OneSlot
  /\ \A c \in Held : ~Fresh(c)
  /\ \A k, l \in 1..Slots : Earlier(k, l) => Doomed(k)

(* What select has reported stays readable until its turn.                 *)
Turn ==
  /\ spc = "accept" =>
       /\ fds \subseteq Held \cup {Lsd}
       /\ \A c \in fds : Readable(c)
       /\ Lsd \in fds => \A c \in Held :
            c[1] = Head(backlog)[1] /\ c[2] < Head(backlog)[2] => c \in fds
  /\ spc = "read" =>
       /\ Reported(clients, i)
       /\ \A k \in i..Slots : Reported(clients, k) => Readable(clients[k])

IInv == Types /\ OpenNow /\ Accounts /\ Resets /\ Queue /\ Placed /\ Turn

-----------------------------------------------------------------------------
(* Numbers.                                                                *)

LEMMA Constants ==
  /\ Slots \in Nat \ {0} /\ Sockets \in Nat \ {0} /\ MinSize \in Nat \ {0}
  /\ Messages \in Nat \ {0} /\ MaxPacket \in Nat \ {0}
  /\ Doublings \in Nat /\ WarmUps \in Nat
BY SizesAssumption

LEMMA LeastOf ==
  ASSUME NEW n \in Nat, NEW T \in SUBSET (1..n), T # {}
  PROVE  Min(T) \in T /\ \A y \in T : Min(T) <= y
<1> DEFINE below(t) == {y \in T : y <= t}
           Family   == {below(t) : t \in T}
<1>1. IsFiniteSet(T)
  <2>1. IsFiniteSet(1..n)
    BY FS_Interval
  <2> QED
    BY <2>1, FS_Subset
<1>2. IsWellFoundedOn(StrictSubsetOrdering(T), FiniteSubsetsOf(T))
  BY FS_StrictSubsetOrderingWellFounded
<1>3. \A t \in T : below(t) \in FiniteSubsetsOf(T)
  BY <1>1, FS_Subset DEF FiniteSubsetsOf
<1>4. Family \subseteq FiniteSubsetsOf(T) /\ Family # {}
  BY <1>3
<1>5. PICK X \in Family : \A Y \in Family : ~ (<<Y, X>> \in StrictSubsetOrdering(T))
  <2> HIDE DEF Family
  <2> QED
    BY <1>2, <1>4, WFMin
<1>6. PICK x \in T : X = below(x)
  OBVIOUS
<1>7. ASSUME NEW y \in T PROVE x <= y
  <2> SUFFICES ASSUME y < x PROVE FALSE
    OBVIOUS
  <2>1. below(y) \subseteq below(x) /\ x \in below(x) /\ x \notin below(y)
    <3>1. \A t \in T : t \in Nat
      OBVIOUS
    <3>2. \A t \in T : t <= y => t <= x
      BY <3>1
    <3>3. x <= x /\ ~ (x <= y)
      BY <3>1
    <3> QED
      BY <3>2, <3>3
  <2>2. below(y) \in Family /\ below(y) \in SUBSET T /\ below(x) \in SUBSET T
    OBVIOUS
  <2> HIDE DEF below, Family
  <2>3. <<below(y), below(x)>> \in StrictSubsetOrdering(T)
    BY <2>1, <2>2 DEF StrictSubsetOrdering
  <2> QED
    BY <1>5, <1>6, <2>2, <2>3
<1> QED
  BY <1>7 DEF Min

LEMMA Division ==
  ASSUME NEW a \in Nat, NEW n \in Nat \ {0}
  PROVE  /\ a \div n \in Nat /\ a % n \in 0..(n - 1)
         /\ a = n * (a \div n) + (a % n)
OBVIOUS

LEMMA DivisionGrows ==
  ASSUME NEW a \in Nat, NEW b \in Nat, NEW n \in Nat \ {0}, a <= b
  PROVE  a \div n <= b \div n
<1> DEFINE q == a \div n
           r == b \div n
<1>1. /\ q \in Nat /\ r \in Nat /\ a % n \in 0..(n - 1) /\ b % n \in 0..(n - 1)
      /\ a = n * q + (a % n) /\ b = n * r + (b % n)
  BY Division
<1> HIDE DEF q, r
<1>2. ASSUME r < q PROVE FALSE
  <2>1. q - r - 1 \in Nat /\ q = (r + 1) + (q - r - 1)
    BY <1>1, <1>2
  <2>2. n * q = n * (r + 1) + n * (q - r - 1)
    BY <1>1, <2>1
  <2>3. n * (r + 1) = n * r + n /\ n * (q - r - 1) \in Nat /\ n * r \in Nat
    BY <1>1, <2>1
  <2> HIDE DEF q, r
  <2> QED
    BY <1>1, <2>2, <2>3
<1>3. q <= r
  BY <1>1, <1>2
<1> QED
  BY <1>3 DEF q, r

LEMMA Powers ==
  /\ \A m \in Nat : 2 ^ m \in Nat \ {0}
  /\ \A m, n \in Nat : m <= n => 2 ^ m <= 2 ^ n
<1>1. ASSUME NEW m \in Nat
      PROVE  /\ IsFiniteSet(SUBSET (1..m)) /\ Cardinality(SUBSET (1..m)) = 2 ^ m
             /\ 2 ^ m \in Nat \ {0}
  <2>1. IsFiniteSet(1..m) /\ Cardinality(1..m) = m
    BY FS_Interval
  <2>2. IsFiniteSet(SUBSET (1..m)) /\ Cardinality(SUBSET (1..m)) = 2 ^ m
    BY <2>1, FS_SUBSET
  <2>3. Cardinality(SUBSET (1..m)) \in Nat
    BY <2>2, FS_CardinalityType
  <2>4. Cardinality(SUBSET (1..m)) # 0
    BY <2>2, FS_EmptySet
  <2> QED
    BY <2>2, <2>3, <2>4
<1>2. ASSUME NEW m \in Nat, NEW n \in Nat, m <= n PROVE 2 ^ m <= 2 ^ n
  <2>1. SUBSET (1..m) \in SUBSET (SUBSET (1..n))
    BY <1>2
  <2>2. Cardinality(SUBSET (1..m)) <= Cardinality(SUBSET (1..n))
    BY <1>1, <2>1, FS_Subset
  <2> QED
    BY <1>1, <2>2
<1> QED
  BY <1>1, <1>2

(* The schedule of a client.                                               *)
LEMMA RoundFacts ==
  /\ Rounds \in Nat \ {0} /\ Rounds > WarmUps
  /\ \A r \in 1..Rounds : /\ SocketNum(r) \in 1..Sockets
                          /\ MsgNum(r) \in 1..Messages
                          /\ Size(r) \in Nat \ {0} /\ Size(r) <= Size(Rounds)
<1> DEFINE step(r) == (r - WarmUps - 1) \div Sockets
<1>1. /\ Doublings \in Nat /\ Sockets \in Nat \ {0} /\ WarmUps \in Nat /\ MinSize \in Nat \ {0}
      /\ Messages \in Nat \ {0}
  BY Constants
<1>2. Rounds \in Nat /\ Rounds > WarmUps
  <2>1. (Doublings + 1) * Sockets = Doublings * Sockets + Sockets
    BY <1>1
  <2>2. Doublings * Sockets \in Nat
    BY <1>1
  <2> QED
    BY <1>1, <2>1, <2>2 DEF Rounds
<1>3. ASSUME NEW r \in 1..Rounds, ~IsWarmUp(r)
      PROVE  /\ r - WarmUps - 1 \in Nat /\ step(r) \in Nat /\ step(r) <= step(Rounds)
             /\ step(Rounds) \in Nat /\ (r - WarmUps - 1) % Sockets \in 0..(Sockets - 1)
  <2>1. /\ r - WarmUps - 1 \in Nat /\ Rounds - WarmUps - 1 \in Nat
        /\ r - WarmUps - 1 <= Rounds - WarmUps - 1
    BY <1>1, <1>2, <1>3 DEF IsWarmUp
  <2> QED
    BY <1>1, <2>1, Division, DivisionGrows
<1>4. ASSUME NEW r \in 1..Rounds
      PROVE  SocketNum(r) \in 1..Sockets /\ MsgNum(r) \in 1..Messages
  BY <1>1, <1>3 DEF SocketNum, MsgNum
<1>5. ASSUME NEW m \in Nat PROVE MinSize * 2 ^ m \in Nat \ {0}
  <2>1. 2 ^ m \in Nat \ {0}
    BY Powers
  <2> DEFINE x == 2 ^ m
  <2> HIDE DEF x
  <2>2. x \in Nat \ {0} => MinSize * x \in Nat \ {0}
    BY <1>1, Z3
  <2> QED
    BY <2>1, <2>2 DEF x
<1>6. ASSUME NEW m \in Nat, NEW n \in Nat, m <= n PROVE MinSize * 2 ^ m <= MinSize * 2 ^ n
  <2>1. 2 ^ m \in Nat /\ 2 ^ n \in Nat /\ 2 ^ m <= 2 ^ n
    BY <1>6, Powers
  <2> DEFINE x == 2 ^ m
             y == 2 ^ n
  <2> HIDE DEF x, y
  <2>2. x \in Nat /\ y \in Nat /\ x <= y => MinSize * x <= MinSize * y
    <3> SUFFICES ASSUME x \in Nat, y \in Nat, x <= y PROVE MinSize * x <= MinSize * y
      OBVIOUS
    <3>1. y - x \in Nat /\ y = x + (y - x)
      OBVIOUS
    <3>2. MinSize * y = MinSize * x + MinSize * (y - x)
      BY <1>1, <3>1
    <3>3. MinSize * (y - x) \in Nat /\ MinSize * x \in Nat
      BY <1>1, <3>1
    <3> QED
      BY <3>2, <3>3
  <2> QED
    BY <2>1, <2>2 DEF x, y
<1>7. Rounds \in 1..Rounds /\ ~IsWarmUp(Rounds) /\ Size(Rounds) = MinSize * 2 ^ step(Rounds)
  BY <1>1, <1>2 DEF IsWarmUp, Size
<1>8. ASSUME NEW r \in 1..Rounds
      PROVE  Size(r) \in Nat \ {0} /\ Size(r) <= Size(Rounds)
  <2>1. step(Rounds) \in Nat /\ Size(Rounds) \in Nat \ {0}
    BY <1>3, <1>5, <1>7
  <2>2. CASE IsWarmUp(r)
    BY <2>1, <2>2 DEF Size
  <2>3. CASE ~IsWarmUp(r)
    <3>1. Size(r) = MinSize * 2 ^ step(r)
      BY <2>3 DEF Size
    <3> QED
      BY <1>3, <1>5, <1>6, <1>7, <2>1, <2>3, <3>1
  <2> QED
    BY <2>2, <2>3
<1>9. \A r \in 1..Rounds : SocketNum(r) \in 1..Sockets /\ MsgNum(r) \in 1..Messages
  BY <1>4
<1>10. \A r \in 1..Rounds : Size(r) \in Nat \ {0} /\ Size(r) <= Size(Rounds)
  BY <1>8
<1> HIDE DEF step
<1> QED
  BY <1>2, <1>9, <1>10, Constants

(* No share is larger than its message.                                    *)
LEMMA ShareFacts ==
  ASSUME NEW r \in 1..Rounds, NEW s \in 1..Sockets
  PROVE  MsgSize(r, s) \in Nat /\ MsgSize(r, s) <= Size(Rounds)
<1> DEFINE n == SocketNum(r)
           a == Size(r)
<1>1. n \in Nat \ {0} /\ a \in Nat \ {0} /\ a <= Size(Rounds) /\ Size(Rounds) \in Nat
  BY RoundFacts, Constants
<1>2. MsgSize(r, s) = IF a < n THEN IF s = 1 THEN a ELSE 1
                               ELSE (a \div n) + (IF s = 1 THEN a % n ELSE 0)
  BY DEF MsgSize
<1> HIDE DEF n, a
<1>3. /\ a \div n \in Nat /\ a % n \in 0..(n - 1) /\ a = n * (a \div n) + (a % n)
  BY <1>1, Division
<1>4. (a \div n) + (a % n) <= a
  <2> DEFINE q == a \div n
  <2>1. q \in Nat /\ a = n * q + (a % n)
    BY <1>3
  <2> HIDE DEF q
  <2>2. q <= n * q
    BY <1>1, <2>1, Z3
  <2>3. q + (a % n) <= a
    BY <1>1, <1>3, <2>1, <2>2
  <2> QED
    BY <2>3 DEF q
<1>5. MsgSize(r, s) \in Nat /\ MsgSize(r, s) <= a
  BY <1>1, <1>2, <1>3, <1>4
<1> QED
  BY <1>1, <1>5

-----------------------------------------------------------------------------
(* Connections.                                                            *)

LEMMA ConnFacts ==
  /\ Empty \notin Conns /\ Lsd \notin Conns
  /\ \A c \in Conns : c[1] \in Procs /\ c[2] \in 1..Rounds /\ c[3] \in 1..Sockets
  /\ \A c, d \in Conns : c[1] = d[1] /\ c[2] = d[2] /\ c[3] = d[3] => c = d
<1>1. \A c \in Conns : Len(c) = 3
  BY DEF Conns
<1>2. Len(Empty) = 0 /\ Len(Lsd) = 1
  BY DEF Empty, Lsd
<1>3. Empty \notin Conns /\ Lsd \notin Conns
  BY <1>1, <1>2
<1>4. /\ \A c \in Conns : c[1] \in Procs /\ c[2] \in 1..Rounds /\ c[3] \in 1..Sockets
      /\ \A c, d \in Conns : c[1] = d[1] /\ c[2] = d[2] /\ c[3] = d[3] => c = d
  BY DEF Conns
<1> QED
  BY <1>3, <1>4

LEMMA CurFacts ==
  ASSUME Types, NEW p \in Procs
  PROVE  /\ Cur(p) \in Conns /\ Cur(p)[1] = p /\ Cur(p)[2] = round[p] /\ Cur(p)[3] = sock[p]
         /\ \A c \in Conns : c = Cur(p) <=> c[1] = p /\ c[2] = round[p] /\ c[3] = sock[p]
<1>1. round[p] \in 1..Rounds /\ sock[p] \in 1..Sockets
  BY DEF Types
<1>2. Cur(p) \in Conns /\ Cur(p)[1] = p /\ Cur(p)[2] = round[p] /\ Cur(p)[3] = sock[p]
  BY <1>1 DEF Cur, Conns
<1> QED
  BY <1>2, ConnFacts

LEMMA HeldFacts ==
  ASSUME Types
  PROVE  /\ Held \subseteq Conns
         /\ \A c : c \in Held <=> c \in Conns /\ \E k \in 1..Slots : clients[k] = c
<1>1. \A k \in 1..Slots : clients[k] \in Conns \/ clients[k] = Empty
  BY DEF Types
<1> QED
  BY <1>1, ConnFacts DEF Held

LEMMA ShareFact ==
  ASSUME NEW c \in Conns PROVE Share(c) \in Nat /\ Share(c) <= Size(Rounds)
BY ConnFacts, ShareFacts DEF Share

LEMMA SizeFact == Size(Rounds) \in Nat \ {0}
<1>1. Rounds \in 1..Rounds
  BY RoundFacts
<1> QED
  BY <1>1, RoundFacts

-----------------------------------------------------------------------------
(* The initial states.                                                     *)

LEMMA InitIInv == Init => IInv
<1> SUFFICES ASSUME Init PROVE IInv
  OBVIOUS
<1>1. Types
  <2>1. 1 \in 1..Rounds /\ 1 \in 1..Sockets /\ 0 \in 0..(Messages - 1) /\ 1 \in 1..Slots
    BY Constants, RoundFacts
  <2>2. 0 \in -1..Size(Rounds)
    BY SizeFact
  <2>3. SocketNum(1) >= 1
    BY <2>1, RoundFacts, Constants
  <2>4. <<>> \in Seq(Conns)
    OBVIOUS
  <2> QED
    BY <2>1, <2>2, <2>3, <2>4 DEF Init, Types
<1>2. Held = {} /\ spc = "select" /\ copen = {} /\ reset = {} /\ backlog = <<>>
  BY DEF Init, Held
<1>3. \A p \in Procs : cpc[p] = "connect"
  BY DEF Init
<1>4. OpenNow
  BY <1>2, <1>3 DEF OpenNow, Talking
<1>5. Accounts
  <2>1. \A c \in Conns : up[c] = 0 /\ down[c] = 0 /\ Share(c) \in Nat /\ c[1] \in Procs
    BY ShareFact, ConnFacts DEF Init
  <2> QED
    BY <1>2, <1>3, <2>1 DEF Accounts, Account, Receiving, ServerUp
<1>6. Resets
  BY <1>2 DEF Resets, ServerOutlives
<1>7. Queue
  BY <1>2 DEF Queue, Waits
<1>8. Placed
  BY <1>2 DEF Init, Placed, OneSlot, Earlier
<1>9. Turn
  BY <1>2 DEF Turn
<1> QED
  BY <1>1, <1>4, <1>5, <1>6, <1>7, <1>8, <1>9 DEF IInv

-----------------------------------------------------------------------------
(* The clients.                                                            *)

(* A step of client p leaves the others alone.                             *)
StepOf(p) ==
  /\ UNCHANGED serverVars
  /\ \A q \in Procs : q # p =>
       cpc'[q] = cpc[q] /\ round'[q] = round[q] /\ sock'[q] = sock[q]
         /\ bytesRead'[q] = bytesRead[q]
  /\ \A c \in Conns : c[1] # p =>
       /\ up'[c] = up[c] /\ down'[c] = down[c]
       /\ (c \in copen' <=> c \in copen) /\ (c \in reset' <=> c \in reset)

(* It takes back nothing that the server could have seen.                  *)
Onward(p) ==
  /\ \A c \in Conns : Fresh(c)' => Fresh(c)
  /\ \A c \in Held : c \in copen' => c \in copen
  /\ \A c \in Conns : up'[c] \in Nat /\ up[c] \in Nat /\ up'[c] >= up[c]
                        /\ (c \notin copen => up'[c] = up[c])
  /\ \A q \in Procs : ~Alive(q) => ~Alive(q)'
  /\ backlog # <<>> => backlog' # <<>> /\ Head(backlog') = Head(backlog)

LEMMA ServerSeesOnward ==
  ASSUME IInv, NEW p \in Procs, StepOf(p), Onward(p)
  PROVE  /\ Placed' /\ Turn' /\ ServerOutlives'
         /\ \A c \in Held : \A d : Before(c, d) => Before(c, d)'
<1>1. /\ spc' = spc /\ clients' = clients /\ fds' = fds /\ i' = i
      /\ Held' = Held /\ ServerUp' = ServerUp
  BY DEF StepOf, serverVars, Held, ServerUp
<1>2. Held \subseteq Conns /\ (\A k \in 1..Slots : clients[k] # Empty => clients[k] \in Held)
      /\ Types
  BY HeldFacts DEF IInv, Held
<1>3. \A c \in Held : /\ c \in Conns /\ c # Lsd
                      /\ Readable(c) => Readable(c)'
                      /\ c \notin copen /\ up[c] = 0 => c \notin copen' /\ up'[c] = 0
  BY <1>2, ConnFacts DEF Onward, Readable
<1>4. Placed'
  <2>1. OneSlot' /\ \A c \in Held' : ~Fresh(c)'
    BY <1>1, <1>2 DEF IInv, Placed, OneSlot, Onward
  <2>2. ASSUME NEW k \in 1..Slots, NEW l \in 1..Slots, Earlier(k, l)' PROVE Doomed(k)'
    <3>1. Earlier(k, l) /\ clients[k] \in Held
      BY <1>1, <1>2, <2>2 DEF Earlier
    <3>2. Doomed(k)
      BY <3>1 DEF IInv, Placed
    <3> QED
      BY <1>1, <1>3, <3>1, <3>2 DEF Doomed
  <2> QED
    BY <2>1, <2>2 DEF Placed
<1>5. Turn'
  <2>1. Readable(Lsd) => Readable(Lsd)' /\ Head(backlog') = Head(backlog)
    BY DEF Onward, Readable
  <2>2. CASE spc = "accept"
    <3>1. \A c \in fds : Readable(c)'
      BY <1>3, <2>1, <2>2 DEF IInv, Turn
    <3>2. Lsd \in fds => Head(backlog') = Head(backlog)
      BY <2>1, <2>2 DEF IInv, Turn
    <3> QED
      BY <1>1, <2>2, <3>1, <3>2 DEF IInv, Turn
  <2>3. CASE spc = "read"
    <3>1. Reported(clients, i)' /\ i \in 1..Slots
      BY <1>1, <1>2, <2>3 DEF IInv, Turn, Reported, Types
    <3>2. ASSUME NEW k \in i..Slots, Reported(clients, k)' PROVE Readable(clients[k])'
      <4>1. Reported(clients, k) /\ k \in 1..Slots
        BY <1>1, <3>1, <3>2 DEF Reported
      <4>2. Readable(clients[k]) /\ clients[k] \in Held
        BY <1>2, <2>3, <4>1 DEF IInv, Turn, Reported
      <4> QED
        BY <1>1, <1>3, <4>2 DEF Readable
    <3> QED
      BY <1>1, <2>3, <3>1, <3>2 DEF Turn
  <2>4. CASE spc \notin {"accept", "read"}
    BY <1>1, <2>4 DEF Turn
  <2> QED
    BY <2>2, <2>3, <2>4
<1>6. ServerOutlives'
  BY <1>1 DEF IInv, Resets, ServerOutlives, Onward, Alive
<1>7. \A c \in Held : \A d : Before(c, d) => Before(c, d)'
  BY <1>2, <1>3 DEF Before
<1> QED
  BY <1>4, <1>5, <1>6, <1>7

LEMMA OthersKept ==
  ASSUME IInv, NEW p \in Procs, StepOf(p)
  PROVE  /\ \A c \in copen' : c \in Conns /\ c[1] # p => OfRound(c)'
         /\ \A q \in Procs : q # p /\ Talking(q)' => Cur(q)' \in copen'
         /\ \A c \in Conns : c[1] # p => Account(c)'
         /\ ServerUp => \A c \in reset' : c \in Conns /\ c[1] # p => ~Alive(c[1])'
         /\ \A d \in Conns : d[1] # p /\ Unanswered(d) => Unanswered(d)'
<1>1. \A c \in Conns : c[1] \in Procs
  BY ConnFacts
<1>2. ServerUp' = ServerUp
  BY DEF StepOf, serverVars, ServerUp
<1>3. \A q \in Procs : q # p => Cur(q)' = Cur(q) /\ Cur(q) \in Conns /\ Cur(q)[1] = q
  BY CurFacts DEF StepOf, Cur, IInv
<1>4. ASSUME NEW c \in copen', c \in Conns, c[1] # p PROVE OfRound(c)'
  <2>1. OfRound(c)
    BY <1>4 DEF StepOf, IInv, OpenNow
  <2> QED
    BY <1>1, <1>4, <2>1 DEF StepOf, OfRound
<1>5. ASSUME NEW q \in Procs, q # p, Talking(q)' PROVE Cur(q)' \in copen'
  BY <1>3, <1>5 DEF StepOf, IInv, OpenNow, Talking
<1>6. ASSUME NEW c \in Conns, c[1] # p PROVE Account(c)'
  <2>1. /\ up'[c] = up[c] /\ down'[c] = down[c] /\ (c \in reset' <=> c \in reset)
        /\ bytesRead'[c[1]] = bytesRead[c[1]] /\ Cur(c[1])' = Cur(c[1]) /\ Account(c)
        /\ (Receiving(c[1])' <=> Receiving(c[1])) /\ (Alive(c[1])' <=> Alive(c[1]))
        /\ Share(c)' = Share(c)
    BY <1>1, <1>3, <1>6 DEF StepOf, IInv, Accounts, Receiving, Alive, Share
  <2> QED
    BY <1>2, <2>1 DEF Account
<1>7. ASSUME ServerUp, NEW c \in reset', c \in Conns, c[1] # p PROVE ~Alive(c[1])'
  BY <1>1, <1>7 DEF StepOf, IInv, Resets, Alive
<1>8. ASSUME NEW d \in Conns, d[1] # p, Unanswered(d) PROVE Unanswered(d)'
  BY <1>1, <1>3, <1>8 DEF StepOf, Unanswered, Alive, Talking, Receiving
<1> QED
  BY <1>4, <1>5, <1>6, <1>7, <1>8

(* What is left to show of a step of client p, unless it connects.         *)
LEMMA ClientStepIInv ==
  ASSUME IInv, NEW p \in Procs, StepOf(p), Onward(p), Types',
         \A c \in copen' : c[1] = p => OfRound(c)',
         Talking(p)' => Cur(p)' \in copen',
         \A c \in Conns : c[1] = p => Account(c)',
         ServerUp => \A c \in reset' : c[1] = p => ~Alive(p)',
         backlog' = backlog,
         \A d \in Conns : Waits(d) /\ d[1] = p => Unanswered(d)'
  PROVE  IInv'
<1>1. /\ Placed' /\ Turn' /\ ServerOutlives'
      /\ \A c \in Held : \A d : Before(c, d) => Before(c, d)'
  BY ServerSeesOnward
<1>2. copen' \subseteq Conns /\ reset' \subseteq Conns
  BY DEF Types
<1>3. ServerUp' = ServerUp /\ Held' = Held /\ \A d : Waits(d)' <=> Waits(d)
  BY DEF StepOf, serverVars, ServerUp, Held, Waits
<1>4. OpenNow'
  <2>1. \A c \in copen' : OfRound(c)'
    BY <1>2, OthersKept
  <2>2. \A q \in Procs : Talking(q)' => Cur(q)' \in copen'
    BY OthersKept
  <2> QED
    BY <2>1, <2>2 DEF OpenNow
<1>5. Accounts'
  BY OthersKept DEF Accounts
<1>6. Resets'
  <2>1. ServerUp' => \A c \in reset' : ~Alive(c[1])'
    BY <1>2, <1>3, OthersKept
  <2> QED
    BY <1>1, <2>1 DEF Resets
<1>7. Queue'
  <2>1. \A d \in Conns : Waits(d) => Unanswered(d)'
    BY OthersKept DEF IInv, Queue
  <2> QED
    BY <1>1, <1>3, <2>1 DEF IInv, Queue
<1> QED
  BY <1>1, <1>4, <1>5, <1>6, <1>7 DEF IInv

(* The end of a socket: the next is connected, or all are closed.          *)
LEMMA NextSocketFacts ==
  ASSUME Types, NEW p \in Procs, NextSocket(p), round' = round
  PROVE  /\ \/ cpc'[p] = "connect" /\ sock'[p] = sock[p] + 1 /\ sock[p] < SocketNum(round[p])
            \/ cpc'[p] = "close" /\ sock'[p] = 1
         /\ \A q \in Procs : q # p => cpc'[q] = cpc[q] /\ sock'[q] = sock[q]
         /\ cpc' \in [Procs -> {"connect", "send", "receive", "close", "done", "killed"}]
         /\ sock' \in [Procs -> 1..Sockets]
         /\ \A q \in Procs : sock'[q] <= SocketNum(round'[q])
         /\ \A c \in Conns : c[1] = p /\ Alive(p) /\ cpc[p] # "done" =>
              /\ c[2] > round[p] => Fresh(c)
              /\ Fresh(c)' => c[2] > round[p] \/ (c[2] = round[p] /\ c[3] > sock[p])
<1>1. /\ round[p] \in 1..Rounds /\ sock[p] \in 1..Sockets /\ SocketNum(round[p]) \in 1..Sockets
      /\ Sockets \in Nat
  BY RoundFacts, Constants DEF Types
<1>2. CASE /\ sock[p] < SocketNum(round[p])
           /\ Goto(p, "connect") /\ sock' = [sock EXCEPT ![p] = @ + 1]
  <2>1. /\ cpc'[p] = "connect" /\ sock'[p] = sock[p] + 1 /\ sock[p] + 1 \in 1..Sockets
        /\ sock[p] + 1 <= SocketNum(round[p])
    BY <1>1, <1>2 DEF Goto, Types
  <2>2. /\ \A q \in Procs : q # p => cpc'[q] = cpc[q] /\ sock'[q] = sock[q]
        /\ cpc' \in [Procs -> {"connect", "send", "receive", "close", "done", "killed"}]
        /\ sock' \in [Procs -> 1..Sockets]
    BY <1>2, <2>1 DEF Goto, Types
  <2>3. \A q \in Procs : sock'[q] <= SocketNum(round'[q])
    BY <2>1, <2>2 DEF Types
  <2>4. ASSUME NEW c \in Conns, c[1] = p
        PROVE  Fresh(c)' => c[2] > round[p] \/ (c[2] = round[p] /\ c[3] > sock[p])
    <3>1. c[3] \in Nat /\ (c[3] >= sock[p] + 1 => c[3] > sock[p])
      BY <1>1, ConnFacts
    <3> QED
      BY <2>1, <2>4, <3>1 DEF Fresh, Talking
  <2> QED
    BY <1>2, <2>1, <2>2, <2>3, <2>4 DEF Fresh, Alive
<1>3. CASE Goto(p, "close") /\ sock' = [sock EXCEPT ![p] = 1]
  <2>1. cpc'[p] = "close" /\ sock'[p] = 1 /\ 1 \in 1..Sockets /\ 1 <= SocketNum(round[p])
    BY <1>1, <1>3 DEF Goto, Types
  <2>2. /\ \A q \in Procs : q # p => cpc'[q] = cpc[q] /\ sock'[q] = sock[q]
        /\ cpc' \in [Procs -> {"connect", "send", "receive", "close", "done", "killed"}]
        /\ sock' \in [Procs -> 1..Sockets]
    BY <1>3, <2>1 DEF Goto, Types
  <2>3. \A q \in Procs : sock'[q] <= SocketNum(round'[q])
    BY <2>1, <2>2 DEF Types
  <2> QED
    BY <2>1, <2>2, <2>3 DEF Fresh, Alive, Talking
<1> QED
  BY <1>1, <1>2, <1>3 DEF NextSocket

LEMMA RefusedIInv == ASSUME IInv, NEW p \in Procs, Refused(p) PROVE IInv'
<1>1. /\ cpc[p] = "connect" /\ ~ServerUp /\ NextSocket(p) /\ Types
      /\ UNCHANGED <<round, msg, bytesRead, copen, backlog, up, down, reset>>
      /\ UNCHANGED serverVars
  BY DEF Refused, IInv, connVars
<1>2. /\ \/ cpc'[p] = "connect" /\ sock'[p] = sock[p] + 1 /\ sock[p] < SocketNum(round[p])
         \/ cpc'[p] = "close" /\ sock'[p] = 1
      /\ \A q \in Procs : q # p => cpc'[q] = cpc[q] /\ sock'[q] = sock[q]
      /\ cpc' \in [Procs -> {"connect", "send", "receive", "close", "done", "killed"}]
      /\ sock' \in [Procs -> 1..Sockets]
      /\ \A q \in Procs : sock'[q] <= SocketNum(round'[q])
      /\ \A c \in Conns : c[1] = p /\ Alive(p) /\ cpc[p] # "done" =>
           /\ c[2] > round[p] => Fresh(c)
           /\ Fresh(c)' => c[2] > round[p] \/ (c[2] = round[p] /\ c[3] > sock[p])
  BY <1>1, NextSocketFacts
<1>3. Types'
  BY <1>1, <1>2 DEF Types, serverVars
<1>4. StepOf(p)
  BY <1>1, <1>2 DEF StepOf
<1>5. Onward(p)
  <2>1. ASSUME NEW c \in Conns, Fresh(c)' PROVE Fresh(c)
    <3>1. CASE c[1] = p
      <4>1. c[2] > round[p] \/ (c[2] = round[p] /\ c[3] > sock[p])
        BY <1>1, <1>2, <2>1, <3>1 DEF Alive
      <4>2. c[3] \in Int /\ sock[p] \in Int
        BY <1>1, ConnFacts DEF Types
      <4> QED
        BY <1>1, <3>1, <4>1, <4>2 DEF Fresh
    <3>2. CASE c[1] # p
      BY <1>4, <2>1, <3>2, ConnFacts DEF StepOf, Fresh, Talking
    <3> QED
      BY <3>1, <3>2
  <2>2. \A q \in Procs : ~Alive(q) => ~Alive(q)'
    BY <1>1, <1>2 DEF Alive
  <2> QED
    BY <1>1, <2>1, <2>2 DEF Onward, Types
<1>6. \A c \in copen' : c[1] = p => OfRound(c)'
  <2>1. \A c \in copen : c \in Conns /\ c[3] \in 1..Sockets /\ OfRound(c)
    BY <1>1, ConnFacts DEF IInv, OpenNow, Types
  <2> QED
    BY <1>1, <1>2, <2>1 DEF OfRound
<1>7. ~Talking(p)'
  BY <1>2 DEF Talking
<1>8. \A c \in Conns : c[1] = p => Account(c)'
  <2>1. ASSUME NEW c \in Conns, c[1] = p PROVE Account(c)'
    <3>1. /\ ~Receiving(p) /\ ~Receiving(p)' /\ Alive(p) /\ Share(c)' = Share(c)
          /\ ServerUp' = ServerUp
      BY <1>1, <1>2 DEF Receiving, Alive, Share, serverVars, ServerUp
    <3>2. Account(c)
      BY DEF IInv, Accounts
    <3> QED
      BY <1>1, <2>1, <3>1, <3>2 DEF Account
  <2> QED
    BY <2>1
<1>9. \A d \in Conns : ~Waits(d)
  BY <1>1 DEF IInv, Queue, Waits
<1> QED
  BY <1>1, <1>3, <1>4, <1>5, <1>6, <1>7, <1>8, <1>9, ClientStepIInv

LEMMA SendIInv == ASSUME IInv, NEW p \in Procs, Send(p) PROVE IInv'
<1> DEFINE share == MsgSize(round[p], sock[p])
<1>1. /\ cpc[p] = "send" /\ cpc' = [cpc EXCEPT ![p] = "receive"]
      /\ bytesRead' = [bytesRead EXCEPT ![p] = 0]
      /\ up' = IF ServerUp THEN [up EXCEPT ![Cur(p)] = @ + share] ELSE up
      /\ UNCHANGED <<round, sock, msg, copen, backlog, down, reset, serverVars>> /\ Types
  BY DEF Send, IInv, Goto
<1>2. cpc'[p] = "receive" /\ bytesRead'[p] = 0 /\ \A q \in Procs : Cur(q)' = Cur(q)
  BY <1>1 DEF Types, Cur
<1>3. /\ Cur(p) \in Conns /\ Cur(p)[1] = p /\ Cur(p)[2] = round[p] /\ Cur(p)[3] = sock[p]
      /\ Share(Cur(p)) = share /\ share \in Nat
  BY <1>1, CurFacts, ShareFact DEF Share
<1>4. up[Cur(p)] = 0 /\ down[Cur(p)] = 0 /\ Cur(p) \in copen
  BY <1>1, <1>3 DEF IInv, Accounts, Account, OpenNow, Talking, Receiving, Alive
<1>5. /\ up' \in [Conns -> Nat] /\ up'[Cur(p)] = (IF ServerUp THEN share ELSE 0)
      /\ \A c \in Conns : c # Cur(p) => up'[c] = up[c]
  <2> HIDE DEF share
  <2>1. up \in [Conns -> Nat]
    BY <1>1 DEF Types
  <2>2. CASE ServerUp
    BY <1>1, <1>3, <1>4, <2>1, <2>2
  <2>3. CASE ~ServerUp
    BY <1>1, <1>3, <1>4, <2>1, <2>3
  <2> QED
    BY <2>2, <2>3
<1> HIDE DEF share
<1>6. Types'
  BY <1>1, <1>5, SizeFact DEF Types, serverVars
<1>7. StepOf(p)
  BY <1>1, <1>3, <1>5 DEF StepOf, Types
<1>8. Onward(p)
  <2>1. ASSUME NEW c \in Conns, Fresh(c)' PROVE Fresh(c)
    <3>1. cpc'[c[1]] = cpc[c[1]] \/ (cpc[c[1]] = "send" /\ cpc'[c[1]] = "receive")
      BY <1>1, ConnFacts DEF Types
    <3> QED
      BY <1>1, <2>1, <3>1 DEF Fresh, Talking
  <2>2. \A q \in Procs : ~Alive(q) => ~Alive(q)'
    BY <1>1 DEF Alive, Types
  <2>3. ASSUME NEW c \in Conns
        PROVE  up'[c] \in Nat /\ up[c] \in Nat /\ up'[c] >= up[c] /\ (c \notin copen => up'[c] = up[c])
    <3>1. up'[c] \in Nat /\ up[c] \in Nat
      BY <1>1, <1>5 DEF Types
    <3>2. CASE c = Cur(p)
      BY <1>4, <3>1, <3>2
    <3>3. CASE c # Cur(p)
      BY <1>5, <3>1, <3>3
    <3> QED
      BY <3>1, <3>2, <3>3
  <2> QED
    BY <1>1, <2>1, <2>2, <2>3 DEF Onward
<1>9. \A c \in copen' : c[1] = p => OfRound(c)'
  BY <1>1, <1>2 DEF IInv, OpenNow, OfRound
<1>10. Cur(p)' \in copen'
  BY <1>1, <1>2, <1>4
<1>11. ASSUME NEW c \in Conns, c[1] = p PROVE Account(c)'
  <2>1. /\ ~Receiving(p) /\ Receiving(p)' /\ Alive(p) /\ Alive(p)' /\ Share(c)' = Share(c)
        /\ ServerUp' = ServerUp /\ Cur(p)' = Cur(p)
    BY <1>1, <1>2 DEF Receiving, Alive, Share, serverVars, ServerUp
  <2>2. Account(c) /\ Share(c) \in Nat
    BY ShareFact DEF IInv, Accounts
  <2>3. CASE c = Cur(p)
    BY <1>1, <1>2, <1>3, <1>4, <1>5, <1>11, <2>1, <2>2, <2>3 DEF Account
  <2>4. CASE c # Cur(p)
    BY <1>1, <1>5, <1>11, <2>1, <2>2, <2>4 DEF Account
  <2> QED
    BY <2>3, <2>4
<1>12. ServerUp => \A c \in reset' : c[1] = p => ~Alive(p)'
  BY <1>1 DEF IInv, Resets, Alive
<1>13. \A d \in Conns : Waits(d) /\ d[1] = p => Unanswered(d)'
  BY <1>1, <1>2, <1>4 DEF IInv, Queue, Unanswered, Alive, Talking
<1> QED
  BY <1>1, <1>6, <1>7, <1>8, <1>9, <1>10, <1>11, <1>12, <1>13, ClientStepIInv

LEMMA ReceiveFailsIInv == ASSUME IInv, NEW p \in Procs, ReceiveFails(p) PROVE IInv'
<1>1. /\ cpc[p] = "receive" /\ down[Cur(p)] = 0 /\ ~ServerUp /\ Types
      /\ UNCHANGED <<cpc, round, sock, msg, copen, backlog, up, down, serverVars>>
      /\ \/ /\ Cur(p) \in reset /\ bytesRead' = [bytesRead EXCEPT ![p] = @ - 1]
            /\ reset' = reset \ {Cur(p)}
         \/ Cur(p) \notin reset /\ UNCHANGED <<bytesRead, reset>>
  BY DEF ReceiveFails, IInv
<1>2. /\ Cur(p) \in Conns /\ Cur(p)[1] = p /\ \A q \in Procs : Cur(q)' = Cur(q)
  BY <1>1, CurFacts DEF Cur
<1>3. /\ up[Cur(p)] = 0 /\ bytesRead[p] \in Int /\ Share(Cur(p)) \in Nat
      /\ Cur(p) \in reset => bytesRead[p] >= 0
      /\ bytesRead[p] <= Share(Cur(p))
  <2>1. Account(Cur(p)) /\ Receiving(p) /\ Share(Cur(p)) \in Nat /\ Size(Rounds) \in Nat
    BY <1>1, <1>2, ShareFact, SizeFact DEF IInv, Accounts, Receiving
  <2>2. up[Cur(p)] \in Nat /\ down[Cur(p)] \in Nat /\ bytesRead[p] \in Int
    BY <1>1, <1>2, <2>1 DEF Types
  <2> QED
    BY <1>1, <1>2, <2>1, <2>2 DEF Account
<1>4. /\ bytesRead' \in [Procs -> -1..Size(Rounds)]
      /\ \A q \in Procs : q # p => bytesRead'[q] = bytesRead[q]
      /\ bytesRead'[p] \in Int /\ bytesRead'[p] <= bytesRead[p]
      /\ reset' \subseteq reset /\ Cur(p) \notin reset'
      /\ \A c \in Conns : c # Cur(p) => (c \in reset' <=> c \in reset)
  <2>1. bytesRead \in [Procs -> -1..Size(Rounds)] /\ Size(Rounds) \in Nat
    BY <1>1, SizeFact DEF Types
  <2>2. Cur(p) \in reset => bytesRead[p] - 1 \in -1..Size(Rounds) /\ bytesRead[p] - 1 <= bytesRead[p]
    BY <1>3, <2>1
  <2> QED
    BY <1>1, <1>3, <2>1, <2>2
<1>5. Types'
  <2>1. reset' \subseteq Conns
    BY <1>1, <1>4 DEF Types
  <2> QED
    BY <1>1, <1>4, <2>1 DEF Types, serverVars
<1>6. StepOf(p)
  BY <1>1, <1>2, <1>4 DEF StepOf
<1>7. Onward(p)
  BY <1>1 DEF Onward, Fresh, Talking, Alive, Types
<1>8. \A c \in copen' : c[1] = p => OfRound(c)'
  BY <1>1 DEF IInv, OpenNow, OfRound
<1>9. Talking(p)' => Cur(p)' \in copen'
  BY <1>1, <1>2 DEF IInv, OpenNow, Talking
<1>10. ASSUME NEW c \in Conns, c[1] = p PROVE Account(c)'
  <2>1. /\ Receiving(p) /\ Receiving(p)' /\ Alive(p)' /\ Alive(p) /\ Share(c)' = Share(c)
        /\ ~ServerUp' /\ Cur(p)' = Cur(p)
    BY <1>1, <1>2 DEF Receiving, Alive, Share, serverVars, ServerUp
  <2>2. Account(c) /\ Share(c) \in Nat
    BY ShareFact DEF IInv, Accounts
  <2>3. CASE c = Cur(p)
    BY <1>1, <1>3, <1>4, <1>10, <2>1, <2>2, <2>3 DEF Account
  <2>4. CASE c # Cur(p)
    BY <1>1, <1>10, <2>1, <2>2, <2>4 DEF Account
  <2> QED
    BY <2>3, <2>4
<1>11. \A d \in Conns : ~Waits(d)
  BY <1>1 DEF IInv, Queue, Waits
<1> QED
  BY <1>1, <1>5, <1>6, <1>7, <1>8, <1>9, <1>10, <1>11, ClientStepIInv

LEMMA WarmUpFailsIInv == ASSUME IInv, NEW p \in Procs, WarmUpFails(p) PROVE IInv'
<1>1. /\ cpc[p] = "receive" /\ down[Cur(p)] = 0 /\ ~ServerUp /\ Types
      /\ UNCHANGED <<round, bytesRead, copen, backlog, up, down, serverVars>>
      /\ reset' = reset \ {Cur(p)} /\ IsWarmUp(round[p]) /\ NextMessage(p)
  BY DEF WarmUpFails, IInv
<1>2. /\ Cur(p) \in Conns /\ Cur(p)[1] = p
  BY <1>1, CurFacts
<1>3. msg' = [msg EXCEPT ![p] = 0] /\ NextSocket(p)
  <2>1. MsgNum(round[p]) = 1 /\ msg[p] \in 0..(Messages - 1) /\ Messages \in Nat
    BY <1>1, Constants DEF MsgNum, Types
  <2>2. ~ (msg[p] + 1 < MsgNum(round[p]))
    BY <2>1
  <2> QED
    BY <1>1, <2>2 DEF NextMessage
<1>4. /\ \/ cpc'[p] = "connect" /\ sock'[p] = sock[p] + 1 /\ sock[p] < SocketNum(round[p])
         \/ cpc'[p] = "close" /\ sock'[p] = 1
      /\ \A q \in Procs : q # p => cpc'[q] = cpc[q] /\ sock'[q] = sock[q]
      /\ cpc' \in [Procs -> {"connect", "send", "receive", "close", "done", "killed"}]
      /\ sock' \in [Procs -> 1..Sockets]
      /\ \A q \in Procs : sock'[q] <= SocketNum(round'[q])
      /\ \A c \in Conns : c[1] = p /\ Alive(p) /\ cpc[p] # "done" =>
           /\ c[2] > round[p] => Fresh(c)
           /\ Fresh(c)' => c[2] > round[p] \/ (c[2] = round[p] /\ c[3] > sock[p])
  BY <1>1, <1>3, NextSocketFacts
<1>5. Types'
  <2>1. 0 \in 0..(Messages - 1) /\ reset' \subseteq Conns
    BY <1>1, Constants DEF Types
  <2>2. msg' \in [Procs -> 0..(Messages - 1)]
    BY <1>1, <1>3, <2>1 DEF Types
  <2> QED
    BY <1>1, <1>4, <2>1, <2>2 DEF Types, serverVars
<1>6. StepOf(p)
  BY <1>1, <1>2, <1>4 DEF StepOf
<1>7. Onward(p)
  <2>1. ASSUME NEW c \in Conns, Fresh(c)' PROVE Fresh(c)
    <3>1. CASE c[1] = p
      <4>1. c[2] > round[p] \/ (c[2] = round[p] /\ c[3] > sock[p])
        BY <1>1, <1>4, <2>1, <3>1 DEF Alive
      <4> QED
        BY <1>1, <3>1, <4>1 DEF Fresh, Talking
    <3>2. CASE c[1] # p
      BY <1>6, <2>1, <3>2, ConnFacts DEF StepOf, Fresh, Talking
    <3> QED
      BY <3>1, <3>2
  <2>2. \A q \in Procs : ~Alive(q) => ~Alive(q)'
    BY <1>1, <1>4 DEF Alive
  <2> QED
    BY <1>1, <2>1, <2>2 DEF Onward, Types
<1>8. \A c \in copen' : c[1] = p => OfRound(c)'
  <2>1. \A c \in copen : c \in Conns /\ c[3] \in 1..Sockets /\ OfRound(c)
    BY <1>1, ConnFacts DEF IInv, OpenNow, Types
  <2> QED
    BY <1>1, <1>4, <2>1 DEF OfRound
<1>9. ~Talking(p)'
  BY <1>4 DEF Talking
<1>10. ASSUME NEW c \in Conns, c[1] = p PROVE Account(c)'
  <2>1. /\ Receiving(p) /\ ~Receiving(p)' /\ Share(c)' = Share(c) /\ ~ServerUp'
    BY <1>1, <1>4 DEF Receiving, Share, serverVars, ServerUp
  <2>2. Account(c)
    BY DEF IInv, Accounts
  <2>3. up[c] = 0 /\ down[c] = 0
    BY <1>1, <1>10, <2>2 DEF Account
  <2>4. Share(c) \in Nat
    BY ShareFact
  <2> QED
    BY <1>1, <1>10, <2>1, <2>3, <2>4 DEF Account
<1>11. \A d \in Conns : ~Waits(d)
  BY <1>1 DEF IInv, Queue, Waits
<1> QED
  BY <1>1, <1>5, <1>6, <1>7, <1>8, <1>9, <1>10, <1>11, ClientStepIInv

LEMMA ReceiveIInv == ASSUME IInv, NEW p \in Procs, Receive(p) PROVE IInv'
<1> DEFINE old  == Cur(p)
           read == bytesRead[p] + down[Cur(p)]
<1>1. /\ cpc[p] = "receive" /\ down[old] > 0
      /\ bytesRead' = [bytesRead EXCEPT ![p] = read]
      /\ down' = [down EXCEPT ![old] = 0]
      /\ IF read < Share(old) THEN UNCHANGED <<cpc, sock, msg>> ELSE NextMessage(p)
      /\ UNCHANGED <<round, copen, backlog, up, reset, serverVars>> /\ Types
  <2>1. Types /\ bytesRead' = [bytesRead EXCEPT ![p] = read]
    BY DEF Receive, IInv
  <2>2. bytesRead'[p] = read
    BY <2>1 DEF Types
  <2>3. Share(old) = MsgSize(round[p], sock[p])
    BY <2>1, CurFacts DEF Share
  <2> HIDE DEF read
  <2> QED
    BY <2>1, <2>2, <2>3 DEF Receive, WantsMore
<1>2. /\ old \in Conns /\ old[1] = p /\ old[2] = round[p] /\ old[3] = sock[p]
      /\ Share(old) \in Nat /\ Share(old) <= Size(Rounds) /\ Size(Rounds) \in Nat
  BY <1>1, CurFacts, ShareFact, SizeFact
<1>3. /\ up[old] \in Nat /\ down[old] \in Nat /\ bytesRead[p] \in Int /\ bytesRead[p] >= -1
      /\ up[old] + down[old] + bytesRead[p] <= Share(old)
      /\ ServerUp => up[old] + down[old] + bytesRead[p] = Share(old)
      /\ ServerUp \/ old \in reset => bytesRead[p] >= 0
      /\ ~ServerUp => up[old] = 0
      /\ old \in copen
  <2>1. Account(old) /\ Receiving(p) /\ old \in copen
    BY <1>1, <1>2 DEF IInv, Accounts, Receiving, OpenNow, Talking
  <2> HIDE DEF old
  <2>2. up[old] \in Nat /\ down[old] \in Nat /\ bytesRead[p] \in Int /\ bytesRead[p] >= -1
    BY <1>1, <1>2 DEF Types
  <2>3. old = Cur(p)
    BY DEF old
  <2> QED
    BY <1>1, <1>2, <2>1, <2>2, <2>3 DEF Account
<1>4. read \in Int /\ -1 <= read /\ bytesRead[p] <= read /\ read <= Share(old)
  BY <1>2, <1>3
<1>5. /\ bytesRead' \in [Procs -> -1..Size(Rounds)] /\ bytesRead'[p] = read
      /\ \A q \in Procs : q # p => bytesRead'[q] = bytesRead[q]
  <2> HIDE DEF read, old
  <2>1. read \in -1..Size(Rounds)
    BY <1>2, <1>4
  <2> QED
    BY <1>1, <2>1 DEF Types
<1>6. /\ down' \in [Conns -> Nat] /\ down'[old] = 0
      /\ \A c \in Conns : c # old => down'[c] = down[c]
  <2> HIDE DEF old, read
  <2> QED
    BY <1>1, <1>2 DEF Types
<1>7. /\ \/ read < Share(old) /\ cpc'[p] = "receive" /\ sock'[p] = sock[p]
         \/ read >= Share(old) /\ cpc'[p] = "send" /\ sock'[p] = sock[p]
         \/ read >= Share(old) /\ cpc'[p] = "connect"
         \/ read >= Share(old) /\ cpc'[p] = "close" /\ sock'[p] = 1
      /\ \A q \in Procs : q # p => cpc'[q] = cpc[q] /\ sock'[q] = sock[q]
      /\ cpc' \in [Procs -> {"connect", "send", "receive", "close", "done", "killed"}]
      /\ sock' \in [Procs -> 1..Sockets] /\ msg' \in [Procs -> 0..(Messages - 1)]
      /\ \A q \in Procs : sock'[q] <= SocketNum(round'[q])
      /\ \A c \in Conns : c[1] = p /\ Fresh(c)' => Fresh(c)
  <2> HIDE DEF read, old
  <2>1. CASE read < Share(old)
    <3>1. UNCHANGED <<cpc, sock, msg, round>>
      BY <1>1, <2>1
    <3> QED
      BY <1>1, <2>1, <3>1 DEF Types, Fresh, Talking
  <2>2. CASE ~ (read < Share(old)) /\ msg[p] + 1 < MsgNum(round[p])
    <3>1. /\ msg' = [msg EXCEPT ![p] = @ + 1] /\ cpc' = [cpc EXCEPT ![p] = "send"]
          /\ sock' = sock /\ round' = round
      BY <1>1, <2>2 DEF NextMessage, Goto
    <3>2. msg[p] + 1 \in 0..(Messages - 1)
      <4>1. MsgNum(round[p]) \in 1..Messages /\ msg[p] \in 0..(Messages - 1) /\ Messages \in Nat
        BY <1>1, RoundFacts, Constants DEF Types
      <4> QED
        BY <2>2, <4>1
    <3>3. /\ cpc'[p] = "send" /\ \A q \in Procs : q # p => cpc'[q] = cpc[q]
          /\ cpc' \in [Procs -> {"connect", "send", "receive", "close", "done", "killed"}]
          /\ msg' \in [Procs -> 0..(Messages - 1)]
      BY <1>1, <3>1, <3>2 DEF Types
    <3>4. \A c \in Conns : c[1] = p /\ Fresh(c)' => Fresh(c)
      BY <1>1, <3>1, <3>3 DEF Fresh, Talking
    <3>5. read >= Share(old)
      BY <1>2, <1>4, <2>2
    <3> QED
      BY <1>1, <3>1, <3>3, <3>4, <3>5 DEF Types
  <2>3. CASE ~ (read < Share(old)) /\ ~ (msg[p] + 1 < MsgNum(round[p]))
    <3>1. msg' = [msg EXCEPT ![p] = 0] /\ NextSocket(p) /\ round' = round
      BY <1>1, <2>3 DEF NextMessage
    <3>2. msg' \in [Procs -> 0..(Messages - 1)]
      <4>1. 0 \in 0..(Messages - 1)
        BY Constants
      <4> QED
        BY <1>1, <3>1, <4>1 DEF Types
    <3>3. /\ cpc'[p] = "connect" \/ (cpc'[p] = "close" /\ sock'[p] = 1)
          /\ \A q \in Procs : q # p => cpc'[q] = cpc[q] /\ sock'[q] = sock[q]
          /\ cpc' \in [Procs -> {"connect", "send", "receive", "close", "done", "killed"}]
          /\ sock' \in [Procs -> 1..Sockets]
          /\ \A q \in Procs : sock'[q] <= SocketNum(round'[q])
          /\ \A c \in Conns : c[1] = p /\ Alive(p) /\ cpc[p] # "done" =>
               (Fresh(c)' => c[2] > round[p] \/ (c[2] = round[p] /\ c[3] > sock[p]))
      BY <1>1, <3>1, NextSocketFacts
    <3>4. \A c \in Conns : c[1] = p /\ Fresh(c)' => Fresh(c)
      BY <1>1, <3>3 DEF Fresh, Talking, Alive
    <3>5. read >= Share(old)
      BY <1>2, <1>4, <2>3
    <3> QED
      BY <3>2, <3>3, <3>4, <3>5
  <2> QED
    BY <2>1, <2>2, <2>3
<1> HIDE DEF read
<1>8. Types'
  BY <1>1, <1>5, <1>6, <1>7 DEF Types, serverVars
<1>9. StepOf(p)
  BY <1>1, <1>2, <1>5, <1>6, <1>7 DEF StepOf
<1>10. Onward(p)
  <2>1. ASSUME NEW c \in Conns, Fresh(c)' PROVE Fresh(c)
    <3>1. CASE c[1] # p
      BY <1>9, <2>1, <3>1, ConnFacts DEF StepOf, Fresh, Talking
    <3> QED
      BY <1>7, <2>1, <3>1
  <2>2. \A q \in Procs : ~Alive(q) => ~Alive(q)'
    BY <1>1, <1>7 DEF Alive
  <2> QED
    BY <1>1, <2>1, <2>2 DEF Onward, Types
<1>11. \A c \in copen' : c[1] = p => OfRound(c)'
  <2>1. \A c \in copen : c \in Conns /\ c[3] \in 1..Sockets /\ OfRound(c)
    BY <1>1, ConnFacts DEF IInv, OpenNow, Types
  <2> QED
    BY <1>1, <1>7, <2>1 DEF OfRound
<1>12. Talking(p)' => Cur(p)' \in copen'
  <2>1. Talking(p)' => Cur(p)' = old
    BY <1>1, <1>7 DEF Talking, Cur
  <2> QED
    BY <1>1, <1>3, <2>1
<1>13. ASSUME NEW c \in Conns, c[1] = p PROVE Account(c)'
  <2>1. /\ Receiving(p) /\ Alive(p) /\ Share(c)' = Share(c) /\ ServerUp' = ServerUp
        /\ Receiving(p)' => Cur(p)' = old /\ read < Share(old)
        /\ ~Receiving(p)' => read >= Share(old)
    BY <1>1, <1>2, <1>4, <1>7 DEF Receiving, Alive, Share, serverVars, ServerUp, Cur
  <2>2. Account(c) /\ Share(c) \in Nat
    BY ShareFact DEF IInv, Accounts
  <2>3. CASE c = old
    <3>1. ~Receiving(p)' => up[old] = 0
      BY <1>3, <1>4, <2>1 DEF read
    <3>2. up[old] + 0 + read = up[old] + down[old] + bytesRead[p]
      BY <1>3 DEF read
    <3> HIDE DEF old
    <3> QED
      BY <1>1, <1>3, <1>4, <1>5, <1>6, <1>13, <2>1, <2>2, <2>3, <3>1, <3>2 DEF Account
  <2>4. CASE c # old
    BY <1>1, <1>6, <1>13, <2>1, <2>2, <2>4 DEF Account
  <2> QED
    BY <2>3, <2>4
<1>14. ServerUp => \A c \in reset' : c[1] = p => ~Alive(p)'
  BY <1>1 DEF IInv, Resets, Alive
<1>15. \A d \in Conns : Waits(d) => d[1] # p
  BY <1>1 DEF IInv, Queue, Unanswered, Alive, Talking, Receiving
<1> QED
  BY <1>1, <1>8, <1>9, <1>10, <1>11, <1>12, <1>13, <1>14, <1>15, ClientStepIInv

LEMMA CloseIInv == ASSUME IInv, NEW p \in Procs, Close(p) PROVE IInv'
<1> DEFINE cs == {Cur(p)} \cap copen
<1>1. /\ cpc[p] = "close" /\ Types /\ CloseEnds(cs)
      /\ UNCHANGED <<msg, bytesRead, backlog, up, serverVars>>
      /\ \/ sock[p] < SocketNum(round[p])
            /\ sock' = [sock EXCEPT ![p] = @ + 1] /\ UNCHANGED <<cpc, round>>
         \/ /\ ~ (sock[p] < SocketNum(round[p])) /\ sock' = [sock EXCEPT ![p] = 1]
            /\ \/ /\ round[p] < Rounds /\ round' = [round EXCEPT ![p] = @ + 1]
                  /\ cpc' = [cpc EXCEPT ![p] = "connect"]
               \/ cpc' = [cpc EXCEPT ![p] = "done"] /\ UNCHANGED round
  BY DEF Close, IInv, Goto
<1>2. /\ Cur(p) \in Conns /\ Cur(p)[1] = p
      /\ \A c \in Conns : c = Cur(p) <=> c[1] = p /\ c[2] = round[p] /\ c[3] = sock[p]
  BY <1>1, CurFacts
<1>3. /\ round[p] \in 1..Rounds /\ sock[p] \in 1..Sockets /\ SocketNum(round[p]) \in 1..Sockets
      /\ Sockets \in Nat \ {0} /\ Rounds \in Nat \ {0}
  BY <1>1, RoundFacts, Constants DEF Types
<1>4. \A c \in Conns : c[1] = p => up[c] = 0 /\ down[c] = 0
  BY <1>1 DEF IInv, Accounts, Account, Receiving, Alive
<1>5. /\ copen' = copen \ cs /\ down' = down
      /\ IF ServerUp THEN reset' = reset ELSE reset' = reset \ cs
  <2>1. \A c \in cs : down[c] = 0
    BY <1>2, <1>4
  <2>2. down' = [c \in Conns |-> IF c \in cs THEN 0 ELSE down[c]] /\ down \in [Conns -> Nat]
    BY <1>1 DEF CloseEnds, Types
  <2> HIDE DEF cs
  <2>3. down' = down
    BY <2>1, <2>2
  <2>4. {c \in cs : down[c] > 0} = {}
    BY <2>1
  <2> QED
    BY <1>1, <2>3, <2>4 DEF CloseEnds
<1>6. \/ /\ cpc'[p] = "close" /\ round'[p] = round[p] /\ sock'[p] = sock[p] + 1
         /\ sock[p] < SocketNum(round[p])
      \/ /\ cpc'[p] = "connect" /\ round'[p] = round[p] + 1 /\ round[p] < Rounds
         /\ sock'[p] = 1 /\ ~ (sock[p] < SocketNum(round[p]))
      \/ /\ cpc'[p] = "done" /\ round'[p] = round[p]
         /\ sock'[p] = 1 /\ ~ (sock[p] < SocketNum(round[p]))
  BY <1>1 DEF Types
<1>7. /\ \A q \in Procs : q # p => cpc'[q] = cpc[q] /\ sock'[q] = sock[q] /\ round'[q] = round[q]
      /\ cpc' \in [Procs -> {"connect", "send", "receive", "close", "done", "killed"}]
      /\ sock' \in [Procs -> 1..Sockets] /\ round' \in [Procs -> 1..Rounds]
      /\ \A q \in Procs : sock'[q] <= SocketNum(round'[q])
  <2>1. sock'[p] \in 1..Sockets /\ round'[p] \in 1..Rounds
    BY <1>3, <1>6
  <2>2. sock'[p] <= SocketNum(round'[p])
    <3>1. SocketNum(round'[p]) \in 1..Sockets
      BY <2>1, RoundFacts
    <3> QED
      BY <1>3, <1>6, <3>1
  <2>3. /\ \A q \in Procs : q # p => cpc'[q] = cpc[q] /\ sock'[q] = sock[q] /\ round'[q] = round[q]
        /\ cpc' \in [Procs -> {"connect", "send", "receive", "close", "done", "killed"}]
    BY <1>1 DEF Types
  <2>4. sock' \in [Procs -> 1..Sockets]
    <3>1. sock' = [sock EXCEPT ![p] = sock'[p]]
      BY <1>1 DEF Types
    <3> QED
      BY <1>1, <2>1, <3>1 DEF Types
  <2>5. round' \in [Procs -> 1..Rounds]
    <3>1. round' = [round EXCEPT ![p] = round'[p]]
      BY <1>1 DEF Types
    <3> QED
      BY <1>1, <2>1, <3>1 DEF Types
  <2> QED
    BY <1>1, <2>2, <2>3, <2>4, <2>5 DEF Types
<1>8. Types'
  <2>1. copen' \subseteq Conns /\ reset' \subseteq Conns
    BY <1>1, <1>5 DEF Types
  <2> QED
    BY <1>1, <1>5, <1>7, <2>1 DEF Types, serverVars
<1>9. StepOf(p)
  <2>1. \A c \in cs : c[1] = p
    BY <1>2
  <2>2. \A c \in Conns : c[1] # p => (c \in copen' <=> c \in copen) /\ (c \in reset' <=> c \in reset)
    BY <1>5, <2>1
  <2> QED
    BY <1>1, <1>5, <1>7, <2>2 DEF StepOf
<1>10. Onward(p)
  <2>1. ASSUME NEW c \in Conns, Fresh(c)' PROVE Fresh(c)
    <3>1. CASE c[1] = p
      <4>1. c[2] \in Int /\ c[2] > round[p]
        BY <1>3, <1>6, <2>1, <3>1, ConnFacts DEF Fresh, Talking
      <4> QED
        BY <1>1, <3>1, <4>1 DEF Fresh
    <3>2. CASE c[1] # p
      BY <1>9, <2>1, <3>2, ConnFacts DEF StepOf, Fresh, Talking
    <3> QED
      BY <3>1, <3>2
  <2>2. \A q \in Procs : ~Alive(q) => ~Alive(q)'
    BY <1>1, <1>7 DEF Alive
  <2> QED
    BY <1>1, <1>5, <2>1, <2>2 DEF Onward, Types
<1>11. ASSUME NEW c \in copen', c[1] = p PROVE OfRound(c)'
  <2>1. /\ c \in Conns /\ c[3] \in 1..Sockets /\ OfRound(c) /\ c # Cur(p)
    BY <1>1, <1>5, <1>11, ConnFacts DEF IInv, OpenNow, Types
  <2>2. /\ c[2] = round[p] /\ c[3] <= SocketNum(round[p]) /\ c[3] >= sock[p] /\ c[3] # sock[p]
    BY <1>1, <1>2, <1>11, <2>1 DEF OfRound
  <2>3. sock[p] < SocketNum(round[p]) /\ c[3] >= sock[p] + 1
    BY <1>3, <2>1, <2>2
  <2> QED
    BY <1>6, <1>11, <2>2, <2>3 DEF OfRound
<1>12. ~Talking(p)'
  BY <1>6 DEF Talking
<1>13. ASSUME NEW c \in Conns, c[1] = p PROVE Account(c)'
  <2>1. ~Receiving(p) /\ ~Receiving(p)' /\ Share(c)' = Share(c) /\ Share(c) \in Nat
    BY <1>1, <1>6, ShareFact DEF Receiving, Share
  <2>2. up'[c] = 0 /\ down'[c] = 0
    BY <1>1, <1>4, <1>5, <1>13
  <2> QED
    BY <1>13, <2>1, <2>2 DEF Account
<1>14. ServerUp => \A c \in reset' : c[1] = p => ~Alive(p)'
  BY <1>1, <1>5 DEF IInv, Resets, Alive
<1>15. \A d \in Conns : Waits(d) => d[1] # p
  BY <1>1 DEF IInv, Queue, Unanswered, Alive, Talking
<1> QED
  BY <1>1, <1>8, <1>9, <1>10, <1>11, <1>12, <1>13, <1>14, <1>15, ClientStepIInv

LEMMA KillIInv == ASSUME IInv, NEW p \in Procs, Kill(p) PROVE IInv'
<1> DEFINE cs == {c \in copen : c[1] = p}
<1>1. /\ cpc[p] \notin {"done", "killed"} /\ Types /\ CloseEnds(cs)
      /\ cpc' = [cpc EXCEPT ![p] = "killed"]
      /\ round' = [round EXCEPT ![p] = 1] /\ sock' = [sock EXCEPT ![p] = 1]
      /\ msg' = [msg EXCEPT ![p] = 0] /\ bytesRead' = [bytesRead EXCEPT ![p] = 0]
      /\ UNCHANGED <<backlog, up, serverVars>>
  BY DEF Kill, IInv, Goto
<1>2. cpc'[p] = "killed" /\ ~Alive(p)' /\ ~Talking(p)' /\ ~Receiving(p)'
  BY <1>1 DEF Types, Alive, Talking, Receiving
<1>3. cs \subseteq copen /\ copen \subseteq Conns /\ \A c \in Conns : c \in cs <=> c \in copen /\ c[1] = p
  BY <1>1 DEF Types
<1> HIDE DEF cs
<1>4. /\ \A c \in Conns : c[1] = p => c \notin copen'
      /\ copen' = copen \ cs /\ reset' \subseteq Conns
      /\ \A c \in Conns : c[1] # p => /\ c \in copen' <=> c \in copen
                                      /\ c \in reset' <=> c \in reset
      /\ \A c \in Conns : down'[c] = IF c \in cs THEN 0 ELSE down[c]
      /\ down' \in [Conns -> Nat]
  <2>1. copen' = copen \ cs /\ reset' \subseteq reset \cup cs /\ reset \subseteq reset' \cup cs
    BY <1>1 DEF CloseEnds
  <2>2. down' = [c \in Conns |-> IF c \in cs THEN 0 ELSE down[c]] /\ down \in [Conns -> Nat]
    BY <1>1 DEF CloseEnds, Types
  <2>3. \A c \in Conns : c[1] # p => c \notin cs
    BY <1>3
  <2>4. reset' \subseteq Conns
    BY <1>1, <1>3, <2>1 DEF Types
  <2>5. /\ \A c \in Conns : c[1] # p => /\ c \in copen' <=> c \in copen
                                        /\ c \in reset' <=> c \in reset
        /\ \A c \in Conns : c[1] = p => c \notin copen'
    BY <1>3, <2>1, <2>3
  <2> QED
    BY <2>1, <2>2, <2>4, <2>5
<1>5. Types'
  <2>1. 1 \in 1..Rounds /\ 1 \in 1..Sockets /\ 0 \in 0..(Messages - 1) /\ 0 \in -1..Size(Rounds)
        /\ 1 <= SocketNum(1)
    <3>1. 1 \in 1..Rounds /\ 1 \in 1..Sockets /\ 0 \in 0..(Messages - 1) /\ 0 \in -1..Size(Rounds)
      BY Constants, RoundFacts, SizeFact
    <3>2. SocketNum(1) \in 1..Sockets
      BY <3>1, RoundFacts
    <3> QED
      BY <3>1, <3>2, Constants
  <2>2. /\ cpc' \in [Procs -> {"connect", "send", "receive", "close", "done", "killed"}]
        /\ round' \in [Procs -> 1..Rounds] /\ sock' \in [Procs -> 1..Sockets]
        /\ msg' \in [Procs -> 0..(Messages - 1)] /\ bytesRead' \in [Procs -> -1..Size(Rounds)]
        /\ \A q \in Procs : sock'[q] <= SocketNum(round'[q])
    BY <1>1, <2>1 DEF Types
  <2>3. copen' \subseteq Conns
    BY <1>3, <1>4
  <2> QED
    BY <1>1, <1>4, <2>2, <2>3 DEF Types, serverVars
<1>6. StepOf(p)
  <2>1. \A q \in Procs : q # p =>
          cpc'[q] = cpc[q] /\ round'[q] = round[q] /\ sock'[q] = sock[q]
            /\ bytesRead'[q] = bytesRead[q]
    BY <1>1 DEF Types
  <2>2. \A c \in Conns : c[1] # p => down'[c] = down[c]
    BY <1>3, <1>4
  <2> QED
    BY <1>1, <1>4, <2>1, <2>2 DEF StepOf
<1>7. Onward(p)
  <2>1. ASSUME NEW c \in Conns, Fresh(c)' PROVE Fresh(c)
    <3>1. c[1] # p
      BY <1>2, <2>1 DEF Fresh
    <3> QED
      BY <1>6, <2>1, <3>1, ConnFacts DEF StepOf, Fresh, Talking
  <2>2. \A q \in Procs : ~Alive(q) => ~Alive(q)'
    BY <1>2, <1>6 DEF Alive, StepOf
  <2> QED
    BY <1>1, <1>4, <2>1, <2>2 DEF Onward, Types
<1>8. ASSUME NEW c \in copen' PROVE c[1] # p
  <2>1. c \in Conns
    BY <1>3, <1>4
  <2> QED
    BY <1>4, <2>1
<1>9. ASSUME NEW c \in Conns, c[1] = p PROVE Account(c)'
  <2>1. Account(c) /\ Share(c) \in Nat /\ Share(c)' = Share(c) /\ ServerUp' = ServerUp
    BY <1>1, ShareFact DEF IInv, Accounts, Share, ServerUp, serverVars
  <2>2. up[c] \in Nat /\ down[c] \in Nat /\ up'[c] = up[c]
    BY <1>1 DEF Types
  <2>3. down'[c] = 0
    <3>1. CASE c \in cs
      BY <1>4, <3>1
    <3>2. CASE c \notin cs
      <4>1. ~ (Receiving(p) /\ c = Cur(p))
        BY <1>3, <1>9, <3>2 DEF IInv, OpenNow, Talking, Receiving
      <4> QED
        BY <1>4, <1>9, <2>1, <3>2, <4>1 DEF Account
    <3> QED
      BY <3>1, <3>2
  <2> QED
    BY <1>2, <1>9, <2>1, <2>2, <2>3 DEF Account
<1>10. \A d \in Conns : Waits(d) /\ d[1] = p => Unanswered(d)'
  BY <1>2 DEF Unanswered
<1> QED
  BY <1>1, <1>2, <1>5, <1>6, <1>7, <1>8, <1>9, <1>10, ClientStepIInv

LEMMA ConnectIInv == ASSUME IInv, NEW p \in Procs, Connect(p) PROVE IInv'
<1> DEFINE new == Cur(p)
<1>1. /\ cpc[p] = "connect" /\ ServerUp /\ Types
      /\ copen' = copen \cup {new} /\ backlog' = Append(backlog, new)
      /\ cpc' = [cpc EXCEPT ![p] = "send"]
      /\ UNCHANGED <<round, sock, msg, bytesRead, up, down, reset, serverVars>>
  BY DEF Connect, IInv, Goto
<1>2. /\ new \in Conns /\ new[1] = p /\ new[2] = round[p] /\ new[3] = sock[p]
      /\ \A q \in Procs : Cur(q)' = Cur(q)
  BY <1>1, CurFacts DEF Cur
<1>3. /\ cpc'[p] = "send" /\ \A q \in Procs : q # p => cpc'[q] = cpc[q]
      /\ cpc' \in [Procs -> {"connect", "send", "receive", "close", "done", "killed"}]
  BY <1>1 DEF Types
<1>4. /\ sock[p] \in Nat /\ round[p] \in Nat /\ sock[p] <= SocketNum(round[p])
  <2>1. sock[p] \in 1..Sockets /\ round[p] \in 1..Rounds /\ sock[p] <= SocketNum(round[p])
    BY <1>1 DEF Types
  <2>2. Sockets \in Nat /\ Rounds \in Nat
    BY Constants, RoundFacts
  <2> QED
    BY <2>1, <2>2
<1>5. Fresh(new) /\ new \notin Held
  <2>1. Fresh(new)
    BY <1>1, <1>2, <1>4 DEF Fresh
  <2> QED
    BY <2>1 DEF IInv, Placed
<1>6. /\ backlog \in Seq(Conns) /\ Len(backlog) \in Nat
      /\ Len(backlog') = Len(backlog) + 1 /\ backlog' \in Seq(Conns)
      /\ \A j \in 1..Len(backlog) : backlog'[j] = backlog[j]
      /\ backlog'[Len(backlog) + 1] = new
      /\ DOMAIN backlog = 1..Len(backlog) /\ DOMAIN backlog' = 1..(Len(backlog) + 1)
      /\ backlog # <<>> => backlog' # <<>> /\ Head(backlog') = Head(backlog)
  <2> HIDE DEF new
  <2>1. backlog \in Seq(Conns)
    BY <1>1 DEF Types
  <2>2. /\ backlog' \in Seq(Conns) /\ Len(backlog') = Len(backlog) + 1
        /\ \A j \in 1..Len(backlog) : backlog'[j] = backlog[j]
        /\ backlog'[Len(backlog) + 1] = new
    BY <1>1, <1>2, <2>1
  <2>3. Len(backlog) \in Nat /\ DOMAIN backlog = 1..Len(backlog)
        /\ DOMAIN backlog' = 1..(Len(backlog) + 1)
    BY <2>1, <2>2
  <2>4. ASSUME backlog # <<>> PROVE backlog' # <<>> /\ Head(backlog') = Head(backlog)
    <3>1. Len(backlog) >= 1 /\ Len(backlog') >= 1
      BY <2>1, <2>2, <2>4
    <3>2. Head(backlog) = backlog[1] /\ Head(backlog') = backlog'[1]
      BY <2>1, <2>2, <3>1
    <3>3. backlog'[1] = backlog[1]
      BY <2>2, <2>3, <3>1
    <3> QED
      BY <2>2, <3>1, <3>2, <3>3
  <2> QED
    BY <2>1, <2>2, <2>3, <2>4
<1>7. \A d \in Conns : Waits(d)' <=> Waits(d) \/ d = new
  <2> HIDE DEF new
  <2>1. ASSUME NEW d \in Conns, Waits(d)' PROVE Waits(d) \/ d = new
    <3>1. PICK j \in 1..(Len(backlog) + 1) : backlog'[j] = d
      BY <1>6, <2>1 DEF Waits
    <3>2. j \in 1..Len(backlog) \/ j = Len(backlog) + 1
      BY <1>6
    <3> QED
      BY <1>6, <3>1, <3>2 DEF Waits
  <2>2. ASSUME NEW d \in Conns, Waits(d) \/ d = new PROVE Waits(d)'
    <3>1. CASE Waits(d)
      <4>1. PICK j \in 1..Len(backlog) : backlog[j] = d
        BY <1>6, <3>1 DEF Waits
      <4>2. j \in 1..(Len(backlog) + 1)
        BY <1>6
      <4> QED
        BY <1>6, <4>1, <4>2 DEF Waits
    <3>2. CASE d = new
      <4>1. Len(backlog) + 1 \in 1..(Len(backlog) + 1)
        BY <1>6
      <4> QED
        BY <1>6, <3>2, <4>1 DEF Waits
    <3> QED
      BY <2>2, <3>1, <3>2
  <2> QED
    BY <2>1, <2>2
<1>8. \A d \in Conns : Waits(d) => d[1] # p
  BY <1>1 DEF IInv, Queue, Unanswered, Alive, Talking
<1>9. Types'
  BY <1>1, <1>2, <1>3, <1>6 DEF Types, serverVars
<1>10. StepOf(p)
  BY <1>1, <1>2, <1>3 DEF StepOf
<1>11. Onward(p)
  <2>1. ASSUME NEW c \in Conns, Fresh(c)' PROVE Fresh(c)
    <3>1. CASE c[1] = p
      <4>1. c[3] \in Int /\ sock[p] \in Int /\ (c[3] > sock[p] => c[3] >= sock[p])
        BY <1>4, ConnFacts
      <4> QED
        BY <1>1, <1>3, <2>1, <3>1, <4>1 DEF Fresh, Talking
    <3>2. CASE c[1] # p
      BY <1>10, <2>1, <3>2, ConnFacts DEF StepOf, Fresh, Talking
    <3> QED
      BY <3>1, <3>2
  <2>2. \A q \in Procs : ~Alive(q) => ~Alive(q)'
    BY <1>1, <1>3 DEF Alive
  <2>3. \A c \in Held : c \in copen' => c \in copen
    BY <1>1, <1>5
  <2>4. \A c \in Conns : up'[c] \in Nat /\ up[c] \in Nat /\ up'[c] >= up[c] /\ up'[c] = up[c]
    BY <1>1 DEF Types
  <2> QED
    BY <1>6, <2>1, <2>2, <2>3, <2>4 DEF Onward
<1>12. /\ Placed' /\ Turn' /\ ServerOutlives'
       /\ \A c \in Held : \A d : Before(c, d) => Before(c, d)'
  BY <1>10, <1>11, ServerSeesOnward
<1>13. ServerUp' = ServerUp /\ Held' = Held
  BY <1>10 DEF StepOf, serverVars, ServerUp, Held
<1>14. OpenNow'
  <2>1. ASSUME NEW c \in copen' PROVE OfRound(c)'
    <3>1. CASE c[1] # p
      <4>1. c \in Conns
        BY <1>9 DEF Types
      <4> QED
        BY <1>10, <3>1, <4>1, OthersKept
    <3>2. CASE c[1] = p /\ c # new
      <4>1. OfRound(c)
        BY <1>1, <3>2 DEF IInv, OpenNow
      <4> QED
        BY <1>1, <1>3, <3>2, <4>1 DEF OfRound
    <3>3. CASE c = new
      BY <1>1, <1>2, <1>3, <1>4, <3>3 DEF OfRound
    <3> QED
      BY <3>1, <3>2, <3>3
  <2>2. \A q \in Procs : Talking(q)' => Cur(q)' \in copen'
    <3>1. Cur(p)' \in copen'
      BY <1>1, <1>2
    <3> QED
      BY <1>10, <3>1, OthersKept
  <2> QED
    BY <2>1, <2>2 DEF OpenNow
<1>15. Accounts'
  <2>1. ASSUME NEW c \in Conns, c[1] = p PROVE Account(c)'
    <3>1. /\ ~Receiving(p) /\ ~Receiving(p)' /\ Alive(p) /\ Share(c)' = Share(c) /\ Account(c)
      BY <1>1, <1>3 DEF Receiving, Alive, Share, IInv, Accounts
    <3> QED
      BY <1>1, <1>13, <2>1, <3>1 DEF Account
  <2> QED
    BY <1>10, <2>1, OthersKept DEF Accounts
<1>16. Resets'
  <2>1. \A c \in reset' : ~Alive(c[1])'
    <3>1. ASSUME NEW c \in reset' PROVE ~Alive(c[1])'
      <4>1. c \in Conns /\ c \in reset /\ ~Alive(c[1]) /\ c[1] # p
        BY <1>1 DEF IInv, Resets, Types, Alive
      <4> QED
        BY <1>1, <1>10, <4>1, OthersKept
    <3> QED
      BY <3>1
  <2> QED
    BY <1>12, <2>1 DEF Resets
<1>17. Queue'
  <2>1. ASSUME NEW j \in DOMAIN backlog', NEW l \in DOMAIN backlog', backlog'[j][1] = backlog'[l][1]
        PROVE  j = l
    <3> HIDE DEF new
    <3>1. \A m \in 1..Len(backlog) : backlog[m] \in Conns /\ Waits(backlog[m]) /\ backlog[m][1] # p
      BY <1>6, <1>8 DEF Waits
    <3>2. /\ j \in 1..Len(backlog) \/ j = Len(backlog) + 1
          /\ l \in 1..Len(backlog) \/ l = Len(backlog) + 1
      BY <1>6
    <3>3. CASE j \in 1..Len(backlog) /\ l \in 1..Len(backlog)
      BY <1>6, <2>1, <3>3 DEF IInv, Queue
    <3>4. CASE j = Len(backlog) + 1 \/ l = Len(backlog) + 1
      BY <1>2, <1>6, <2>1, <3>1, <3>2, <3>4
    <3> QED
      BY <3>2, <3>3, <3>4
  <2>2. ASSUME NEW d \in Conns, Waits(d)' PROVE Unanswered(d)'
    <3>1. CASE Waits(d)
      BY <1>8, <1>10, <3>1, OthersKept DEF IInv, Queue
    <3>2. CASE d = new
      BY <1>2, <1>3, <3>2 DEF Unanswered, Talking, Receiving
    <3> QED
      BY <1>7, <2>2, <3>1, <3>2
  <2>3. ASSUME NEW d \in Conns, Waits(d)', NEW c \in Held, c[1] = d[1] PROVE Before(c, d)'
    <3>1. CASE Waits(d)
      BY <1>12, <2>3, <3>1 DEF IInv, Queue
    <3>2. CASE d = new
      <4>1. c \in Conns /\ c[1] = p /\ c # new /\ ~Fresh(c) /\ c[2] \in Nat
        BY <1>1, <1>2, <1>5, <2>3, <3>2, HeldFacts, ConnFacts DEF IInv, Placed
      <4>2. c[2] <= round[p]
        BY <1>1, <1>4, <4>1 DEF Fresh
      <4>3. c[2] < round[p] => c \notin copen /\ up[c] = 0
        BY <1>1, <1>4, <4>1 DEF IInv, OpenNow, OfRound, Accounts, Account, Receiving, Alive
      <4> HIDE DEF new
      <4> QED
        BY <1>1, <1>2, <3>2, <4>1, <4>2, <4>3 DEF Before
    <3> QED
      BY <1>7, <2>3, <3>1, <3>2
  <2>4. ServerUp'
    BY <1>1, <1>13
  <2> QED
    BY <1>13, <2>1, <2>2, <2>3, <2>4 DEF Queue
<1> QED
  BY <1>9, <1>12, <1>14, <1>15, <1>16, <1>17 DEF IInv

-----------------------------------------------------------------------------
(* The server.                                                             *)

LEMMA ReadFromFacts ==
  ASSUME Types, NEW first \in 1..(Slots + 1), NEW slots, ReadFrom(first, slots)
  PROVE  \/ spc' = "select" /\ i' = 1 /\ \A k \in first..Slots : ~Reported(slots, k)
         \/ /\ spc' = "read" /\ i' \in first..Slots /\ Reported(slots, i')
            /\ \A k \in first..Slots : Reported(slots, k) => i' <= k
<1> DEFINE todo == {k \in first..Slots : Reported(slots, k)}
<1>1. IF todo = {} THEN spc' = "select" /\ i' = 1 ELSE spc' = "read" /\ i' = Min(todo)
  BY DEF ReadFrom
<1>2. Slots \in Nat /\ todo \in SUBSET (1..Slots)
  BY Constants
<1>3. CASE todo = {}
  BY <1>1, <1>3
<1>4. CASE todo # {}
  <2>1. Min(todo) \in todo /\ \A y \in todo : Min(todo) <= y
    <3> HIDE DEF todo
    <3> QED
      BY <1>2, <1>4, LeastOf
  <2> QED
    BY <1>1, <1>4, <2>1
<1> QED
  BY <1>3, <1>4

LEMMA ServerStep ==
  ASSUME IInv, UNCHANGED <<clientVars, copen>>
  PROVE  /\ \A p : Cur(p)' = Cur(p) /\ Alive(p)' = Alive(p)
                     /\ Talking(p)' = Talking(p) /\ Receiving(p)' = Receiving(p)
         /\ \A c : Fresh(c)' = Fresh(c) /\ Share(c)' = Share(c) /\ OfRound(c)' = OfRound(c)
         /\ OpenNow'
<1>1. UNCHANGED <<cpc, round, sock, msg, bytesRead, copen>>
  BY DEF clientVars
<1>2. \A p : Cur(p)' = Cur(p) /\ Alive(p)' = Alive(p)
               /\ Talking(p)' = Talking(p) /\ Receiving(p)' = Receiving(p)
  BY <1>1 DEF Cur, Alive, Talking, Receiving
<1>3. \A c : Fresh(c)' = Fresh(c) /\ Share(c)' = Share(c) /\ OfRound(c)' = OfRound(c)
  BY <1>1 DEF Fresh, Share, OfRound, Talking
<1>4. OpenNow'
  BY <1>1, <1>2, <1>3 DEF IInv, OpenNow
<1> QED
  BY <1>2, <1>3, <1>4

LEMMA BacklogFacts ==
  ASSUME Types, backlog # <<>>
  PROVE  /\ Head(backlog) \in Conns /\ Waits(Head(backlog)) /\ Len(backlog) \in Nat \ {0}
         /\ DOMAIN backlog = 1..Len(backlog) /\ Head(backlog) = backlog[1]
         /\ Tail(backlog) \in Seq(Conns) /\ DOMAIN Tail(backlog) = 1..(Len(backlog) - 1)
         /\ \A j \in 1..(Len(backlog) - 1) :
              Tail(backlog)[j] = backlog[j + 1] /\ j + 1 \in DOMAIN backlog
<1>1. backlog \in Seq(Conns)
  BY DEF Types
<1>2. /\ Len(backlog) \in Nat \ {0} /\ DOMAIN backlog = 1..Len(backlog)
      /\ Head(backlog) = backlog[1] /\ 1 \in DOMAIN backlog
  BY <1>1
<1>3. Waits(Head(backlog))
  BY <1>2 DEF Waits
<1>4. /\ Tail(backlog) \in Seq(Conns) /\ DOMAIN Tail(backlog) = 1..(Len(backlog) - 1)
      /\ \A j \in 1..(Len(backlog) - 1) :
           Tail(backlog)[j] = backlog[j + 1] /\ j + 1 \in DOMAIN backlog
  BY <1>1, <1>2
<1> QED
  BY <1>1, <1>2, <1>3, <1>4

LEMMA SelectIInv == ASSUME IInv, Select PROVE IInv'
<1>1. /\ spc = "select" /\ spc' = "accept" /\ fds' = {c \in Held \cup {Lsd} : Readable(c)}
      /\ UNCHANGED <<clients, i, clientVars, copen, backlog, up, down, reset>> /\ Types
  BY DEF Select, IInv, connVars
<1>2. /\ Held' = Held /\ ServerUp /\ ServerUp' /\ Held \subseteq Conns
      /\ \A d : Waits(d)' = Waits(d)
      /\ \A c : Readable(c)' = Readable(c)
  BY <1>1, HeldFacts DEF Held, ServerUp, Waits, Readable
<1>3. Types'
  BY <1>1, <1>2 DEF Types, clientVars
<1>4. OpenNow' /\ \A c : Fresh(c)' = Fresh(c)
  BY <1>1, ServerStep
<1>5. Accounts'
  BY <1>1, <1>2 DEF IInv, Accounts, Account, Receiving, Cur, Alive, Share, clientVars
<1>6. Resets'
  BY <1>1, <1>2 DEF IInv, Resets, ServerOutlives, Alive, clientVars
<1>7. Queue'
  BY <1>1, <1>2 DEF IInv, Queue, Unanswered, Before, Talking, Receiving, Alive, Cur, clientVars
<1>8. Placed'
  BY <1>1, <1>2, <1>4 DEF IInv, Placed, OneSlot, Earlier, Doomed
<1>9. Turn'
  <2>1. fds' \subseteq Held' \cup {Lsd} /\ \A c \in fds' : Readable(c)'
    BY <1>1, <1>2
  <2>2. ASSUME Lsd \in fds', NEW c \in Held, c[1] = Head(backlog)[1], c[2] < Head(backlog)[2]
        PROVE  c \in fds'
    <3>1. backlog # <<>>
      BY <1>1, <2>2 DEF Readable
    <3>2. Head(backlog) \in Conns /\ Waits(Head(backlog))
      BY <1>1, <3>1, BacklogFacts
    <3>3. Before(c, Head(backlog))
      BY <2>2, <3>2 DEF IInv, Queue
    <3>4. c # Lsd
      BY <1>2, ConnFacts
    <3>5. Readable(c)
      BY <2>2, <3>3, <3>4 DEF Before, Readable
    <3> QED
      BY <1>1, <3>5
  <2> QED
    BY <1>1, <1>2, <2>1, <2>2 DEF Turn
<1> QED
  BY <1>3, <1>4, <1>5, <1>6, <1>7, <1>8, <1>9 DEF IInv

(* Without a connection to accept.                                         *)
LEMMA PassOverIInv ==
  ASSUME IInv, Accept, Lsd \notin fds PROVE IInv'
<1>1. /\ spc = "accept" /\ ReadFrom(1, clients) /\ Types
      /\ UNCHANGED <<clients, backlog, fds, clientVars, copen, up, down, reset>>
  BY DEF Accept, IInv
<1>2. 1 \in 1..(Slots + 1)
  BY Constants
<1>3. \/ spc' = "select" /\ i' = 1
      \/ spc' = "read" /\ i' \in 1..Slots /\ Reported(clients, i')
  BY <1>1, <1>2, ReadFromFacts
<1>4. /\ Held' = Held /\ ServerUp /\ ServerUp'
      /\ \A d : Waits(d)' = Waits(d)
      /\ \A c : Readable(c)' = Readable(c)
  BY <1>1, <1>3 DEF Held, ServerUp, Waits, Readable
<1>5. Types'
  <2>1. i' \in 1..Slots
    BY <1>3, Constants
  <2> QED
    BY <1>1, <1>3, <2>1 DEF Types, clientVars
<1>6. OpenNow' /\ \A c : Fresh(c)' = Fresh(c)
  BY <1>1, ServerStep
<1>7. Accounts'
  BY <1>1, <1>4 DEF IInv, Accounts, Account, Receiving, Cur, Alive, Share, clientVars
<1>8. Resets'
  BY <1>1, <1>3, <1>4 DEF IInv, Resets, ServerOutlives, Alive, clientVars
<1>9. Queue'
  BY <1>1, <1>4 DEF IInv, Queue, Unanswered, Before, Talking, Receiving, Alive, Cur, clientVars
<1>10. Placed'
  BY <1>1, <1>4, <1>6 DEF IInv, Placed, OneSlot, Earlier, Doomed
<1>11. Turn'
  <2>1. \A k : Reported(clients, k) => Readable(clients[k])
    BY <1>1 DEF IInv, Turn, Reported
  <2> QED
    BY <1>1, <1>3, <1>4, <2>1 DEF Turn, Reported
<1> QED
  BY <1>5, <1>6, <1>7, <1>8, <1>9, <1>10, <1>11 DEF IInv

LEMMA AcceptOneIInv == ASSUME IInv, Accept, Lsd \in fds PROVE IInv'
<1> DEFINE new == Head(backlog)
<1>1. /\ spc = "accept" /\ clients' = Store(new) /\ backlog' = Tail(backlog)
      /\ ReadFrom(1, clients') /\ Types
      /\ UNCHANGED <<fds, clientVars, copen, up, down, reset>>
  BY DEF Accept, IInv
<1>2. backlog # <<>> /\ \A c \in fds : Readable(c)
  BY <1>1 DEF IInv, Turn, Readable
<1>3. /\ new \in Conns /\ Waits(new) /\ Len(backlog) \in Nat \ {0}
      /\ DOMAIN backlog = 1..Len(backlog) /\ new = backlog[1]
      /\ backlog' \in Seq(Conns) /\ DOMAIN backlog' = 1..(Len(backlog) - 1)
      /\ \A j \in 1..(Len(backlog) - 1) :
           backlog'[j] = backlog[j + 1] /\ j + 1 \in DOMAIN backlog
  BY <1>1, <1>2, BacklogFacts
<1> HIDE DEF new
<1>4. /\ clients' \in [1..Slots -> Conns \cup {Empty}]
      /\ \A k \in 1..Slots : clients'[k] = clients[k] \/ (clients'[k] = new /\ clients[k] = Empty)
      /\ \A k, l \in 1..Slots : clients'[k] # clients[k] /\ clients'[l] # clients[l] => k = l
  <2>1. clients \in [1..Slots -> Conns \cup {Empty}]
    BY <1>1 DEF Types
  <2>2. CASE FreeSlots = {}
    BY <1>1, <2>1, <2>2 DEF Store
  <2>3. CASE FreeSlots # {}
    <3> DEFINE slot == Min(FreeSlots)
    <3>1. Slots \in Nat /\ FreeSlots \in SUBSET (1..Slots)
      BY Constants DEF FreeSlots
    <3>2. slot \in FreeSlots
      BY <2>3, <3>1, LeastOf
    <3>3. clients' = [clients EXCEPT ![slot] = new]
      BY <1>1, <2>3 DEF Store
    <3> HIDE DEF slot
    <3>4. slot \in 1..Slots /\ clients[slot] = Empty
      BY <3>2 DEF FreeSlots
    <3> QED
      BY <1>3, <2>1, <3>3, <3>4
  <2> QED
    BY <2>2, <2>3
<1>5. Held \subseteq Conns /\ Held' \subseteq Held \cup {new}
  <2>1. \A k \in 1..Slots : clients'[k] # Empty => clients'[k] \in Held \cup {new}
    BY <1>4 DEF Held
  <2> QED
    BY <1>1, <2>1, HeldFacts DEF Held
<1>6. /\ Unanswered(new)
      /\ \A c \in Held : c[1] = new[1] => Before(c, new)
      /\ new \notin Held
  <2>1. Unanswered(new) /\ \A c \in Held : c[1] = new[1] => Before(c, new)
    BY <1>3 DEF IInv, Queue
  <2> QED
    BY <2>1 DEF Before
<1>7. 1 \in 1..(Slots + 1)
  BY Constants
<1>8. \/ spc' = "select" /\ i' = 1 /\ \A k \in 1..Slots : ~Reported(clients', k)
      \/ /\ spc' = "read" /\ i' \in 1..Slots /\ Reported(clients', i')
         /\ \A k \in 1..Slots : Reported(clients', k) => i' <= k
  BY <1>1, <1>7, ReadFromFacts
<1>9. ServerUp /\ ServerUp' /\ \A c \in Conns : Readable(c)' = Readable(c)
  BY <1>1, <1>8, ConnFacts DEF ServerUp, Readable
<1>10. \A d \in Conns : Waits(d)' => Waits(d) /\ d[1] # new[1]
  <2>1. ASSUME NEW d \in Conns, Waits(d)' PROVE Waits(d) /\ d[1] # new[1]
    <3>1. PICK j \in 1..(Len(backlog) - 1) : d = backlog[j + 1]
      BY <1>3, <2>1 DEF Waits
    <3>2. j + 1 \in DOMAIN backlog /\ 1 \in DOMAIN backlog /\ j + 1 # 1
      BY <1>3
    <3>3. backlog[j + 1][1] # backlog[1][1]
      BY <3>2 DEF IInv, Queue
    <3> QED
      BY <1>3, <3>1, <3>2, <3>3 DEF Waits
  <2> QED
    BY <2>1
<1>11. Types'
  <2>1. i' \in 1..Slots
    BY <1>8, Constants
  <2> QED
    BY <1>1, <1>3, <1>4, <1>8, <2>1 DEF Types, clientVars
<1>12. OpenNow' /\ \A c : Fresh(c)' = Fresh(c)
  BY <1>1, ServerStep
<1>13. Accounts'
  BY <1>1, <1>9 DEF IInv, Accounts, Account, Receiving, Cur, Alive, Share, clientVars
<1>14. Resets'
  BY <1>1, <1>8, <1>9 DEF IInv, Resets, ServerOutlives, Alive, clientVars
<1>15. Queue'
  <2>1. ASSUME NEW j \in DOMAIN backlog', NEW l \in DOMAIN backlog', backlog'[j][1] = backlog'[l][1]
        PROVE  j = l
    <3>1. /\ backlog'[j] = backlog[j + 1] /\ j + 1 \in DOMAIN backlog
          /\ backlog'[l] = backlog[l + 1] /\ l + 1 \in DOMAIN backlog
          /\ j \in Int /\ l \in Int
      BY <1>3
    <3>2. j + 1 = l + 1
      BY <2>1, <3>1 DEF IInv, Queue
    <3> QED
      BY <3>1, <3>2
  <2>2. \A d \in Conns : Waits(d)' => Unanswered(d)'
    BY <1>1, <1>10 DEF IInv, Queue, Unanswered, Talking, Receiving, Alive, Cur, clientVars
  <2>3. ASSUME NEW d \in Conns, Waits(d)', NEW c \in Held', c[1] = d[1] PROVE Before(c, d)'
    <3>1. c \in Held /\ Waits(d)
      BY <1>5, <1>10, <2>3
    <3>2. Before(c, d)
      BY <2>3, <3>1 DEF IInv, Queue
    <3> QED
      BY <1>1, <3>2 DEF Before
  <2> QED
    BY <1>9, <2>1, <2>2, <2>3 DEF Queue
<1>16. Placed'
  <2>1. OneSlot'
    <3>1. ASSUME NEW k \in 1..Slots, NEW l \in 1..Slots, k # l, clients'[k] # Empty
          PROVE  clients'[k] # clients'[l]
      <4>1. \A m \in 1..Slots : clients[m] # new
        BY <1>3, <1>6, ConnFacts DEF Held
      <4>2. clients[k] # Empty => clients[k] # clients[l]
        BY <3>1 DEF IInv, Placed, OneSlot
      <4> QED
        BY <1>4, <3>1, <4>1, <4>2
    <3> QED
      BY <3>1 DEF OneSlot
  <2>2. \A c \in Held' : ~Fresh(c)'
    <3>1. ~Fresh(new)
      <4>1. new[1] \in Procs /\ new[2] \in Int /\ new[3] \in Int
        <5>1. new[1] \in Procs /\ new[2] \in 1..Rounds /\ new[3] \in 1..Sockets
          BY <1>3, ConnFacts
        <5> QED
          BY <5>1
      <4>2. Alive(new[1]) => /\ Talking(new[1]) /\ new[2] = round[new[1]]
                             /\ new[3] = sock[new[1]]
        BY <1>1, <1>6, <4>1, CurFacts DEF Unanswered
      <4> QED
        BY <4>1, <4>2 DEF Fresh, Talking, Alive
    <3> QED
      BY <1>5, <1>12, <3>1 DEF IInv, Placed
  <2>3. ASSUME NEW k \in 1..Slots, NEW l \in 1..Slots, Earlier(k, l)' PROVE Doomed(k)'
    <3>1. /\ clients'[k] # Empty /\ clients'[l] # Empty /\ clients'[k][1] = clients'[l][1]
          /\ clients'[k][2] < clients'[l][2]
      BY <2>3 DEF Earlier
    <3>2. ~Earlier(k, l)
      BY <1>1 DEF IInv, Placed, Doomed
    <3>3. \A m \in 1..Slots : clients[m] # Empty => clients[m] \in Held
      BY DEF Held
    <3>4. clients'[k] = clients[k] /\ clients[k] # Empty
      <4>1. SUFFICES ASSUME clients'[k] = new /\ clients[k] = Empty PROVE FALSE
        BY <1>4, <3>1
      <4>2. CASE clients'[l] = clients[l]
        <5>1. clients[l] \in Held /\ clients[l][1] = new[1] /\ clients[l] \in Conns
          BY <1>5, <3>1, <3>3, <4>1, <4>2
        <5>2. clients[l][2] <= new[2] /\ clients[l][2] \in Int /\ new[2] \in Int
          BY <1>3, <1>6, <5>1, ConnFacts DEF Before
        <5> QED
          BY <3>1, <4>1, <4>2, <5>2
      <4>3. CASE clients'[l] = new
        <5>1. new[2] \in Int /\ new[2] < new[2]
          BY <1>3, <3>1, <4>1, <4>3, ConnFacts
        <5> QED
          BY <5>1
      <4> QED
        BY <1>4, <4>2, <4>3
    <3>5. clients'[l] = new
      BY <1>4, <3>1, <3>2, <3>4 DEF Earlier
    <3>6. /\ clients[k] \in Held /\ clients[k][1] = new[1] /\ clients[k][2] < new[2]
      BY <3>1, <3>3, <3>4, <3>5
    <3>7. clients[k] \notin copen /\ up[clients[k]] = 0
      BY <1>6, <3>6 DEF Before
    <3>8. clients[k] \in fds
      BY <1>1, <3>6 DEF IInv, Turn, new
    <3>9. Reported(clients', k)
      BY <3>1, <3>4, <3>8 DEF Reported
    <3> QED
      BY <1>1, <1>8, <3>4, <3>7, <3>8, <3>9 DEF Doomed
  <2> QED
    BY <2>1, <2>2, <2>3 DEF Placed
<1>17. Turn'
  <2>1. \A k \in 1..Slots : clients'[k] # Empty => clients'[k] \in Conns
    BY <1>4
  <2>2. ASSUME NEW k \in 1..Slots, Reported(clients', k) PROVE Readable(clients[k])'
    <3> DEFINE c == clients'[k]
    <3>1. c \in Conns /\ c \in fds
      BY <2>1, <2>2 DEF Reported
    <3>2. Readable(c) /\ c # Lsd
      BY <1>2, <3>1, ConnFacts
    <3> HIDE DEF c
    <3>3. up'[c] > 0 \/ c \notin copen'
      BY <1>1, <3>2 DEF Readable
    <3> QED
      BY <3>2, <3>3 DEF Readable, c
  <2>3. \A k : Reported(clients, k)' <=> Reported(clients', k)
    BY <1>1 DEF Reported
  <2> QED
    BY <1>8, <2>2, <2>3 DEF Turn
<1> QED
  BY <1>11, <1>12, <1>13, <1>14, <1>15, <1>16, <1>17 DEF IInv

(* What a turn of the loop over the slots, after slot i, leaves to show.   *)
LEMMA LoopTurns ==
  ASSUME IInv, spc = "read", ReadFrom(i + 1, clients),
         UNCHANGED <<fds, clientVars, copen, backlog>>,
         clients'[i] \in {clients[i], Empty},
         \A k \in 1..Slots : k # i => clients'[k] = clients[k],
         \A k \in 1..Slots : k # i /\ clients[k] # Empty => up'[clients[k]] = up[clients[k]]
  PROVE  /\ i' \in 1..Slots /\ spc' \in {"select", "read"}
         /\ ~Doomed(i) \/ clients'[i] = Empty =>
              \A k, l \in 1..Slots : Earlier(k, l)' => Doomed(k)'
         /\ Turn'
<1>1. i \in 1..Slots /\ Slots \in Nat \ {0} /\ i + 1 \in 1..(Slots + 1) /\ Types
  BY Constants DEF IInv, Types
<1>2. \/ spc' = "select" /\ i' = 1 /\ \A k \in (i + 1)..Slots : ~Reported(clients, k)
      \/ /\ spc' = "read" /\ i' \in (i + 1)..Slots /\ Reported(clients, i')
         /\ \A k \in (i + 1)..Slots : Reported(clients, k) => i' <= k
  BY <1>1, ReadFromFacts
<1>3. i' \in 1..Slots /\ spc' \in {"select", "read"}
  BY <1>1, <1>2
<1>4. \A k \in 1..Slots : k # i => (Reported(clients, k)' <=> Reported(clients, k))
  BY DEF Reported
<1>5. ASSUME ~Doomed(i) \/ clients'[i] = Empty,
             NEW k \in 1..Slots, NEW l \in 1..Slots, Earlier(k, l)'
      PROVE  Doomed(k)'
  <2>1. /\ Earlier(k, l) /\ clients'[k] = clients[k] /\ clients[k] # Empty
    BY <1>5 DEF Earlier
  <2>2. Doomed(k)
    BY <2>1 DEF IInv, Placed
  <2>3. k # i
    BY <1>5, <2>1, <2>2
  <2>4. k \in (i + 1)..Slots /\ Reported(clients, k)
    BY <1>1, <2>1, <2>2, <2>3 DEF Doomed, Reported
  <2> QED
    BY <1>2, <2>1, <2>2, <2>3, <2>4 DEF Doomed
<1>6. Turn'
  <2>1. CASE spc' = "select"
    BY <2>1 DEF Turn
  <2>2. CASE spc' = "read"
    <3>1. i' \in (i + 1)..Slots /\ i' # i /\ Reported(clients, i)'
      <4>1. i' \in (i + 1)..Slots /\ Reported(clients, i')
        BY <1>2, <2>2
      <4>2. i' # i /\ i' \in 1..Slots
        BY <1>1, <4>1
      <4>3. clients'[i'] = clients[i']
        BY <4>2
      <4> QED
        BY <4>1, <4>2, <4>3 DEF Reported
    <3>2. ASSUME NEW k \in i'..Slots, Reported(clients, k)' PROVE Readable(clients[k])'
      <4>1. k \in 1..Slots /\ k \in i..Slots /\ k # i
        BY <1>1, <3>1
      <4>2. Reported(clients, k) /\ clients'[k] = clients[k]
        BY <1>4, <3>2, <4>1
      <4>3. Readable(clients[k])
        BY <4>1, <4>2 DEF IInv, Turn
      <4>4. clients[k] # Lsd /\ up'[clients[k]] = up[clients[k]]
        BY <1>1, <4>1, <4>2, ConnFacts DEF Reported, Types
      <4> QED
        BY <4>2, <4>3, <4>4 DEF Readable
    <3> QED
      BY <2>2, <3>1, <3>2 DEF Turn
  <2> QED
    BY <1>3, <2>1, <2>2
<1> QED
  BY <1>3, <1>5, <1>6

LEMMA DropIInv == ASSUME IInv, Read, Drop(clients[i]) PROVE IInv'
<1> DEFINE gone == clients[i]
<1>1. /\ spc = "read" /\ ReadFrom(i + 1, clients) /\ Types /\ i \in 1..Slots
      /\ clients' = [clients EXCEPT ![i] = Empty]
      /\ up[gone] = 0 /\ gone \notin copen
      /\ UNCHANGED <<fds, clientVars, copen, backlog, up, down, reset>>
  BY DEF Read, Drop, IInv, Types
<1>2. /\ clients'[i] = Empty /\ clients' \in [1..Slots -> Conns \cup {Empty}]
      /\ \A k \in 1..Slots : k # i => clients'[k] = clients[k]
  BY <1>1 DEF Types
<1>3. /\ i' \in 1..Slots /\ spc' \in {"select", "read"} /\ Turn'
      /\ \A k, l \in 1..Slots : Earlier(k, l)' => Doomed(k)'
  BY <1>1, <1>2, LoopTurns
<1>4. Held' \subseteq Held /\ Held \subseteq Conns /\ ServerUp /\ ServerUp'
  BY <1>1, <1>2, <1>3, HeldFacts DEF Held, ServerUp
<1>5. Types'
  BY <1>1, <1>2, <1>3 DEF Types, clientVars
<1>6. OpenNow' /\ \A c : Fresh(c)' = Fresh(c)
  BY <1>1, ServerStep
<1>7. Accounts'
  BY <1>1, <1>4 DEF IInv, Accounts, Account, Receiving, Cur, Alive, Share, clientVars
<1>8. Resets'
  BY <1>1, <1>3, <1>4 DEF IInv, Resets, ServerOutlives, Alive, clientVars
<1>9. Queue'
  BY <1>1, <1>4
     DEF IInv, Queue, Waits, Unanswered, Before, Talking, Receiving, Alive, Cur, clientVars
<1>10. OneSlot' /\ \A c \in Held' : ~Fresh(c)'
  BY <1>2, <1>4, <1>6 DEF IInv, Placed, OneSlot
<1> QED
  BY <1>3, <1>5, <1>6, <1>7, <1>8, <1>9, <1>10 DEF IInv, Placed

LEMMA EchoIInv == ASSUME IInv, Read, Echo(clients[i]) PROVE IInv'
<1> DEFINE con  == clients[i]
           n    == IF up[con] < MaxPacket THEN up[con] ELSE MaxPacket
<1>1. /\ spc = "read" /\ ReadFrom(i + 1, clients) /\ Types /\ i \in 1..Slots
      /\ up[con] > 0 /\ up' = [up EXCEPT ![con] = @ - n]
      /\ \/ /\ con \in copen /\ down' = [down EXCEPT ![con] = @ + n] /\ reset' = reset
         \/ con \notin copen /\ reset' = reset \cup {con} /\ down' = down
      /\ UNCHANGED <<clients, fds, clientVars, copen, backlog>>
  BY DEF Read, Echo, IInv, Types
<1>2. con \in Conns /\ con \in Held /\ con # Empty
  BY <1>1 DEF IInv, Turn, Reported, Types, Held
<1> HIDE DEF con
<1>3. up[con] \in Nat /\ n \in Nat /\ n >= 1 /\ n <= up[con]
  BY <1>1, <1>2, Constants DEF Types
<1>4. /\ up' \in [Conns -> Nat] /\ up'[con] = up[con] - n
      /\ \A c \in Conns : c # con => up'[c] = up[c]
  <2> HIDE DEF n
  <2>1. up[con] - n \in Nat
    BY <1>3
  <2> QED
    BY <1>1, <1>2, <2>1 DEF Types
<1>5. /\ down' \in [Conns -> Nat]
      /\ down'[con] = down[con] + (IF con \in copen THEN n ELSE 0)
      /\ \A c \in Conns : c # con => down'[c] = down[c]
  <2> HIDE DEF n
  <2>1. down[con] + n \in Nat /\ down[con] + 0 = down[con]
    BY <1>1, <1>2, <1>3 DEF Types
  <2> QED
    BY <1>1, <1>2, <2>1 DEF Types
<1> HIDE DEF n
<1>6. \A k \in 1..Slots : k # i /\ clients[k] # Empty => clients[k] # con /\ clients[k] \in Conns
  BY <1>1, <1>2 DEF IInv, Placed, OneSlot, Types, con
<1>7. /\ i' \in 1..Slots /\ spc' \in {"select", "read"} /\ Turn'
      /\ \A k, l \in 1..Slots : Earlier(k, l)' => Doomed(k)'
  <2>1. ~Doomed(i)
    BY <1>1 DEF Doomed, con
  <2>2. \A k \in 1..Slots : k # i /\ clients[k] # Empty => up'[clients[k]] = up[clients[k]]
    BY <1>4, <1>6
  <2> QED
    BY <1>1, <2>1, <2>2, LoopTurns
<1>8. Held' = Held /\ Held \subseteq Conns /\ ServerUp /\ ServerUp'
  BY <1>1, <1>7, HeldFacts DEF Held, ServerUp
<1>9. reset' \subseteq reset \cup {con} /\ reset \subseteq reset'
  BY <1>1
<1>10. Types'
  <2>1. reset' \subseteq Conns
    BY <1>1, <1>2, <1>9 DEF Types
  <2> QED
    BY <1>1, <1>4, <1>5, <1>7, <2>1 DEF Types, clientVars
<1>11. /\ OpenNow' /\ \A c : Fresh(c)' = Fresh(c) /\ Share(c)' = Share(c)
       /\ \A p : Cur(p)' = Cur(p) /\ Alive(p)' = Alive(p)
                    /\ Talking(p)' = Talking(p) /\ Receiving(p)' = Receiving(p)
  BY <1>1, ServerStep
<1>12. bytesRead' = bytesRead /\ copen' = copen /\ cpc' = cpc
  BY <1>1 DEF clientVars
<1>13. /\ con \in copen => Alive(con[1]) /\ Receiving(con[1]) /\ con = Cur(con[1])
       /\ con \notin copen => ~Alive(con[1])
  <2>1. Account(con)
    BY <1>2 DEF IInv, Accounts
  <2>2. Alive(con[1]) => Receiving(con[1]) /\ con = Cur(con[1])
    BY <1>1, <2>1 DEF Account
  <2>3. Receiving(con[1]) => Cur(con[1]) \in copen
    BY <1>2, ConnFacts DEF IInv, OpenNow, Talking, Receiving
  <2>4. con \in copen => Alive(con[1])
    BY DEF IInv, OpenNow, OfRound, Alive
  <2> QED
    BY <2>2, <2>3, <2>4
<1>14. ASSUME NEW c \in Conns PROVE Account(c)'
  <2>1. Account(c) /\ Share(c) \in Nat
    BY ShareFact DEF IInv, Accounts
  <2>2. CASE c # con
    <3>1. up'[c] = up[c] /\ down'[c] = down[c]
      BY <1>4, <1>5, <2>2
    <3> QED
      BY <1>8, <1>11, <1>12, <2>1, <3>1 DEF Account
  <2>3. CASE c = con /\ con \in copen
    <3>1. bytesRead[con[1]] \in Int /\ down[con] \in Nat
      BY <1>1, <1>2, ConnFacts DEF Types
    <3>2. up'[con] + down'[con] = up[con] + down[con]
      BY <1>3, <1>4, <1>5, <2>3, <3>1
    <3>3. /\ up[con] + down[con] <= Share(con)
          /\ up[con] + down[con] + bytesRead[con[1]] = Share(con)
          /\ bytesRead[con[1]] >= 0
      BY <1>8, <1>13, <2>1, <2>3 DEF Account
    <3>4. up'[con] \in Nat /\ down'[con] \in Nat
      BY <1>2, <1>4, <1>5
    <3>5. up'[con] + down'[con] + bytesRead[con[1]] = Share(con)
      BY <3>1, <3>2, <3>3, <3>4
    <3>6. Receiving(c[1])' /\ c = Cur(c[1])' /\ Share(c)' = Share(c)
      BY <1>11, <1>13, <2>3
    <3>7. Share(con) <= Share(con)
      BY <2>1, <2>3
    <3> QED
      BY <1>8, <1>12, <2>3, <3>2, <3>3, <3>5, <3>6, <3>7 DEF Account
  <2>4. CASE c = con /\ con \notin copen
    <3>1. ~Receiving(con[1]) /\ ~Alive(con[1]) /\ down[con] = 0
      BY <1>13, <2>1, <2>4 DEF Account, Receiving, Alive
    <3>2. down'[con] = 0 /\ up'[con] \in Nat /\ up'[con] <= up[con] /\ up[con] \in Nat
      BY <1>2, <1>3, <1>4, <1>5, <2>4, <3>1
    <3>3. up[con] + 0 <= Share(con)
      BY <2>1, <2>4, <3>1 DEF Account
    <3>4. up'[con] + 0 <= Share(con)
      BY <2>1, <2>4, <3>2, <3>3
    <3> QED
      BY <1>8, <1>11, <2>4, <3>1, <3>2, <3>4 DEF Account
  <2> QED
    BY <2>2, <2>3, <2>4
<1>15. Resets'
  <2>1. \A c \in reset' : ~Alive(c[1])
    BY <1>1, <1>8, <1>13 DEF IInv, Resets
  <2>2. ServerOutlives'
    BY <1>7 DEF ServerOutlives
  <2> QED
    BY <1>11, <2>1, <2>2 DEF Resets
<1>16. Queue'
  <2>1. \A d : Waits(d)' = Waits(d)
    BY <1>1 DEF Waits
  <2>2. ASSUME NEW d \in Conns, Waits(d) PROVE Unanswered(d)'
    <3>1. Unanswered(d) /\ d # con
      BY <1>2, <2>2 DEF IInv, Queue, Before
    <3>2. down'[d] = down[d]
      BY <1>5, <3>1
    <3> QED
      BY <1>11, <1>12, <3>1, <3>2 DEF Unanswered
  <2>3. ASSUME NEW d \in Conns, Waits(d), NEW c \in Held, c[1] = d[1] PROVE Before(c, d)'
    <3>1. Before(c, d) /\ c \in Conns
      BY <1>8, <2>3 DEF IInv, Queue
    <3>2. up[c] = 0 => up'[c] = 0
      BY <1>1, <1>4, <3>1
    <3> QED
      BY <1>12, <3>1, <3>2 DEF Before
  <2> QED
    BY <1>1, <1>8, <2>1, <2>2, <2>3 DEF IInv, Queue
<1>17. OneSlot' /\ \A c \in Held' : ~Fresh(c)'
  BY <1>1, <1>8, <1>11 DEF IInv, Placed, OneSlot
<1> QED
  BY <1>7, <1>10, <1>11, <1>14, <1>15, <1>16, <1>17 DEF IInv, Placed, Accounts

(* The server ends.                                                        *)
LEMMA EndServerIInv ==
  ASSUME IInv, NEW l \in {"failed", "stopped"}, EndServer(l), ServerUp,
         l = "failed" => \E p \in Procs : ~Alive(p)
  PROVE  IInv'
<1>1. /\ spc' = l /\ reset' \subseteq copen /\ up' = [c \in Conns |-> 0] /\ backlog' = <<>>
      /\ clients' = [k \in 1..Slots |-> Empty] /\ fds' = {} /\ i' = 1
      /\ UNCHANGED <<clientVars, copen, down>> /\ Types
  BY DEF EndServer, IInv
<1>2. /\ ~ServerUp' /\ Held' = {} /\ \A k \in 1..Slots : clients'[k] = Empty
      /\ \A c \in Conns : up'[c] = 0
  BY <1>1 DEF ServerUp, Held
<1>3. Types'
  <2>1. 1 \in 1..Slots /\ <<>> \in Seq(Conns) /\ up' \in [Conns -> Nat]
        /\ clients' \in [1..Slots -> Conns \cup {Empty}] /\ reset' \subseteq Conns
    BY <1>1, Constants DEF Types
  <2> QED
    BY <1>1, <2>1 DEF Types, clientVars
<1>4. OpenNow' /\ \A p : Cur(p)' = Cur(p) /\ Alive(p)' = Alive(p) /\ Receiving(p)' = Receiving(p)
  BY <1>1, ServerStep
<1>5. ASSUME NEW c \in Conns PROVE Account(c)'
  <2>1. Account(c) /\ Share(c)' = Share(c) /\ Share(c) \in Nat
    BY <1>1, ShareFact, ServerStep DEF IInv, Accounts
  <2>2. up[c] \in Nat /\ down[c] \in Nat /\ c[1] \in Procs
    BY <1>1, ConnFacts DEF Types
  <2>3. bytesRead[c[1]] \in Int
    BY <1>1, <2>2 DEF Types
  <2>4. down'[c] = down[c] /\ bytesRead' = bytesRead /\ up'[c] = 0
    BY <1>1, <1>2 DEF clientVars
  <2>5. down[c] <= Share(c)
    BY <2>1, <2>2 DEF Account
  <2>6. ASSUME Receiving(c[1]), c = Cur(c[1])
        PROVE  down[c] + bytesRead[c[1]] <= Share(c) /\ bytesRead[c[1]] >= 0
    <3>1. up[c] + down[c] + bytesRead[c[1]] = Share(c) /\ bytesRead[c[1]] >= 0
      BY <2>1, <2>6 DEF Account
    <3> QED
      BY <2>1, <2>2, <2>3, <3>1
  <2> QED
    BY <1>2, <1>4, <2>1, <2>2, <2>3, <2>4, <2>5, <2>6 DEF Account
<1>6. Resets'
  BY <1>1, <1>2, <1>4 DEF Resets, ServerOutlives, Alive, clientVars
<1>7. Queue'
  BY <1>1, <1>2 DEF Queue, Waits
<1>8. Placed'
  BY <1>1, <1>2 DEF Placed, OneSlot, Earlier
<1>9. Turn'
  BY <1>1 DEF Turn
<1> QED
  BY <1>3, <1>4, <1>5, <1>6, <1>7, <1>8, <1>9 DEF IInv, Accounts

LEMMA ReadFailsIInv == ASSUME IInv, ReadFails PROVE IInv'
<1>1. spc = "read" /\ i \in 1..Slots /\ clients[i] \in reset /\ EndServer("failed")
  BY DEF ReadFails, IInv, Types
<1>2. ServerUp
  BY <1>1 DEF ServerUp
<1>3. clients[i] \in Conns /\ ~Alive(clients[i][1])
  BY <1>1, <1>2 DEF IInv, Resets, Types
<1>4. \E p \in Procs : ~Alive(p)
  BY <1>3, ConnFacts
<1> QED
  BY <1>1, <1>2, <1>4, EndServerIInv

-----------------------------------------------------------------------------
(* The invariant holds in every reachable state.                           *)

LEMMA StepIInv == IInv /\ [Next]_vars => IInv'
<1> SUFFICES ASSUME IInv, [Next]_vars PROVE IInv'
  OBVIOUS
<1>1. ASSUME NEW p \in Procs, Connect(p) PROVE IInv'
  BY <1>1, ConnectIInv
<1>2. ASSUME NEW p \in Procs, Refused(p) PROVE IInv'
  BY <1>2, RefusedIInv
<1>3. ASSUME NEW p \in Procs, Send(p) PROVE IInv'
  BY <1>3, SendIInv
<1>4. ASSUME NEW p \in Procs, Receive(p) PROVE IInv'
  BY <1>4, ReceiveIInv
<1>5. ASSUME NEW p \in Procs, ReceiveFails(p) PROVE IInv'
  BY <1>5, ReceiveFailsIInv
<1>6. ASSUME NEW p \in Procs, WarmUpFails(p) \/ Close(p) PROVE IInv'
  BY <1>6, WarmUpFailsIInv, CloseIInv
<1>7. ASSUME NEW p \in Procs, Kill(p) PROVE IInv'
  BY <1>7, KillIInv
<1>8. CASE Select
  BY <1>8, SelectIInv
<1>9. CASE Accept
  BY <1>9, PassOverIInv, AcceptOneIInv
<1>10. CASE Read
  BY <1>10, DropIInv, EchoIInv DEF Read
<1>11. CASE ReadFails
  BY <1>11, ReadFailsIInv
<1>12. CASE Stop
  BY <1>12, EndServerIInv DEF Stop
<1>13. CASE UNCHANGED vars
  <2>1. UNCHANGED <<cpc, round, sock, msg, bytesRead, copen, backlog, up, down, reset, spc,
                    clients, fds, i>>
    BY <1>13 DEF vars, clientVars, connVars, serverVars
  <2>2. /\ Held' = Held /\ ServerUp' = ServerUp /\ \A p : Cur(p)' = Cur(p)
        /\ \A p : Alive(p)' = Alive(p) /\ Talking(p)' = Talking(p) /\ Receiving(p)' = Receiving(p)
        /\ \A c : Waits(c)' = Waits(c) /\ Share(c)' = Share(c) /\ Fresh(c)' = Fresh(c)
        /\ \A c : OfRound(c)' = OfRound(c) /\ Readable(c)' = Readable(c)
    BY <2>1 DEF Held, ServerUp, Cur, Alive, Talking, Receiving, Waits, Share, Fresh, OfRound,
               Readable
  <2>3. Types' /\ OpenNow' /\ Resets' /\ Turn'
    BY <2>1, <2>2 DEF IInv, Types, OpenNow, Resets, ServerOutlives, Turn, Reported
  <2>4. Accounts'
    BY <2>1, <2>2 DEF IInv, Accounts, Account
  <2>5. Queue'
    BY <2>1, <2>2 DEF IInv, Queue, Unanswered, Before
  <2>6. Placed'
    BY <2>1, <2>2 DEF IInv, Placed, OneSlot, Earlier, Doomed
  <2> QED
    BY <2>3, <2>4, <2>5, <2>6 DEF IInv
<1> QED
  BY <1>1, <1>2, <1>3, <1>4, <1>5, <1>6, <1>7, <1>8, <1>9, <1>10, <1>11, <1>12, <1>13
     DEF Next, Client, Server, Finished

LEMMA Invariance == Spec => []IInv
BY InitIInv, StepIInv, PTL DEF Spec

-----------------------------------------------------------------------------
(* What follows.                                                           *)

(* Every variable holds a value the code can store in it; the bytes under  *)
(* way on a connection are never more than its client sends at once.       *)
THEOREM TypeCorrect == Spec => []TypeOK
<1>1. IInv => TypeOK
  <2> SUFFICES ASSUME IInv PROVE TypeOK
    OBVIOUS
  <2>1. Types
    BY DEF IInv
  <2>2. ASSUME NEW c \in Conns PROVE up[c] \in 0..Size(Rounds) /\ down[c] \in 0..Size(Rounds)
    <3>1. up[c] \in Nat /\ down[c] \in Nat
      BY <2>1 DEF Types
    <3>2. up[c] + down[c] <= Share(c)
      BY DEF IInv, Accounts, Account
    <3>3. Share(c) \in Nat /\ Share(c) <= Size(Rounds) /\ Size(Rounds) \in Nat
      BY ShareFact, SizeFact
    <3> QED
      BY <3>1, <3>2, <3>3
  <2>3. up \in [Conns -> 0..Size(Rounds)] /\ down \in [Conns -> 0..Size(Rounds)]
    BY <2>1, <2>2 DEF Types
  <2>4. \A k \in 1..Len(backlog) : backlog[k] \in Conns
    BY <2>1 DEF Types
  <2> QED
    BY <2>1, <2>3, <2>4 DEF Types, TypeOK
<1> QED
  BY <1>1, Invariance, PTL

(* The server neither waits for one client nor ends with it: what select   *)
(* has reported stays readable until its turn (lines 79 to 97), and only a *)
(* killed client makes it fail (lines 101 to 110).                         *)
THEOREM GoesOnForOthers == Spec => []GoesOn
<1>1. IInv => GoesOn
  BY DEF IInv, Resets, Turn, GoesOn, NeverBlocks
<1> QED
  BY <1>1, Invariance, PTL

(* A connection never has two slots (lines 85 to 91), however few there    *)
(* are.                                                                    *)
THEOREM NoSlotTwice == Spec => []OneSlot
<1>1. IInv => OneSlot
  BY DEF IInv, Placed
<1> QED
  BY <1>1, Invariance, PTL

-----------------------------------------------------------------------------
(* How a connection is lost.  When the server accepts, the slots of a      *)
(* client are of one round, hence of different sockets.  If there are as   *)
(* many slots as the clients have sockets, as in the code, and all are     *)
(* taken, then every socket of every client has one: what is accepted and  *)
(* finds no slot is a socket whose slot is still that of an earlier round. *)

LEMMA AllSocketsSeated ==
  ASSUME IInv, spc = "accept", FreeSlots = {},
         IsFiniteSet(Procs), Cardinality(Procs) * Sockets <= Slots,
         NEW p \in Procs, NEW s \in 1..Sockets
  PROVE  \E k \in 1..Slots : clients[k][1] = p /\ clients[k][3] = s
<1> SUFFICES ASSUME \A k \in 1..Slots : ~ (clients[k][1] = p /\ clients[k][3] = s) PROVE FALSE
  OBVIOUS
<1> DEFINE Seats == Procs \X (1..Sockets)
           Rest  == Seats \ {<<p, s>>}
           seat  == [k \in 1..Slots |-> <<clients[k][1], clients[k][3]>>]
<1>1. \A k \in 1..Slots : clients[k] \in Conns /\ clients[k] # Empty
  BY ConnFacts DEF IInv, Types, FreeSlots
<1>2. seat \in [1..Slots -> Rest]
  <2>1. \A k \in 1..Slots : <<clients[k][1], clients[k][3]>> \in Rest
    BY <1>1, ConnFacts
  <2> HIDE DEF Rest
  <2> QED
    BY <2>1
<1>3. ASSUME NEW k \in 1..Slots, NEW l \in 1..Slots, k # l, seat[k] = seat[l] PROVE FALSE
  <2>1. clients[k][1] = clients[l][1] /\ clients[k][3] = clients[l][3]
    BY <1>3
  <2>2. ~Earlier(k, l) /\ ~Earlier(l, k)
    BY DEF IInv, Placed, Doomed
  <2>3. clients[k][2] \in 1..Rounds /\ clients[l][2] \in 1..Rounds /\ Rounds \in Nat
    BY <1>1, ConnFacts, RoundFacts
  <2>4. clients[k][2] = clients[l][2]
    <3>1. ~ (clients[k][2] < clients[l][2]) /\ ~ (clients[l][2] < clients[k][2])
      BY <1>1, <2>1, <2>2 DEF Earlier
    <3> QED
      BY <2>3, <3>1
  <2>5. clients[k] = clients[l]
    BY <1>1, <2>1, <2>4, ConnFacts
  <2> QED
    BY <1>1, <1>3, <2>5 DEF IInv, Placed, OneSlot
<1>4. /\ IsFiniteSet(1..Slots) /\ Cardinality(1..Slots) = Slots
      /\ IsFiniteSet(1..Sockets) /\ Cardinality(1..Sockets) = Sockets
  BY Constants, FS_Interval
<1>5. /\ IsFiniteSet(Seats) /\ Cardinality(Seats) = Cardinality(Procs) * Sockets
      /\ Cardinality(Seats) \in Nat
  BY <1>4, FS_Product, FS_CardinalityType
<1>6. IsFiniteSet(Rest) /\ Cardinality(Rest) < Cardinality(1..Slots)
  <2>1. <<p, s>> \in Seats
    OBVIOUS
  <2> HIDE DEF Seats
  <2>2. IsFiniteSet(Rest) /\ Cardinality(Rest) = Cardinality(Seats) - 1
    BY <1>5, <2>1, FS_RemoveElement
  <2>3. Slots \in Nat /\ Cardinality(Seats) <= Slots
    BY <1>5, Constants
  <2> QED
    BY <1>4, <1>5, <2>2, <2>3
<1> HIDE DEF Rest, Seats, seat
<1>7. \E k, l \in 1..Slots : k # l /\ seat[k] = seat[l]
  BY <1>2, <1>4, <1>5, <1>6, FS_PigeonHole
<1> QED
  BY <1>3, <1>7

(* Only the accept of a connection that finds no slot loses it.            *)
LEMMA LostInAccept ==
  ASSUME IInv, [Next]_vars, NEW c \in Conns, Forgotten(c)
  PROVE  /\ spc = "accept" /\ FreeSlots = {} /\ copen' = copen
         /\ Lsd \in fds /\ backlog # <<>> /\ c = Head(backlog)
<1> DEFINE Refuse == /\ spc = "accept" /\ FreeSlots = {} /\ copen' = copen
                     /\ Lsd \in fds /\ backlog # <<>> /\ c = Head(backlog)
<1>1. /\ Types /\ ServerUp' /\ c \in copen' /\ (c \in Held \/ Waits(c))
      /\ c \notin Held' /\ ~Waits(c)'
  <2>1. (c \in ToSet(backlog) <=> Waits(c)) /\ (c \in ToSet(backlog)' <=> Waits(c)')
    BY DEF ToSet, Waits
  <2> QED
    BY <2>1 DEF IInv, Forgotten, Accounted
<1>2. ASSUME UNCHANGED <<clients, backlog>> PROVE FALSE
  BY <1>1, <1>2 DEF Held, Waits
<1>3. ASSUME NEW p \in Procs, Connect(p) PROVE FALSE
  <2>1. /\ Held' = Held /\ backlog \in Seq(Conns) /\ backlog' = Append(backlog, Cur(p))
    BY <1>1, <1>3 DEF Connect, serverVars, Held, Types
  <2>2. Cur(p) \in Conns
    BY <1>1, CurFacts
  <2>3. \A j \in DOMAIN backlog : j \in DOMAIN backlog' /\ backlog'[j] = backlog[j]
    <3> DEFINE new == Cur(p)
    <3> HIDE DEF new
    <3>1. new \in Conns /\ backlog' = Append(backlog, new)
      BY <2>1, <2>2 DEF new
    <3> QED
      BY <2>1, <3>1
  <2> QED
    BY <1>1, <2>1, <2>3 DEF Waits
<1>4. ASSUME NEW p \in Procs, \/ Refused(p) \/ Send(p) \/ Receive(p) \/ ReceiveFails(p)
                              \/ WarmUpFails(p) \/ Close(p) \/ Kill(p)
      PROVE  FALSE
  BY <1>2, <1>4 DEF Refused, Send, Receive, ReceiveFails, WarmUpFails, Close, Kill, connVars,
                    serverVars
<1>7. ASSUME Select PROVE FALSE
  BY <1>2, <1>7 DEF Select, connVars
<1>8. ASSUME Accept PROVE Refuse
  <2>1. spc = "accept" /\ ServerUp /\ copen' = copen
    BY <1>8 DEF Accept, ServerUp
  <2>2. CASE Lsd \notin fds
    BY <1>2, <1>8, <2>2 DEF Accept
  <2>3. CASE Lsd \in fds
    <3> DEFINE new  == Head(backlog)
               slot == Min(FreeSlots)
    <3>1. backlog # <<>>
      BY <2>1, <2>3 DEF IInv, Turn, Readable
    <3>2. /\ new \in Conns /\ DOMAIN backlog = 1..Len(backlog) /\ new = backlog[1]
          /\ Len(backlog) \in Nat /\ DOMAIN Tail(backlog) = 1..(Len(backlog) - 1)
          /\ \A j \in 1..(Len(backlog) - 1) : Tail(backlog)[j] = backlog[j + 1]
      BY <1>1, <3>1, BacklogFacts
    <3>5. clients' = Store(new) /\ backlog' = Tail(backlog)
      BY <1>8, <2>3 DEF Accept
    <3>6. ASSUME FreeSlots # {}
          PROVE  /\ slot \in 1..Slots /\ clients[slot] = Empty /\ clients'[slot] = new
                 /\ \A k \in 1..Slots : k # slot => clients'[k] = clients[k]
      <4>1. Slots \in Nat /\ FreeSlots \in SUBSET (1..Slots)
        BY Constants DEF FreeSlots
      <4>2. slot \in FreeSlots
        BY <3>6, <4>1, LeastOf
      <4>3. clients' = [clients EXCEPT ![slot] = new]
        BY <3>5, <3>6 DEF Store
      <4> HIDE DEF new, slot
      <4> QED
        BY <1>1, <4>2, <4>3 DEF FreeSlots, Types
    <3>7. c = new => FreeSlots = {}
      <4> SUFFICES ASSUME c = new, FreeSlots # {} PROVE FALSE
        OBVIOUS
      <4> HIDE DEF new, slot
      <4>1. new \in Held'
        BY <3>2, <3>6, ConnFacts DEF Held
      <4> QED
        BY <1>1, <4>1
    <3>8. c \notin Held
      <4>1. CASE FreeSlots = {}
        BY <1>1, <3>5, <4>1 DEF Store, Held
      <4>2. CASE FreeSlots # {}
        <5> HIDE DEF new, slot
        <5> QED
          BY <1>1, <3>6, <4>2 DEF Held
      <4> QED
        BY <4>1, <4>2
    <3>9. c = new
      <4> SUFFICES ASSUME c # new PROVE FALSE
        OBVIOUS
      <4>0. Waits(c)
        BY <1>1, <3>8
      <4> HIDE DEF new, slot
      <4>1. PICK j \in 1..Len(backlog) : backlog[j] = c
        BY <3>2, <4>0 DEF Waits
      <4>2. j # 1
        BY <3>2, <4>1
      <4>3. j - 1 \in 1..(Len(backlog) - 1) /\ (j - 1) + 1 = j
        BY <3>2, <4>2
      <4>4. backlog'[j - 1] = c /\ j - 1 \in DOMAIN backlog'
        BY <3>2, <3>5, <4>1, <4>3
      <4> QED
        BY <1>1, <4>4 DEF Waits
    <3> QED
      BY <2>1, <2>3, <3>1, <3>7, <3>9
  <2> QED
    BY <2>2, <2>3
<1>9. ASSUME Read PROVE FALSE
  <2>1. spc = "read" /\ copen' = copen /\ backlog' = backlog
    BY <1>9 DEF Read
  <2>2. CASE Echo(clients[i])
    BY <1>2, <2>1, <2>2 DEF Echo
  <2>3. CASE Drop(clients[i])
    <3>1. /\ clients' = [clients EXCEPT ![i] = Empty] /\ clients[i] \notin copen
          /\ i \in 1..Slots
      BY <1>1, <2>3 DEF Drop, Types
    <3>2. c \in Held => c \in Held'
      BY <1>1, <2>1, <3>1 DEF Held, Types
    <3> QED
      BY <1>1, <2>1, <3>2 DEF Waits
  <2> QED
    BY <1>9, <2>2, <2>3 DEF Read
<1>10. ~ReadFails /\ ~Stop
  BY <1>1 DEF ReadFails, Stop, EndServer, ServerUp
<1>11. ASSUME UNCHANGED vars PROVE FALSE
  BY <1>2, <1>11 DEF vars, connVars, serverVars
<1>12. Refuse
  BY <1>3, <1>4, <1>7, <1>8, <1>9, <1>10, <1>11 DEF Next, Client, Server, Finished
<1> QED
  BY <1>12

LEMMA LostOnlyToClosed ==
  ASSUME IInv, [Next]_vars, NEW c \in Conns, Forgotten(c),
         IsFiniteSet(Procs), Cardinality(Procs) * Sockets <= Slots
  PROVE  /\ \A k \in 1..Slots : clients[k] # Empty
         /\ \E k \in 1..Slots : clients[k][1] = c[1] /\ clients[k][3] = c[3]
         /\ \A k \in 1..Slots : clients[k][1] = c[1] =>
              clients[k] \notin copen /\ clients[k][2] < c[2]
<1>1. /\ spc = "accept" /\ FreeSlots = {} /\ backlog # <<>> /\ c = Head(backlog) /\ Types
  BY LostInAccept DEF IInv
<1>2. \A k \in 1..Slots : clients[k] \in Conns /\ clients[k] \in Held /\ clients[k] # Empty
  BY <1>1, ConnFacts DEF Types, FreeSlots, Held
<1>3. c[1] \in Procs /\ c[3] \in 1..Sockets /\ c[2] \in Int
  BY ConnFacts, RoundFacts
<1>4. PICK k \in 1..Slots : clients[k][1] = c[1] /\ clients[k][3] = c[3]
  BY <1>1, <1>3, AllSocketsSeated
<1>5. \A l \in 1..Slots : clients[l][1] = c[1] => Before(clients[l], c)
  <2>1. Waits(c)
    BY <1>1, BacklogFacts DEF Waits, Types
  <2> QED
    BY <1>2, <2>1 DEF IInv, Queue
<1>6. \A l \in 1..Slots : clients[l][2] \in Int
  BY <1>2, ConnFacts, RoundFacts
<1>7. clients[k][2] < c[2]
  <2>1. clients[k] # c /\ clients[k][2] <= c[2]
    BY <1>4, <1>5 DEF Before
  <2>2. clients[k][2] # c[2]
    BY <1>2, <1>4, <2>1, ConnFacts
  <2> QED
    BY <1>3, <1>6, <2>1, <2>2
<1>8. ASSUME NEW l \in 1..Slots, clients[l][1] = c[1]
      PROVE  clients[l] \notin copen /\ clients[l][2] < c[2]
  <2>1. ~Earlier(k, l)
    BY <1>1 DEF IInv, Placed, Doomed
  <2>2. ~ (clients[k][2] < clients[l][2])
    BY <1>2, <1>4, <1>8, <2>1 DEF Earlier
  <2>3. clients[l][2] < c[2]
    BY <1>3, <1>6, <1>7, <2>2
  <2> QED
    BY <1>5, <1>8, <2>3 DEF Before
<1> QED
  BY <1>2, <1>4, <1>8

(* With as many slots as the clients have sockets (in the code one client  *)
(* and one MAX_CLIENTS), an open connection is lost only by the accept     *)
(* that finds all slots taken (lines 85 to 91), one of them by the same    *)
(* socket of an earlier round; all that its client has in the slots is of  *)
(* an earlier round and closed.                                            *)
THEOREM LostToClosedOnly ==
  ASSUME IsFiniteSet(Procs), Cardinality(Procs) * Sockets <= Slots
  PROVE  Spec => LostToItsPast
<1> DEFINE Lost(c) ==
             Forgotten(c) =>
               /\ \A k \in 1..Slots : clients[k] # Empty
               /\ \E k \in 1..Slots : clients[k][1] = c[1] /\ clients[k][3] = c[3]
               /\ \A k \in 1..Slots : clients[k][1] = c[1] =>
                    clients[k] \notin copen /\ clients[k][2] < c[2]
<1>1. IInv /\ [Next]_vars => [\A c \in Conns : Lost(c)]_vars
  BY LostOnlyToClosed
<1> QED
  BY <1>1, Invariance, PTL DEF Spec, LostToItsPast
=============================================================================
