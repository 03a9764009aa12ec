-------------------------- MODULE MultiThreadProofs --------------------------
(***************************************************************************)
(* Proofs about MultiThread for every number of threads and every size,    *)
(* for both ways of scheduling the threads and with clients and servers    *)
(* that fail.  The inductive invariant has four layers: what is in the     *)
(* descriptor table and who owns it; what a thread finds there, if nobody  *)
(* runs between its two closes; in which rounds the two programs are; and  *)
(* which thread of the server has the connection of which of the client.   *)
(***************************************************************************)
EXTENDS MultiThread, FiniteSetTheorems, SequenceTheorems, WellFoundedInduction, TLAPS

-----------------------------------------------------------------------------
(* The inductive invariant.                                                *)

ServerThreads ==
  [pc : {"none", "open", "init", "read", "write", "readdone", "close1", "close1bad",
         "close2", "measure", "closectx", "ended", "failed"},
   connfd : Fds \cup {None}, dev : Fds \cup {None}, rem : Threads \cup {None}]
ClientThreads ==
  [pc : {"none", "write", "read", "done", "close", "measure", "closectx", "ended", "failed"},
   rem : Threads \cup {None}]

ServerTypes ==
  /\ spc \in {"listen", "accept", "join", "finished", "failed"}
  /\ sround \in (1..MaxSize) \X (1..MaxThreads) /\ si \in 0..MaxThreads
  /\ fd \in [Fds -> Objects] /\ lfd \in Fds \cup {None}
  /\ st \in [Threads -> ServerThreads]
ClientTypes ==
  /\ cpc \in {"connect", "join", "finished", "failed"}
  /\ cround \in (1..MaxSize) \X (1..MaxThreads) /\ ci \in 0..(MaxThreads + 1)
  /\ ct \in [Threads -> ClientThreads]
WireTypes ==
  /\ backlog \in Seq(Threads)
  /\ toS \in [Threads -> {"none", "addr", "done"}]
  /\ toC \in [Threads -> Threads \cup {None}]
  /\ window \in Windows

(* Which threads of the server there are, and what they have numbers for.  *)
Stage ==
  /\ spc \in {"listen", "finished"} => \A i \in Threads : st[i] = Fresh
  /\ spc = "accept" => si <= sround[2] /\ \A i \in Threads : i >= si => st[i] = Fresh
  /\ spc = "join" =>
       /\ si <= sround[2]
       /\ \A i \in Threads : i >= sround[2] => st[i] = Fresh
       /\ \A i \in Threads : i < si => st[i].pc \in {"none", "ended"}
  /\ \A i \in Threads : /\ st[i].pc # "none" => st[i].connfd \in Fds
                        /\ st[i].pc \notin {"none", "open"} => st[i].dev \in Fds

(* Whatever is in the table has an owner that will give it back.           *)
Owning   == {"open", "init", "read", "write", "readdone", "close1", "close1bad", "failed"}
Equipped == {"init", "read", "write", "readdone", "close1", "close1bad", "close2",
             "measure", "closectx", "failed"}
Table ==
  /\ \A f \in Fds : fd[f] = Listener => spc = "accept" /\ f = lfd
  /\ \A f \in Fds, k \in Threads :
       fd[f] = Conn(k) => \E i \in Threads : st[i].connfd = f /\ st[i].pc \in Owning
  /\ \A f \in Fds, i \in Threads :
       fd[f] = Dev(i) => st[i].dev = f /\ st[i].pc \in Equipped

(* What a thread that exchanges or plays finds under its numbers, if no    *)
(* other thread runs between two closes.                                   *)
Holding == {"open", "init", "read", "write", "readdone", "close1", "close1bad"}
Using   == Equipped \ {"failed"}
Apart ==
  ~window /\ Running =>
    /\ spc = "accept" => lfd \in Fds /\ fd[lfd] = Listener
    /\ \A i \in Threads :
         /\ st[i].pc \in Holding => \E k \in Threads : Named(i) = Conn(k)
         /\ st[i].pc \in Using => HasDevice(i)
         /\ st[i].pc = "close2" => Named(i) = Free
    /\ \A i, j \in Threads :
         i # j => /\ st[i].pc \in Holding /\ st[j].pc \in Holding => st[i].connfd # st[j].connfd
                  /\ ~(st[i].pc = "close2" /\ st[j].pc = "close2")

(* Which round the client is in, seen from the server: while one of them   *)
(* waits for the other it has no connections.                              *)
Alive == cpc # "failed" /\ spc \in {"listen", "accept", "join"}
InStep ==
  /\ Alive => \/ cround = sround /\ (spc = "listen" => cpc = "connect" /\ ci = 0)
              \/ cround = Following(sround) /\ cpc = "connect" /\ ci = 0
              \/ /\ sround = Following(cround) /\ spc \in {"listen", "accept"}
                 /\ si = 0 /\ backlog = <<>>
  /\ spc # "accept" => backlog = <<>>
  /\ cpc = "connect" => \A k \in Threads : k >= ci => ct[k] = CFresh

(* A thread that runs has bytes to send, and the bytes and the threads of  *)
(* a round are powers of two.                                              *)
Odd(n) == n % 2 = 1
Divides(d, m) == \E e \in Nat : d * e = m
PowerOf2(m) == \A d \in Nat : Odd(d) /\ Divides(d, m) => d = 1
Binary(r) ==
  /\ PowerOf2(r[1])
  /\ \E m \in Nat : PowerOf2(m) /\ (r[1] = m * r[2] \/ r[2] = m * r[1])
Shares ==
  /\ \A i \in Threads : /\ st[i].pc # "none" => SizePerPeer(sround, i) # 0
                        /\ ct[i] # CFresh => SizePerPeer(cround, i) # 0
  /\ Binary(sround) /\ Binary(cround)

(* In one round a connection is in one place: in the backlog, in the table *)
(* or, when its thread has read from it and closed it, nowhere.            *)
Linked       == ~window /\ Alive /\ cround = sround
InTable(k)   == \E f \in Fds : fd[f] = Conn(k)
InBacklog(k) == \E j \in 1..Len(backlog) : backlog[j] = k
Seen(k)      == InTable(k) \/ InBacklog(k) \/ \E j \in Threads : st[j].rem = k
Talking      == {"write", "readdone", "close1"}
OnePlace ==
  /\ \A k \in Threads : \A f, g \in Fds : fd[f] = Conn(k) /\ fd[g] = Conn(k) => f = g
  /\ \A a, b \in 1..Len(backlog) : backlog[a] = backlog[b] => a = b
  /\ \A k \in Threads : InBacklog(k) => ~InTable(k) /\ \A j \in Threads : st[j].rem # k
  /\ cpc # "finished" => \A k \in Threads : Seen(k) => ct[k].pc # "none"
Peers ==
  /\ \A j \in Threads :
       /\ st[j].pc \in {"none", "open", "init", "read"} => st[j].rem = None
       /\ st[j].pc \in Talking => st[j].rem \in Threads /\ Named(j) = Conn(st[j].rem)
       /\ st[j].rem \in Threads /\ st[j].pc \notin Talking => ~InTable(st[j].rem)
  /\ \A i, j \in Threads : st[i].rem \in Threads /\ st[i].rem = st[j].rem => i = j
Answers ==
  \A k \in Threads :
    /\ ct[k].pc # "none" /\ toC[k] \in Threads => st[toC[k]].rem = k
    /\ ct[k].rem \in Threads => st[ct[k].rem].rem = k
Links == Linked => OnePlace /\ Peers /\ Answers

Basics == ServerTypes /\ ClientTypes /\ WireTypes /\ Stage /\ Table
IInv   == Basics /\ Apart /\ InStep /\ Shares /\ Links

-----------------------------------------------------------------------------
(* Constants, objects and rounds.                                          *)

LEMMA Limits ==
  /\ MaxSize \in Nat \ {0} /\ MaxThreads \in Nat \ {0}
  /\ 0 \in Threads /\ Threads \subseteq Nat /\ Fds \subseteq Nat
  /\ None \notin Threads /\ None \notin Fds
BY LimitsAssumption DEF Threads, Fds, None

(* Different names are different objects.                                  *)
LEMMA ObjectFacts ==
  /\ Free \in Objects /\ Listener \in Objects /\ Free # Listener
  /\ Free[1] # "conn" /\ Listener[1] # "conn"
  /\ \A k \in Threads :
       /\ Conn(k) \in Objects /\ Conn(k) # Free /\ Conn(k) # Listener
       /\ Conn(k)[1] = "conn" /\ Conn(k)[2] = k
       /\ Dev(k) \in Objects /\ Dev(k) # Free /\ Dev(k) # Listener
       /\ Dev(k)[1] # "conn" /\ Dev(k)[2] = k
  /\ \A k, l \in Threads :
       /\ Conn(k) # Dev(l) /\ (Conn(k) = Conn(l) => k = l) /\ (Dev(k) = Dev(l) => k = l)
<1>1. Free \in Objects /\ Listener \in Objects /\ Free # Listener
      /\ Free[1] # "conn" /\ Listener[1] # "conn"
  BY DEF Objects, Free, Listener
<1>2. ASSUME NEW k \in Threads
      PROVE  /\ Conn(k) \in Objects /\ Conn(k) # Free /\ Conn(k) # Listener
             /\ Conn(k)[1] = "conn" /\ Conn(k)[2] = k
             /\ Dev(k) \in Objects /\ Dev(k) # Free /\ Dev(k) # Listener
             /\ Dev(k)[1] # "conn" /\ Dev(k)[2] = k
  BY DEF Objects, Free, Listener, Conn, Dev
<1>3. ASSUME NEW k \in Threads, NEW l \in Threads
      PROVE  Conn(k) # Dev(l) /\ (Conn(k) = Conn(l) => k = l) /\ (Dev(k) = Dev(l) => k = l)
  BY DEF Conn, Dev
<1> QED
  BY <1>1, <1>2, <1>3

LEMMA ObjectCases ==
  ASSUME NEW o \in Objects
  PROVE  \/ o = Free \/ o = Listener
         \/ \E k \in Threads : o = Conn(k)
         \/ \E k \in Threads : o = Dev(k)
BY DEF Objects

LEMMA ConnNamed ==
  ASSUME NEW o \in Objects, o[1] = "conn"
  PROVE  o[2] \in Threads /\ o = Conn(o[2])
<1>1. PICK k \in Threads : o = Conn(k)
  BY ObjectCases, ObjectFacts
<1> QED
  BY <1>1, ObjectFacts

RoundsOf == (1..MaxSize) \X (1..MaxThreads)

LEMMA RoundFacts ==
  ASSUME NEW r \in RoundsOf
  PROVE  /\ r[1] \in 1..MaxSize /\ r[2] \in 1..MaxThreads
         /\ Following(r) # r
         /\ IsRound(Following(r)) => Following(r) \in RoundsOf
         /\ Following(r) \in RoundsOf => IsRound(Following(r))
         /\ Following(r) = IF 2 * r[2] <= MaxThreads THEN <<r[1], 2 * r[2]>> ELSE <<2 * r[1], 1>>
<1>1. r[1] \in 1..MaxSize /\ r[2] \in 1..MaxThreads /\ r = <<r[1], r[2]>>
  BY DEF RoundsOf
<1>2. Following(r) # r
  <2>1. CASE 2 * r[2] <= MaxThreads
    <3>1. Following(r)[2] = 2 * r[2]
      BY <2>1 DEF Following
    <3> QED
      BY <1>1, <3>1
  <2>2. CASE ~(2 * r[2] <= MaxThreads)
    <3>1. Following(r)[1] = 2 * r[1]
      BY <2>2 DEF Following
    <3> QED
      BY <1>1, <3>1
  <2> QED
    BY <2>1, <2>2
<1>3. IsRound(Following(r)) => Following(r) \in RoundsOf
  BY <1>1, Limits DEF IsRound, Following, RoundsOf
<1>4. Following(r) \in RoundsOf => IsRound(Following(r))
  BY <1>1, Limits DEF IsRound, RoundsOf
<1> QED
  BY <1>1, <1>2, <1>3, <1>4 DEF Following

LEMMA Division ==
  ASSUME NEW m \in Nat, NEW n \in Nat \ {0}
  PROVE  /\ m \div n \in Nat /\ m % n \in 0..(n - 1)
         /\ m = n * (m \div n) + (m % n)
OBVIOUS

(* The share of thread 0, without the division, and that it has one.       *)
LEMMA ShareFacts ==
  ASSUME NEW r \in RoundsOf
  PROVE  LET q == r[1] \div r[2]
         IN  /\ q \in Nat /\ r[2] * q <= r[1] /\ r[1] < r[2] * q + r[2]
             /\ SizePerPeer(r, 0) = r[1] - r[2] * q + q
             /\ \A i \in Threads : i # 0 => SizePerPeer(r, i) = q
             /\ SizePerPeer(r, 0) # 0
<1> DEFINE q == r[1] \div r[2]
<1>1. r[1] \in Nat \ {0} /\ r[2] \in Nat \ {0}
  BY RoundFacts
<1>2. q \in Nat /\ r[1] = r[2] * q + (r[1] % r[2]) /\ r[1] % r[2] \in 0..(r[2] - 1)
  BY <1>1, Division
<1>3. r[2] * q \in Nat /\ q * (r[2] - 1) = r[2] * q - q
  <2> HIDE DEF q
  <2> QED
    BY <1>1, <1>2
<1>4. SizePerPeer(r, 0) = r[1] - q * (r[2] - 1) /\ \A i \in Threads : i # 0 => SizePerPeer(r, i) = q
  BY DEF SizePerPeer
<1>5. r[2] * q <= r[1] /\ r[1] < r[2] * q + r[2]
  <2> HIDE DEF q
  <2> QED
    BY <1>1, <1>2, <1>3
<1>6. SizePerPeer(r, 0) = r[1] - r[2] * q + q
  <2> HIDE DEF q
  <2> QED
    BY <1>1, <1>2, <1>3, <1>4
<1>7. SizePerPeer(r, 0) # 0
  <2>1. CASE q = 0
    <3>1. r[2] * q = 0
      BY <1>1, <2>1
    <3> HIDE DEF q
    <3> QED
      BY <1>1, <1>6, <2>1, <3>1
  <2>2. CASE q # 0
    <3> HIDE DEF q
    <3> QED
      BY <1>1, <1>2, <1>3, <1>5, <1>6, <2>2
  <2> QED
    BY <2>1, <2>2
<1> QED
  BY <1>2, <1>4, <1>5, <1>6, <1>7

-----------------------------------------------------------------------------
(* Powers of two.                                                          *)

LEMMA Halves ==
  ASSUME NEW n \in Nat
  PROVE  /\ n % 2 = 0 => \E h \in Nat : n = 2 * h
         /\ n % 2 # 0 => n % 2 = 1 /\ \E h \in Nat : n = 2 * h + 1
<1>1. n \div 2 \in Nat /\ n % 2 \in 0..1 /\ n = 2 * (n \div 2) + (n % 2)
  BY Division
<1> QED
  BY <1>1

LEMMA OddFactor ==
  ASSUME NEW d \in Nat, NEW m \in Nat, Odd(d), Divides(d, 2 * m)
  PROVE  Divides(d, m)
<1>1. PICK e \in Nat : d * e = 2 * m
  BY DEF Divides
<1>2. PICK c \in Nat : d = 2 * c + 1
  BY Halves DEF Odd
<1> DEFINE p == c * e
           h == m - p
<1>3. p \in Nat /\ d * e = 2 * p + e
  BY <1>2
<1>4. e = 2 * h /\ h \in Nat
  <2> HIDE DEF p
  <2> QED
    BY <1>1, <1>3
<1>5. d * (2 * h) = 2 * (d * h) /\ d * h \in Nat
  <2> HIDE DEF h
  <2> QED
    BY <1>4
<1>6. d * h = m
  <2> HIDE DEF h
  <2>1. \A n \in Nat : 2 * n = 2 * m => n = m
    OBVIOUS
  <2> QED
    BY <1>1, <1>4, <1>5, <2>1
<1> QED
  BY <1>4, <1>6 DEF Divides

LEMMA Powers ==
  /\ PowerOf2(1)
  /\ \A m \in Nat : PowerOf2(m) => PowerOf2(2 * m)
  /\ \A m \in Nat : PowerOf2(2 * m) => PowerOf2(m)
  /\ \A m \in Nat : PowerOf2(2 * m + 1) => m = 0
<1>1. PowerOf2(1)
  <2> SUFFICES ASSUME NEW d \in Nat, Divides(d, 1) PROVE d = 1
    BY DEF PowerOf2
  <2>1. PICK e \in Nat : d * e = 1
    BY DEF Divides
  <2>2. PICK e1 \in Nat : e = e1 + 1
    BY <2>1, d * 0 = 0
  <2>3. d * e = d * e1 + d /\ d * e1 \in Nat
    BY <2>2
  <2>4. d # 0
    BY <2>1, 0 * e = 0
  <2> QED
    BY <2>1, <2>3, <2>4
<1>2. ASSUME NEW m \in Nat, PowerOf2(m) PROVE PowerOf2(2 * m)
  BY <1>2, OddFactor DEF PowerOf2
<1>3. ASSUME NEW m \in Nat, PowerOf2(2 * m) PROVE PowerOf2(m)
  <2>1. ASSUME NEW d \in Nat, Divides(d, m) PROVE Divides(d, 2 * m)
    <3>1. PICK e \in Nat : d * e = m
      BY <2>1 DEF Divides
    <3>2. d * (2 * e) = 2 * (d * e) /\ 2 * e \in Nat
      OBVIOUS
    <3> QED
      BY <3>1, <3>2 DEF Divides
  <2> QED
    BY <1>3, <2>1 DEF PowerOf2
<1>4. ASSUME NEW m \in Nat, PowerOf2(2 * m + 1) PROVE m = 0
  <2>1. Divides(2 * m + 1, 2 * m + 1)
    BY (2 * m + 1) * 1 = 2 * m + 1 DEF Divides
  <2>2. Odd(2 * m + 1) /\ 2 * m + 1 \in Nat
    BY DEF Odd
  <2>3. 2 * m + 1 = 1
    BY <1>4, <2>1, <2>2 DEF PowerOf2
  <2> QED
    BY <2>3
<1> QED
  BY <1>1, <1>2, <1>3, <1>4

LEMMA BinaryFirst == Binary(First)
<1>1. First[1] = 1 /\ First[2] = 1 /\ 1 = 1 * 1
  BY DEF First
<1> QED
  BY <1>1, Powers DEF Binary

LEMMA BinaryFollowing ==
  ASSUME NEW r \in RoundsOf, Binary(r) PROVE Binary(Following(r))
<1>1. r[1] \in Nat /\ r[2] \in Nat
  BY RoundFacts
<1>2. PICK m \in Nat : PowerOf2(m) /\ (r[1] = m * r[2] \/ r[2] = m * r[1])
  BY DEF Binary
<1>3. CASE 2 * r[2] <= MaxThreads
  <2>1. Following(r)[1] = r[1] /\ Following(r)[2] = 2 * r[2]
    BY <1>3, RoundFacts
  <2>2. CASE r[2] = m * r[1]
    <3>1. 2 * r[2] = (2 * m) * r[1] /\ 2 * m \in Nat
      <4>1. 2 * (m * r[1]) = (2 * m) * r[1]
        BY <1>1
      <4> QED
        BY <2>2, <4>1
    <3>2. PowerOf2(2 * m)
      BY <1>2, Powers
    <3> QED
      BY <2>1, <3>1, <3>2 DEF Binary
  <2>3. CASE r[1] = m * r[2] /\ m % 2 = 0
    <3>1. PICK h \in Nat : m = 2 * h
      BY <2>3, Halves
    <3>2. r[1] = h * (2 * r[2])
      <4>1. (2 * h) * r[2] = h * (2 * r[2])
        BY <1>1
      <4> QED
        BY <2>3, <3>1, <4>1
    <3>3. PowerOf2(h)
      BY <1>2, <3>1, Powers
    <3> QED
      BY <2>1, <3>2, <3>3 DEF Binary
  <2>4. CASE r[1] = m * r[2] /\ m % 2 # 0
    <3>1. PICK h \in Nat : m = 2 * h + 1
      BY <2>4, Halves
    <3>2. h = 0
      BY <1>2, <3>1, Powers
    <3>3. m = 1
      BY <3>1, <3>2
    <3>4. r[1] = r[2]
      BY <1>1, <2>4, <3>3
    <3>5. 2 * r[2] = 2 * r[1] /\ PowerOf2(2)
      <4>1. PowerOf2(2 * 1) /\ 2 * 1 = 2
        BY Powers
      <4> QED
        BY <3>4, <4>1
    <3> QED
      BY <2>1, <3>5 DEF Binary
  <2> QED
    BY <1>2, <2>2, <2>3, <2>4
<1>4. CASE ~(2 * r[2] <= MaxThreads)
  <2>1. Following(r)[1] = 2 * r[1] /\ Following(r)[2] = 1
    BY <1>4, RoundFacts
  <2>2. PowerOf2(2 * r[1]) /\ 2 * r[1] \in Nat /\ 2 * r[1] = (2 * r[1]) * 1
    BY <1>1, Powers DEF Binary
  <2> QED
    BY <2>1, <2>2 DEF Binary
<1> QED
  BY <1>3, <1>4

(* Threads that have anything to send have the same share.                 *)
LEMMA SameShare ==
  ASSUME NEW r \in RoundsOf, Binary(r), NEW i \in Threads, NEW k \in Threads,
         SizePerPeer(r, i) # 0, SizePerPeer(r, k) # 0
  PROVE  SizePerPeer(r, i) = SizePerPeer(r, k)
<1> DEFINE q == r[1] \div r[2]
<1>1. /\ q \in Nat /\ r[2] * q <= r[1] /\ r[1] < r[2] * q + r[2]
      /\ SizePerPeer(r, 0) = r[1] - r[2] * q + q
      /\ \A t \in Threads : t # 0 => SizePerPeer(r, t) = q
  BY ShareFacts
<1>2. r[1] \in Nat \ {0} /\ r[2] \in Nat \ {0}
  BY RoundFacts
<1> HIDE DEF q
<1>3. ASSUME q # 0 PROVE SizePerPeer(r, 0) = q
  <2>1. r[2] <= r[1]
    <3>1. PICK p \in Nat : q = p + 1
      BY <1>1, <1>3
    <3>2. r[2] * q = r[2] * p + r[2] /\ r[2] * p \in Nat
      BY <1>2, <3>1
    <3> QED
      BY <1>1, <1>2, <3>2
  <2>2. PICK m \in Nat : r[1] = m * r[2] \/ r[2] = m * r[1]
    BY DEF Binary
  <2>3. PICK c \in Nat : r[1] = c * r[2]
    <3>1. CASE r[1] = m * r[2]
      BY <3>1
    <3>2. CASE r[2] = m * r[1]
      <4>1. m # 0
        BY <1>2, <3>2, 0 * r[1] = 0
      <4>2. PICK p \in Nat : m = p + 1
        BY <4>1
      <4>3. m * r[1] = p * r[1] + r[1] /\ p * r[1] \in Nat
        BY <1>2, <4>2
      <4>4. r[1] = r[2]
        BY <1>2, <2>1, <3>2, <4>3
      <4>5. r[1] = 1 * r[2]
        BY <1>2, <4>4
      <4> QED
        BY <4>5
    <3> QED
      BY <2>2, <3>1, <3>2
  <2>4. c = q
    <3>1. CASE c > q
      <4>1. PICK p \in Nat : c = q + 1 + p
        BY <1>1, <3>1, c = q + 1 + (c - q - 1)
      <4>2. c * r[2] = r[2] * q + r[2] + p * r[2] /\ p * r[2] \in Nat
        BY <1>1, <1>2, <4>1
      <4>3. r[2] * q \in Nat
        BY <1>1, <1>2
      <4> QED
        BY <1>1, <1>2, <2>3, <4>2, <4>3
    <3>2. CASE c < q
      <4>1. PICK p \in Nat : q = c + 1 + p
        BY <1>1, <3>2, q = c + 1 + (q - c - 1)
      <4>2. r[2] * q = c * r[2] + r[2] + p * r[2] /\ p * r[2] \in Nat
        BY <1>1, <1>2, <4>1
      <4>3. c * r[2] \in Nat
        BY <1>2
      <4> QED
        BY <1>1, <1>2, <2>3, <4>2, <4>3
    <3> QED
      BY <1>1, <3>1, <3>2
  <2>5. r[2] * q = r[1]
    BY <1>1, <1>2, <2>3, <2>4
  <2> QED
    BY <1>1, <1>2, <2>5
<1>4. CASE i = 0 /\ k # 0
  BY <1>1, <1>3, <1>4
<1>5. CASE i # 0 /\ k = 0
  BY <1>1, <1>3, <1>5
<1>6. CASE i # 0 /\ k # 0
  BY <1>1, <1>6
<1>7. CASE i = 0 /\ k = 0
  BY <1>7
<1> QED
  BY <1>4, <1>5, <1>6, <1>7

-----------------------------------------------------------------------------
(* The lowest free number.                                                 *)

(* As long as a device is missing not all numbers are taken.               *)
LEMMA FreeExists ==
  ASSUME ServerTypes, Table, NEW i0 \in Threads, \A f \in Fds : fd[f] # Dev(i0)
  PROVE  \E f \in Fds : fd[f] = Free
<1> SUFFICES ASSUME \A f \in Fds : fd[f] # Free PROVE FALSE
  OBVIOUS
<1> DEFINE owner(f) == CHOOSE i \in Threads : st[i].connfd = f /\ st[i].pc \in Owning
           num(f) == IF fd[f] = Listener THEN 0
                     ELSE IF fd[f][1] = "conn" THEN owner(f) + 1 ELSE MaxThreads + 1 + fd[f][2]
           T == (0..(2 * MaxThreads)) \ {MaxThreads + 1 + i0}
           F == [f \in Fds |-> num(f)]
<1>1. \A f \in Fds : fd[f] \in Objects
  BY DEF ServerTypes
<1>2. ASSUME NEW f \in Fds, NEW k \in Threads, fd[f] = Conn(k)
      PROVE  owner(f) \in Threads /\ st[owner(f)].connfd = f
  <2>1. \E i \in Threads : st[i].connfd = f /\ st[i].pc \in Owning
    BY <1>2 DEF Table
  <2> QED
    BY <2>1
<1>3. ASSUME NEW f \in Fds
      PROVE  \/ fd[f] = Listener /\ num(f) = 0 /\ f = lfd
             \/ \E i \in Threads : num(f) = i + 1 /\ st[i].connfd = f
             \/ \E i \in Threads : i # i0 /\ num(f) = MaxThreads + 1 + i /\ st[i].dev = f
  <2>1. CASE fd[f] = Listener
    BY <2>1 DEF Table
  <2>2. ASSUME NEW k \in Threads, fd[f] = Conn(k)
        PROVE  \E i \in Threads : num(f) = i + 1 /\ st[i].connfd = f
    <3>1. num(f) = owner(f) + 1
      BY <2>2, ObjectFacts
    <3> QED
      BY <1>2, <2>2, <3>1
  <2>3. ASSUME NEW k \in Threads, fd[f] = Dev(k)
        PROVE  k # i0 /\ num(f) = MaxThreads + 1 + k /\ st[k].dev = f
    BY <2>3, ObjectFacts DEF Table
  <2> QED
    BY <1>1, <2>1, <2>2, <2>3, ObjectCases
<1> HIDE DEF num
<1>4. ASSUME NEW f \in Fds PROVE num(f) \in T
  BY <1>3, Limits DEF Threads
<1>5. ASSUME NEW f \in Fds, NEW g \in Fds, num(f) = num(g) PROVE f = g
  BY <1>3, <1>5, Limits DEF Threads
<1>6. F \in [Fds -> T]
  BY <1>4
<1>7. IsFiniteSet(Fds) /\ Cardinality(Fds) = 2 * MaxThreads + 1
  BY FS_Interval, Limits DEF Fds
<1>8. IsFiniteSet(T) /\ Cardinality(T) = 2 * MaxThreads
  <2>1. MaxThreads + 1 + i0 \in 0..(2 * MaxThreads)
    BY Limits DEF Threads
  <2>2. IsFiniteSet(0..(2 * MaxThreads)) /\ Cardinality(0..(2 * MaxThreads)) = 2 * MaxThreads + 1
    BY FS_Interval, Limits
  <2> DEFINE A == 0..(2 * MaxThreads)
             x == MaxThreads + 1 + i0
  <2>3. IsFiniteSet(A \ {x}) /\ Cardinality(A \ {x}) = Cardinality(A) - 1
    <3> HIDE DEF A, x
    <3>1. x \in A /\ IsFiniteSet(A)
      BY <2>1, <2>2 DEF A, x
    <3> QED
      BY <3>1, FS_RemoveElement
  <2>4. Cardinality(A) - 1 = 2 * MaxThreads
    BY <2>2, Limits
  <2> QED
    BY <2>3, <2>4
<1>9. PICK f, g \in Fds : f # g /\ F[f] = F[g]
  <2>1. Cardinality(T) < Cardinality(Fds)
    BY <1>7, <1>8, Limits
  <2> HIDE DEF T, F
  <2> QED
    BY <1>6, <1>7, <1>8, <2>1, FS_PigeonHole
<1> QED
  BY <1>5, <1>9

LEMMA LowestFree ==
  ASSUME ServerTypes, Table, NEW i0 \in Threads, \A f \in Fds : fd[f] # Dev(i0)
  PROVE  Lowest \in Fds /\ fd[Lowest] = Free
<1> DEFINE S == {f \in Fds : fd[f] = Free}
<1>1. S # {} /\ S \subseteq Nat
  BY FreeExists, Limits
<1>2. PICK f \in S : \A g \in S : <<g, f>> \notin OpToRel(<, Nat)
  <2> HIDE DEF S
  <2> QED
    BY <1>1, WFMin, NatLessThanWellFounded, Zenon
<1>3. \A g \in S : ~(g < f)
  <2>1. f \in Nat
    BY <1>1, <1>2
  <2>2. ASSUME NEW g \in S PROVE ~(g < f)
    <3>1. g \in Nat
      BY <1>1
    <3> QED
      BY <1>2, <2>1, <3>1, Zenon DEF OpToRel
  <2> QED
    BY <2>2
<1>4. \A g \in 0..(f - 1) : fd[g] # Free
  <2> SUFFICES ASSUME NEW g \in 0..(f - 1), fd[g] = Free PROVE FALSE
    OBVIOUS
  <2>1. g \in Fds /\ g < f
    BY Limits DEF Fds
  <2> QED
    BY <1>3, <2>1
<1>5. \E h \in Fds : fd[h] = Free /\ \A g \in 0..(h - 1) : fd[g] # Free
  BY <1>2, <1>4
<1> QED
  BY <1>5 DEF Lowest

-----------------------------------------------------------------------------
(* A step of thread i of the server, which leaves it in state r: what it   *)
(* may do to the descriptor table.                                         *)

ThreadMove(i, r) ==
  /\ st[i].pc \notin {"none", "ended"}
  /\ r \in ServerThreads /\ r.pc \notin {"none", "open"}
  /\ r.connfd = st[i].connfd /\ r.connfd \in Fds /\ r.dev \in Fds
  /\ st' = [st EXCEPT ![i] = r] /\ fd' \in [Fds -> Objects]
  /\ \A f \in Fds : /\ fd'[f] = fd[f] \/ fd'[f] = Free \/ fd'[f] = Dev(i)
                    /\ fd'[f] = Dev(i) => r.dev = f /\ r.pc \in Equipped
  /\ r.pc \in Owning \/ st[i].pc \notin Owning \/ fd'[r.connfd] = Free
MoveApart(i, r) ==
  ~window =>
    /\ \A f \in Fds : \/ fd'[f] = fd[f] \/ fd[f] = Free \/ fd[f] = Dev(i)
                      \/ f = r.connfd /\ st[i].pc \in {"close1", "close1bad", "close2"}
    /\ r.pc \in Holding => st[i].pc \in Holding /\ fd'[r.connfd] = fd[r.connfd]
    /\ r.pc \in Using => fd'[r.dev] = Dev(i)
    /\ r.pc = "close2" => fd'[r.connfd] = Free

(* The parts of the table and of the record that all these proofs need.    *)
LEMMA ThreadFacts ==
  ASSUME Basics, Apart, Running, NEW i \in Threads, st[i].pc \notin {"none", "ended"}
  PROVE  /\ st[i] \in ServerThreads /\ st[i].connfd \in Fds /\ fd \in [Fds -> Objects]
         /\ st[i].pc # "open" => st[i].dev \in Fds
         /\ Free \in Objects /\ Dev(i) \in Objects /\ Free # Dev(i)
         /\ \A f \in Fds : fd[f] = Dev(i) => st[i].dev = f /\ st[i].pc \in Equipped
         /\ ~window =>
              /\ st[i].pc \in Holding => \E k \in Threads : fd[st[i].connfd] = Conn(k)
              /\ st[i].pc \in Using => fd[st[i].dev] = Dev(i)
              /\ st[i].pc = "close2" => fd[st[i].connfd] = Free
<1>1. st[i] \in ServerThreads /\ fd \in [Fds -> Objects]
  BY DEF Basics, ServerTypes
<1>2. st[i].connfd \in Fds /\ (st[i].pc # "open" => st[i].dev \in Fds)
  BY DEF Basics, Stage
<1>3. \A f \in Fds : fd[f] = Dev(i) => st[i].dev = f /\ st[i].pc \in Equipped
  BY DEF Basics, Table
<1>4. ~window => /\ st[i].pc \in Holding => \E k \in Threads : fd[st[i].connfd] = Conn(k)
                 /\ st[i].pc \in Using => fd[st[i].dev] = Dev(i)
                 /\ st[i].pc = "close2" => fd[st[i].connfd] = Free
  BY DEF Apart, Named, HasDevice
<1> QED
  BY <1>1, <1>2, <1>3, <1>4, ObjectFacts

(* Steps that only go on to another line of the thread.                    *)
LEMMA GotoMove ==
  ASSUME Basics, Apart, Running, NEW i \in Threads, st[i].pc \notin {"none", "ended", "open"},
         NEW r \in ServerThreads, r.connfd = st[i].connfd, r.dev = st[i].dev,
         st' = [st EXCEPT ![i] = r], fd' = fd,
         r.pc \notin {"none", "open"}, r.pc \in Owning \/ st[i].pc \notin Owning,
         st[i].pc \in Equipped => r.pc \in Equipped,
         r.pc \in Holding => st[i].pc \in Holding, r.pc # "close2",
         ~window /\ r.pc \in Using => fd[r.dev] = Dev(i)
  PROVE  ThreadMove(i, r) /\ MoveApart(i, r)
<1>1. ThreadMove(i, r)
  BY ThreadFacts DEF ThreadMove
<1>2. MoveApart(i, r)
  BY ThreadFacts DEF MoveApart
<1> QED
  BY <1>1, <1>2

LEMMA OpenDeviceMove ==
  ASSUME Basics, Apart, Running, NEW i \in Threads, OpenDevice(i)
  PROVE  LET r == [st[i] EXCEPT !.dev = Lowest, !.pc = "init"]
         IN  /\ ThreadMove(i, r) /\ MoveApart(i, r)
             /\ fd' = [fd EXCEPT ![Lowest] = Dev(i)] /\ Lowest \in Fds /\ fd[Lowest] = Free
<1> DEFINE r == [st[i] EXCEPT !.dev = Lowest, !.pc = "init"]
<1>1. st[i].pc = "open" /\ fd' = [fd EXCEPT ![Lowest] = Dev(i)] /\ st' = [st EXCEPT ![i] = r]
  BY DEF OpenDevice
<1>2. \A f \in Fds : fd[f] # Dev(i)
  BY <1>1, ThreadFacts DEF Equipped
<1>3. Lowest \in Fds /\ fd[Lowest] = Free
  BY <1>2, LowestFree DEF Basics
<1>4. r \in ServerThreads /\ r.pc = "init" /\ r.dev = Lowest /\ r.connfd = st[i].connfd
  BY <1>1, <1>3, ThreadFacts DEF ServerThreads
<1>5. fd' \in [Fds -> Objects] /\ fd'[Lowest] = Dev(i) /\ \A f \in Fds : f # Lowest => fd'[f] = fd[f]
  BY <1>1, <1>3, ThreadFacts
<1> HIDE DEF r
<1>6. ThreadMove(i, r)
  BY <1>1, <1>2, <1>3, <1>4, <1>5, ThreadFacts DEF ThreadMove, Owning, Equipped
<1>7. ~window => st[i].connfd # Lowest
  BY <1>1, <1>3, ThreadFacts, ObjectFacts DEF Holding
<1>8. MoveApart(i, r)
  BY <1>1, <1>3, <1>4, <1>5, <1>7, ThreadFacts DEF MoveApart, Holding
<1> QED
  BY <1>1, <1>3, <1>6, <1>8 DEF r

LEMMA InitContextMove ==
  ASSUME Basics, Apart, Running, NEW i \in Threads, InitContext(i)
  PROVE  \E pc \in {"read", "failed"} : LET r == [st[i] EXCEPT !.pc = pc]
           IN  ThreadMove(i, r) /\ MoveApart(i, r)
<1>1. PICK pc \in {"read", "failed"} :
        st[i].pc = "init" /\ st' = [st EXCEPT ![i] = [st[i] EXCEPT !.pc = pc]] /\ fd' = fd
  BY DEF InitContext, Goto
<1> DEFINE r == [st[i] EXCEPT !.pc = pc]
<1>2. r \in ServerThreads /\ r.pc = pc /\ r.dev = st[i].dev /\ r.connfd = st[i].connfd
  BY <1>1, ThreadFacts DEF ServerThreads
<1> HIDE DEF r
<1>3. ~window => fd[r.dev] = Dev(i)
  BY <1>1, <1>2, ThreadFacts DEF Using, Equipped
<1>4. ThreadMove(i, r) /\ MoveApart(i, r)
  BY <1>1, <1>2, <1>3, GotoMove DEF Owning, Equipped, Holding, r
<1> QED
  BY <1>4 DEF r

LEMMA ReadAddrMove ==
  ASSUME Basics, Apart, Running, NEW i \in Threads, ReadAddr(i)
  PROVE  /\ st[i].pc = "read" /\ fd' = fd /\ backlog' = backlog /\ toC' = toC
         /\ \E r \in ServerThreads :
              /\ ThreadMove(i, r) /\ MoveApart(i, r)
              /\ \/ r.pc = "close1bad" /\ r.rem = st[i].rem
                 \/ r.pc = "write" /\ Named(i)[1] = "conn" /\ r.rem = Named(i)[2]
<1>1. st[i].pc = "read" /\ fd' = fd /\ backlog' = backlog /\ toC' = toC
  BY DEF ReadAddr, wires
<1>2. \/ st' = [st EXCEPT ![i] = [st[i] EXCEPT !.pc = "close1bad"]]
      \/ /\ Named(i)[1] = "conn"
         /\ st' = [st EXCEPT ![i] = [st[i] EXCEPT !.rem = Named(i)[2], !.pc = "write"]]
  BY DEF ReadAddr, Goto
<1>3. CASE st' = [st EXCEPT ![i] = [st[i] EXCEPT !.pc = "close1bad"]]
  <2> DEFINE r == [st[i] EXCEPT !.pc = "close1bad"]
  <2>1. /\ r \in ServerThreads /\ r.pc = "close1bad" /\ r.dev = st[i].dev
        /\ r.connfd = st[i].connfd /\ r.rem = st[i].rem
    BY <1>1, ThreadFacts DEF ServerThreads
  <2>2. st' = [st EXCEPT ![i] = r]
    BY <1>3
  <2> HIDE DEF r
  <2>3. ThreadMove(i, r) /\ MoveApart(i, r)
    BY <1>1, <2>1, <2>2, GotoMove, ThreadFacts DEF Owning, Equipped, Holding, Using
  <2> QED
    BY <1>1, <2>1, <2>3
<1>4. CASE /\ Named(i)[1] = "conn"
           /\ st' = [st EXCEPT ![i] = [st[i] EXCEPT !.rem = Named(i)[2], !.pc = "write"]]
  <2> DEFINE r == [st[i] EXCEPT !.rem = Named(i)[2], !.pc = "write"]
  <2>1. Named(i)[2] \in Threads
    BY <1>1, <1>4, ThreadFacts, ConnNamed DEF Named
  <2>2. /\ r \in ServerThreads /\ r.pc = "write" /\ r.dev = st[i].dev
        /\ r.connfd = st[i].connfd /\ r.rem = Named(i)[2]
    BY <1>1, <2>1, ThreadFacts DEF ServerThreads
  <2>3. st' = [st EXCEPT ![i] = r]
    BY <1>4
  <2> HIDE DEF r
  <2>4. ThreadMove(i, r) /\ MoveApart(i, r)
    BY <1>1, <2>2, <2>3, GotoMove, ThreadFacts DEF Owning, Equipped, Holding, Using
  <2> QED
    BY <1>1, <1>4, <2>2, <2>4
<1> QED
  BY <1>2, <1>3, <1>4

LEMMA WriteAddrMove ==
  ASSUME Basics, Apart, Running, NEW i \in Threads, WriteAddr(i)
  PROVE  /\ st[i].pc = "write" /\ fd' = fd /\ backlog' = backlog
         /\ \E r \in ServerThreads :
              /\ ThreadMove(i, r) /\ MoveApart(i, r) /\ r.rem = st[i].rem
              /\ \/ r.pc = "close1bad" /\ Named(i)[1] # "conn" /\ toC' = toC
                 \/ /\ r.pc = "readdone" /\ Named(i)[1] = "conn"
                    /\ toC' = [toC EXCEPT ![Named(i)[2]] = i]
<1>1. st[i].pc = "write" /\ fd' = fd /\ backlog' = backlog
  BY DEF WriteAddr, wires
<1>2. PICK pc \in {"close1bad", "readdone"} :
        /\ st' = [st EXCEPT ![i] = [st[i] EXCEPT !.pc = pc]]
        /\ \/ pc = "close1bad" /\ Named(i)[1] # "conn" /\ toC' = toC
           \/ pc = "readdone" /\ Named(i)[1] = "conn" /\ toC' = [toC EXCEPT ![Named(i)[2]] = i]
  <2>1. CASE Named(i)[1] # "conn"
    BY <2>1 DEF WriteAddr, Goto, wires
  <2>2. CASE Named(i)[1] = "conn"
    BY <2>2 DEF WriteAddr, Goto
  <2> QED
    BY <2>1, <2>2
<1> DEFINE r == [st[i] EXCEPT !.pc = pc]
<1>3. /\ r \in ServerThreads /\ r.pc = pc /\ r.dev = st[i].dev
      /\ r.connfd = st[i].connfd /\ r.rem = st[i].rem
  BY <1>1, ThreadFacts DEF ServerThreads
<1>4. st' = [st EXCEPT ![i] = r]
  BY <1>2
<1> HIDE DEF r
<1>5. ThreadMove(i, r) /\ MoveApart(i, r)
  BY <1>1, <1>2, <1>3, <1>4, GotoMove, ThreadFacts DEF Owning, Equipped, Holding, Using
<1> QED
  BY <1>1, <1>2, <1>3, <1>5

LEMMA ReadDoneMove ==
  ASSUME Basics, Apart, Running, NEW i \in Threads, ReadDone(i)
  PROVE  /\ st[i].pc = "readdone" /\ fd' = fd /\ backlog' = backlog /\ toC' = toC
         /\ \E r \in ServerThreads :
              ThreadMove(i, r) /\ MoveApart(i, r) /\ r.rem = st[i].rem /\ r.pc = "close1"
<1>1. st[i].pc = "readdone" /\ fd' = fd /\ backlog' = backlog /\ toC' = toC
      /\ st' = [st EXCEPT ![i] = [st[i] EXCEPT !.pc = "close1"]]
  BY DEF ReadDone, wires, Goto
<1> DEFINE r == [st[i] EXCEPT !.pc = "close1"]
<1>2. /\ r \in ServerThreads /\ r.pc = "close1" /\ r.dev = st[i].dev
      /\ r.connfd = st[i].connfd /\ r.rem = st[i].rem
  BY <1>1, ThreadFacts DEF ServerThreads
<1>3. st' = [st EXCEPT ![i] = r]
  BY <1>1
<1> HIDE DEF r
<1>4. ThreadMove(i, r) /\ MoveApart(i, r)
  BY <1>1, <1>2, <1>3, GotoMove, ThreadFacts DEF Owning, Equipped, Holding, Using
<1> QED
  BY <1>1, <1>2, <1>4

LEMMA CloseFirstMove ==
  ASSUME Basics, Apart, Running, NEW i \in Threads, CloseFirst(i)
  PROVE  /\ st[i].pc \in {"close1", "close1bad"} /\ backlog' = backlog /\ toC' = toC
         /\ fd' = [fd EXCEPT ![st[i].connfd] = Free] /\ st[i].connfd \in Fds
         /\ \E r \in ServerThreads :
              /\ ThreadMove(i, r) /\ MoveApart(i, r) /\ r.rem = st[i].rem
              /\ r.pc \in {"close2", "failed"}
<1>1. /\ st[i].pc \in {"close1", "close1bad"} /\ backlog' = backlog /\ toC' = toC
      /\ fd' = [fd EXCEPT ![st[i].connfd] = Free]
  BY DEF CloseFirst, wires
<1>2. PICK pc \in {"close2", "failed"} : st' = [st EXCEPT ![i] = [st[i] EXCEPT !.pc = pc]]
  BY DEF CloseFirst, Goto
<1> DEFINE r == [st[i] EXCEPT !.pc = pc]
<1>3. /\ r \in ServerThreads /\ r.pc = pc /\ r.dev = st[i].dev
      /\ r.connfd = st[i].connfd /\ r.rem = st[i].rem
  BY <1>1, ThreadFacts DEF ServerThreads
<1>4. st' = [st EXCEPT ![i] = r]
  BY <1>2
<1>5. /\ st[i].connfd \in Fds /\ fd' \in [Fds -> Objects] /\ fd'[st[i].connfd] = Free
      /\ \A f \in Fds : f # st[i].connfd => fd'[f] = fd[f]
  BY <1>1, ThreadFacts
<1> HIDE DEF r
<1>6. ThreadMove(i, r)
  BY <1>1, <1>2, <1>3, <1>4, <1>5, ThreadFacts DEF ThreadMove, Owning, Equipped
<1>7. ~window => fd[st[i].dev] = Dev(i) /\ st[i].dev # st[i].connfd /\ st[i].dev \in Fds
  BY <1>1, ThreadFacts, ObjectFacts DEF Using, Equipped, Holding
<1>8. MoveApart(i, r)
  BY <1>1, <1>2, <1>3, <1>5, <1>7, ThreadFacts DEF MoveApart, Holding
<1> QED
  BY <1>1, <1>2, <1>3, <1>5, <1>6, <1>8

LEMMA CloseSecondMove ==
  ASSUME Basics, Apart, Running, NEW i \in Threads, CloseSecond(i)
  PROVE  /\ st[i].pc = "close2" /\ backlog' = backlog /\ toC' = toC
         /\ fd' = [fd EXCEPT ![st[i].connfd] = Free] /\ st[i].connfd \in Fds
         /\ \E r \in ServerThreads :
              ThreadMove(i, r) /\ MoveApart(i, r) /\ r.rem = st[i].rem /\ r.pc = "measure"
<1>1. /\ st[i].pc = "close2" /\ backlog' = backlog /\ toC' = toC
      /\ fd' = [fd EXCEPT ![st[i].connfd] = Free]
      /\ st' = [st EXCEPT ![i] = [st[i] EXCEPT !.pc = "measure"]]
  BY DEF CloseSecond, wires, Goto
<1> DEFINE r == [st[i] EXCEPT !.pc = "measure"]
<1>2. /\ r \in ServerThreads /\ r.pc = "measure" /\ r.dev = st[i].dev
      /\ r.connfd = st[i].connfd /\ r.rem = st[i].rem
  BY <1>1, ThreadFacts DEF ServerThreads
<1>3. st' = [st EXCEPT ![i] = r]
  BY <1>1
<1>4. /\ st[i].connfd \in Fds /\ fd' \in [Fds -> Objects] /\ fd'[st[i].connfd] = Free
      /\ \A f \in Fds : f # st[i].connfd => fd'[f] = fd[f]
  BY <1>1, ThreadFacts
<1> HIDE DEF r
<1>5. ThreadMove(i, r)
  BY <1>1, <1>2, <1>3, <1>4, ThreadFacts DEF ThreadMove, Owning, Equipped
<1>6. ~window => fd[st[i].dev] = Dev(i) /\ st[i].dev # st[i].connfd /\ st[i].dev \in Fds
  BY <1>1, ThreadFacts, ObjectFacts DEF Using, Equipped
<1>7. MoveApart(i, r)
  BY <1>1, <1>2, <1>4, <1>6, ThreadFacts DEF MoveApart, Holding
<1> QED
  BY <1>1, <1>2, <1>4, <1>5, <1>7

LEMMA CloseDeviceMove ==
  ASSUME Basics, Apart, Running, NEW i \in Threads, CloseDevice(i)
  PROVE  /\ st[i].pc = "closectx" /\ backlog' = backlog /\ toC' = toC
         /\ fd' = fd \/ (fd[st[i].dev] = Dev(i) /\ fd' = [fd EXCEPT ![st[i].dev] = Free])
         /\ \E r \in ServerThreads :
              /\ ThreadMove(i, r) /\ MoveApart(i, r) /\ r.rem = st[i].rem
              /\ r.pc \in {"ended", "failed"}
<1>1. st[i].pc = "closectx" /\ backlog' = backlog /\ toC' = toC
  BY DEF CloseDevice, wires
<1>2. st[i].dev \in Fds
  BY <1>1, ThreadFacts
<1>3. CASE fd[st[i].dev] = Dev(i)
  <2> DEFINE r == [st[i] EXCEPT !.pc = "ended"]
  <2>1. st' = [st EXCEPT ![i] = r] /\ fd' = [fd EXCEPT ![st[i].dev] = Free]
    BY <1>3 DEF CloseDevice, HasDevice, Goto
  <2>2. /\ r \in ServerThreads /\ r.pc = "ended" /\ r.dev = st[i].dev
        /\ r.connfd = st[i].connfd /\ r.rem = st[i].rem
    BY <1>1, ThreadFacts DEF ServerThreads
  <2>3. /\ fd' \in [Fds -> Objects] /\ fd'[st[i].dev] = Free
        /\ \A f \in Fds : f # st[i].dev => fd'[f] = fd[f]
    BY <1>1, <1>2, <2>1, ThreadFacts
  <2> HIDE DEF r
  <2>4. ThreadMove(i, r)
    BY <1>1, <1>2, <2>1, <2>2, <2>3, ThreadFacts DEF ThreadMove, Owning, Equipped
  <2>5. MoveApart(i, r)
    BY <1>1, <1>2, <1>3, <2>2, <2>3, ThreadFacts DEF MoveApart, Holding, Using, Equipped
  <2> QED
    BY <1>1, <1>3, <2>1, <2>2, <2>4, <2>5
<1>4. CASE fd[st[i].dev] # Dev(i)
  <2> DEFINE r == [st[i] EXCEPT !.pc = "failed"]
  <2>1. st' = [st EXCEPT ![i] = r] /\ fd' = fd
    BY <1>4 DEF CloseDevice, HasDevice, Goto
  <2>2. /\ r \in ServerThreads /\ r.pc = "failed" /\ r.dev = st[i].dev
        /\ r.connfd = st[i].connfd /\ r.rem = st[i].rem
    BY <1>1, ThreadFacts DEF ServerThreads
  <2> HIDE DEF r
  <2>3. ThreadMove(i, r) /\ MoveApart(i, r)
    BY <1>1, <2>1, <2>2, GotoMove DEF Owning, Equipped, Holding, Using
  <2> QED
    BY <1>1, <2>1, <2>2, <2>3
<1> QED
  BY <1>3, <1>4

(* The measurement, and its failure when the peer is gone.                 *)
LEMMA PlayMove ==
  ASSUME Basics, Apart, Running, NEW i \in Threads, st[i].pc = "measure",
         NEW pc \in {"closectx", "failed"}, Goto(i, pc), fd' = fd
  PROVE  \E r \in ServerThreads :
           ThreadMove(i, r) /\ MoveApart(i, r) /\ r.rem = st[i].rem /\ r.pc = pc
<1> DEFINE r == [st[i] EXCEPT !.pc = pc]
<1>1. st' = [st EXCEPT ![i] = r]
  BY DEF Goto
<1>2. /\ r \in ServerThreads /\ r.pc = pc /\ r.dev = st[i].dev
      /\ r.connfd = st[i].connfd /\ r.rem = st[i].rem
  BY ThreadFacts DEF ServerThreads
<1> HIDE DEF r
<1>3. ThreadMove(i, r) /\ MoveApart(i, r)
  BY <1>1, <1>2, GotoMove, ThreadFacts DEF Owning, Equipped, Holding, Using
<1> QED
  BY <1>2, <1>3

(* Such a step keeps the table in order.                                   *)
LEMMA MoveBasics ==
  ASSUME Basics, Running, NEW i \in Threads, NEW r, ThreadMove(i, r), UNCHANGED serverMain
  PROVE  ServerTypes' /\ Stage' /\ Table'
<1>1. /\ st' = [st EXCEPT ![i] = r] /\ r \in ServerThreads /\ r.pc \notin {"none", "open"}
      /\ r.connfd = st[i].connfd /\ r.connfd \in Fds /\ r.dev \in Fds
      /\ st[i].pc \notin {"none", "ended"}
      /\ UNCHANGED <<spc, sround, si, lfd>>
  BY DEF ThreadMove, serverMain
<1>2. st \in [Threads -> ServerThreads] /\ fd \in [Fds -> Objects] /\ fd' \in [Fds -> Objects]
  BY DEF Basics, ServerTypes, ThreadMove
<1>3. st'[i] = r /\ \A j \in Threads : j # i => st'[j] = st[j]
  BY <1>1, <1>2
<1>4. ServerTypes'
  <2>1. st' \in [Threads -> ServerThreads]
    BY <1>1, <1>2
  <2> QED
    BY <1>1, <1>2, <2>1 DEF Basics, ServerTypes
<1>5. Stage'
  <2>1. spc \in {"accept", "join"} /\ si \in Nat /\ sround[2] \in Nat
    BY RoundFacts DEF Basics, ServerTypes, Running, RoundsOf
  <2>2. st[i] # Fresh
    BY <1>1 DEF Fresh
  <2>3. spc = "accept" => si <= sround[2] /\ \A j \in Threads : j >= si => st[j] = Fresh
    BY DEF Basics, Stage
  <2>4. spc = "join" => /\ si <= sround[2]
                        /\ \A j \in Threads : j >= sround[2] => st[j] = Fresh
                        /\ \A j \in Threads : j < si => st[j].pc \in {"none", "ended"}
    BY DEF Basics, Stage
  <2>5. \A j \in Threads : /\ st[j].pc # "none" => st[j].connfd \in Fds
                           /\ st[j].pc \notin {"none", "open"} => st[j].dev \in Fds
    BY DEF Basics, Stage
  <2>6. \A j \in Threads : /\ st'[j].pc # "none" => st'[j].connfd \in Fds
                           /\ st'[j].pc \notin {"none", "open"} => st'[j].dev \in Fds
    BY <1>1, <1>3, <2>5
  <2>7. spc = "accept" => \A j \in Threads : j >= si => st'[j] = Fresh
    BY <1>3, <2>2, <2>3
  <2>8. spc = "join" => /\ \A j \in Threads : j >= sround[2] => st'[j] = Fresh
                        /\ \A j \in Threads : j < si => st'[j].pc \in {"none", "ended"}
    BY <1>1, <1>3, <2>2, <2>4
  <2> QED
    BY <1>1, <2>1, <2>3, <2>4, <2>6, <2>7, <2>8 DEF Stage
<1>6. Table'
  <2>1. \A f \in Fds : fd'[f] = fd[f] \/ fd'[f] = Free \/ fd'[f] = Dev(i)
    BY DEF ThreadMove
  <2>2. ASSUME NEW f \in Fds, fd'[f] = Listener PROVE spc' = "accept" /\ f = lfd'
    <3>1. fd[f] = Listener
      BY <2>1, <2>2, ObjectFacts
    <3> QED
      BY <1>1, <3>1 DEF Basics, Table
  <2>3. ASSUME NEW f \in Fds, NEW k \in Threads, fd'[f] = Conn(k)
        PROVE  \E j \in Threads : st'[j].connfd = f /\ st'[j].pc \in Owning
    <3>1. fd[f] = Conn(k)
      BY <2>1, <2>3, ObjectFacts
    <3>2. PICK j \in Threads : st[j].connfd = f /\ st[j].pc \in Owning
      BY <3>1 DEF Basics, Table
    <3>3. CASE j # i
      BY <1>3, <3>2, <3>3
    <3>4. CASE j = i
      <4>1. r.pc \in Owning
        BY <2>3, <3>2, <3>4, <1>1, ObjectFacts DEF ThreadMove
      <4> QED
        BY <1>1, <1>3, <3>2, <3>4, <4>1
    <3> QED
      BY <3>3, <3>4
  <2>4. ASSUME NEW f \in Fds, NEW j \in Threads, fd'[f] = Dev(j)
        PROVE  st'[j].dev = f /\ st'[j].pc \in Equipped
    <3>1. CASE j = i
      BY <1>3, <2>4, <3>1 DEF ThreadMove
    <3>2. CASE j # i
      <4>1. fd[f] = Dev(j)
        BY <2>1, <2>4, <3>2, ObjectFacts
      <4> QED
        BY <1>3, <3>2, <4>1 DEF Basics, Table
    <3> QED
      BY <3>1, <3>2
  <2> QED
    BY <2>2, <2>3, <2>4 DEF Table
<1> QED
  BY <1>4, <1>5, <1>6

(* And it takes nothing away from another thread.                          *)
LEMMA MoveKeepsApart ==
  ASSUME Basics, Apart, Running, NEW i \in Threads, NEW r, ThreadMove(i, r), MoveApart(i, r),
         Undisturbed(i), UNCHANGED <<serverMain, window>>
  PROVE  Apart'
<1> SUFFICES ASSUME ~window PROVE Apart'
  BY DEF Apart
<1>1. /\ st' = [st EXCEPT ![i] = r] /\ r.connfd = st[i].connfd /\ r.connfd \in Fds /\ r.dev \in Fds
      /\ st[i].pc \notin {"none", "ended"}
      /\ UNCHANGED <<spc, lfd, window>> /\ window \in BOOLEAN
  BY WindowAssumption DEF ThreadMove, serverMain, Basics, WireTypes
<1>2. st'[i] = r /\ \A j \in Threads : j # i => st'[j] = st[j]
  BY <1>1 DEF Basics, ServerTypes
<1>3. \A f \in Fds : \/ fd'[f] = fd[f] \/ fd[f] = Free \/ fd[f] = Dev(i)
                     \/ f = r.connfd /\ st[i].pc \in {"close1", "close1bad", "close2"}
  BY DEF MoveApart
<1>4. /\ spc = "accept" => lfd \in Fds /\ fd[lfd] = Listener
      /\ \A j \in Threads :
           /\ st[j].pc \in Holding => \E k \in Threads : fd[st[j].connfd] = Conn(k)
           /\ st[j].pc \in Using => fd[st[j].dev] = Dev(j)
           /\ st[j].pc = "close2" => fd[st[j].connfd] = Free
      /\ \A j, l \in Threads :
           j # l => /\ st[j].pc \in Holding /\ st[l].pc \in Holding => st[j].connfd # st[l].connfd
                    /\ ~(st[j].pc = "close2" /\ st[l].pc = "close2")
  BY DEF Apart, Named, HasDevice
<1>5. \A j \in Threads : /\ st[j].pc # "none" => st[j].connfd \in Fds
                         /\ st[j].pc \notin {"none", "open"} => st[j].dev \in Fds
  BY DEF Basics, Stage
<1>6. \A j \in Threads : j # i => st[j].pc # "close2"
  BY DEF Undisturbed
<1>7. st[i].pc \in {"close1", "close1bad", "close2"} =>
        fd[r.connfd] = Free \/ \E k \in Threads : fd[r.connfd] = Conn(k)
  BY <1>1, <1>4 DEF Holding
<1>8. spc = "accept" => fd'[lfd] = Listener
  BY <1>3, <1>4, <1>7, ObjectFacts
<1>9. ASSUME NEW j \in Threads, j # i
      PROVE  /\ st[j].pc \in Holding => \E k \in Threads : fd'[st[j].connfd] = Conn(k)
             /\ st[j].pc \in Using => fd'[st[j].dev] = Dev(j)
  <2>1. ASSUME st[j].pc \in Holding PROVE \E k \in Threads : fd'[st[j].connfd] = Conn(k)
    <3>1. PICK k \in Threads : fd[st[j].connfd] = Conn(k)
      BY <1>4, <2>1
    <3>2. st[j].connfd \in Fds
      BY <1>5, <2>1 DEF Holding
    <3>3. ~(st[j].connfd = r.connfd /\ st[i].pc \in {"close1", "close1bad", "close2"})
      BY <1>1, <1>4, <1>9, <2>1, <3>1, ObjectFacts DEF Holding
    <3>4. fd'[st[j].connfd] = fd[st[j].connfd]
      BY <1>3, <3>1, <3>2, <3>3, ObjectFacts
    <3> QED
      BY <3>1, <3>4
  <2>2. ASSUME st[j].pc \in Using PROVE fd'[st[j].dev] = Dev(j)
    <3>1. fd[st[j].dev] = Dev(j) /\ st[j].dev \in Fds
      BY <1>4, <1>5, <2>2 DEF Using, Equipped
    <3> QED
      BY <1>3, <1>7, <1>9, <3>1, ObjectFacts
  <2> QED
    BY <2>1, <2>2
<1>10. /\ r.pc \in Holding => st[i].pc \in Holding /\ \E k \in Threads : fd'[r.connfd] = Conn(k)
       /\ r.pc \in Using => fd'[r.dev] = Dev(i)
       /\ r.pc = "close2" => fd'[r.connfd] = Free
  BY <1>1, <1>4 DEF MoveApart
<1>11. \A j \in Threads :
         /\ st'[j].pc \in Holding => \E k \in Threads : fd'[st'[j].connfd] = Conn(k)
         /\ st'[j].pc \in Using => fd'[st'[j].dev] = Dev(j)
         /\ st'[j].pc = "close2" => fd'[st'[j].connfd] = Free
  BY <1>2, <1>6, <1>9, <1>10
<1>12. \A j, l \in Threads :
         j # l => /\ st'[j].pc \in Holding /\ st'[l].pc \in Holding => st'[j].connfd # st'[l].connfd
                  /\ ~(st'[j].pc = "close2" /\ st'[l].pc = "close2")
  BY <1>1, <1>2, <1>4, <1>6, <1>10
<1> QED
  BY <1>1, <1>4, <1>8, <1>11, <1>12 DEF Apart, Named, HasDevice

LEMMA ThreadActionMove ==
  ASSUME Basics, Apart, Running, NEW i \in Threads, ServerThread(i)
  PROVE  \/ st' = st /\ fd' = fd
         \/ \E r : ThreadMove(i, r) /\ MoveApart(i, r)
<1>1. CASE OpenDevice(i)
  <2>1. \E r : ThreadMove(i, r) /\ MoveApart(i, r)
    BY <1>1, OpenDeviceMove
  <2> QED
    BY <2>1
<1>2. CASE InitContext(i)
  <2>1. \E r : ThreadMove(i, r) /\ MoveApart(i, r)
    BY <1>2, InitContextMove
  <2> QED
    BY <2>1
<1>3. CASE ReadAddr(i)
  <2>1. \E r : ThreadMove(i, r) /\ MoveApart(i, r)
    BY <1>3, ReadAddrMove
  <2> QED
    BY <2>1
<1>4. CASE WriteAddr(i)
  <2>1. \E r : ThreadMove(i, r) /\ MoveApart(i, r)
    BY <1>4, WriteAddrMove
  <2> QED
    BY <2>1
<1>5. CASE ReadDone(i)
  <2>1. \E r : ThreadMove(i, r) /\ MoveApart(i, r)
    BY <1>5, ReadDoneMove
  <2> QED
    BY <2>1
<1>6. CASE CloseFirst(i)
  <2>1. \E r : ThreadMove(i, r) /\ MoveApart(i, r)
    BY <1>6, CloseFirstMove
  <2> QED
    BY <2>1
<1>7. CASE CloseSecond(i)
  <2>1. \E r : ThreadMove(i, r) /\ MoveApart(i, r)
    BY <1>7, CloseSecondMove
  <2> QED
    BY <2>1
<1>8. CASE CloseDevice(i)
  <2>1. \E r : ThreadMove(i, r) /\ MoveApart(i, r)
    BY <1>8, CloseDeviceMove
  <2> QED
    BY <2>1
<1>9. CASE ServerStray(i)
  <2>1. st[i].pc = "measure" /\ fd' = fd /\ (Goto(i, "failed") \/ st' = st)
    BY <1>9 DEF ServerStray
  <2>2. ASSUME Goto(i, "failed") PROVE \E r : ThreadMove(i, r) /\ MoveApart(i, r)
    BY <2>1, <2>2, PlayMove
  <2> QED
    BY <2>1, <2>2
<1> QED
  BY <1>1, <1>2, <1>3, <1>4, <1>5, <1>6, <1>7, <1>8, <1>9 DEF ServerThread

LEMMA ThreadActionWires ==
  ASSUME WireTypes, NEW i \in Threads, ServerThread(i), window' = window
  PROVE  WireTypes' /\ backlog' = backlog
<1>1. ASSUME UNCHANGED wires PROVE WireTypes' /\ backlog' = backlog
  BY <1>1 DEF WireTypes, wires
<1>2. CASE ReadAddr(i)
  <2>1. CASE Named(i)[1] # "conn"
    BY <1>1, <1>2, <2>1 DEF ReadAddr
  <2>2. CASE Named(i)[1] = "conn"
    <3>1. toS' = [toS EXCEPT ![Named(i)[2]] = "none"] /\ UNCHANGED <<backlog, toC>>
      BY <1>2, <2>2 DEF ReadAddr
    <3> QED
      BY <3>1 DEF WireTypes
  <2> QED
    BY <2>1, <2>2
<1>3. CASE WriteAddr(i)
  <2>1. CASE Named(i)[1] # "conn"
    BY <1>1, <1>3, <2>1 DEF WriteAddr
  <2>2. CASE Named(i)[1] = "conn"
    <3>1. toC' = [toC EXCEPT ![Named(i)[2]] = i] /\ UNCHANGED <<backlog, toS>>
      BY <1>3, <2>2 DEF WriteAddr
    <3> QED
      BY <3>1 DEF WireTypes
  <2> QED
    BY <2>1, <2>2
<1>4. CASE ReadDone(i)
  <2>1. CASE Named(i)[1] # "conn"
    BY <1>1, <1>4, <2>1 DEF ReadDone
  <2>2. CASE Named(i)[1] = "conn"
    <3>1. toS' = [toS EXCEPT ![Named(i)[2]] = "none"] /\ UNCHANGED <<backlog, toC>>
      BY <1>4, <2>2 DEF ReadDone
    <3> QED
      BY <3>1 DEF WireTypes
  <2> QED
    BY <2>1, <2>2
<1>5. CASE UNCHANGED wires
  BY <1>1, <1>5
<1> QED
  BY <1>2, <1>3, <1>4, <1>5
     DEF ServerThread, OpenDevice, InitContext, CloseFirst, CloseSecond, CloseDevice, ServerStray

(* What the first two layers read of the server and of the client.         *)
LEMMA ServerSame ==
  ASSUME Basics, UNCHANGED <<serverMain, fd, st>>
  PROVE  ServerTypes' /\ Stage' /\ Table' /\ (Apart /\ window' = window => Apart')
<1>1. UNCHANGED <<spc, sround, si, lfd, fd, st>>
  BY DEF serverMain
<1>2. ServerTypes'
  BY <1>1 DEF Basics, ServerTypes
<1>3. Stage'
  BY <1>1 DEF Basics, Stage
<1>4. Table'
  BY <1>1 DEF Basics, Table
<1>5. ASSUME Apart, window' = window PROVE Apart'
  BY <1>1, <1>5 DEF Apart, Running, Named, HasDevice
<1> QED
  BY <1>2, <1>3, <1>4, <1>5

LEMMA ClientSame ==
  ASSUME Basics, UNCHANGED <<clientMain, ct>> PROVE ClientTypes'
<1>1. UNCHANGED <<cpc, cround, ci, ct>>
  BY DEF clientMain
<1> QED
  BY <1>1 DEF Basics, ClientTypes

LEMMA ServerThreadLayers ==
  ASSUME Basics, Apart, NEW i \in Threads, ServerThread(i), window' = window
  PROVE  Basics' /\ Apart'
<1>1. Running /\ Undisturbed(i) /\ UNCHANGED <<serverMain, clientMain, ct>>
  BY DEF ServerThread
<1>2. WireTypes'
  BY ThreadActionWires DEF Basics
<1>3. ClientTypes'
  BY <1>1, ClientSame
<1>4. CASE st' = st /\ fd' = fd
  <2>1. ServerTypes' /\ Stage' /\ Table' /\ Apart'
    BY <1>1, <1>4, ServerSame
  <2> QED
    BY <1>2, <1>3, <2>1 DEF Basics
<1>5. ASSUME NEW r, ThreadMove(i, r), MoveApart(i, r) PROVE Basics' /\ Apart'
  <2>1. ServerTypes' /\ Stage' /\ Table'
    BY <1>1, <1>5, MoveBasics
  <2>2. Apart'
    BY <1>1, <1>5, MoveKeepsApart
  <2> QED
    BY <1>2, <1>3, <2>1, <2>2 DEF Basics
<1>6. (st' = st /\ fd' = fd) \/ \E r : ThreadMove(i, r) /\ MoveApart(i, r)
  BY <1>1, ThreadActionMove, Zenon
<1> QED
  BY <1>4, <1>5, <1>6

LEMMA MeasureLayers ==
  ASSUME Basics, Apart, NEW i \in Threads, NEW k \in Threads, Measure(i, k), window' = window
  PROVE  Basics' /\ Apart'
<1>1. /\ Running /\ MainUndisturbed /\ st[i].pc = "measure" /\ Goto(i, "closectx")
      /\ CGoto(k, "closectx") /\ fd' = fd /\ UNCHANGED serverMain
      /\ UNCHANGED <<cpc, cround, ci, backlog, toS, toC>>
  BY DEF Measure, clientMain, wires
<1>2. PICK r : ThreadMove(i, r) /\ MoveApart(i, r)
  BY <1>1, PlayMove
<1>3. Undisturbed(i)
  BY <1>1 DEF MainUndisturbed, Undisturbed
<1>4. ServerTypes' /\ Stage' /\ Table'
  BY <1>1, <1>2, MoveBasics
<1>5. Apart'
  BY <1>1, <1>2, <1>3, MoveKeepsApart
<1>6. ClientTypes' /\ WireTypes'
  <2>1. ct' = [ct EXCEPT ![k] = [ct[k] EXCEPT !.pc = "closectx"]]
    BY <1>1 DEF CGoto
  <2>2. ct[k] \in ClientThreads
    BY DEF Basics, ClientTypes
  <2>3. [ct[k] EXCEPT !.pc = "closectx"] \in ClientThreads
    BY <2>2 DEF ClientThreads
  <2> QED
    BY <1>1, <2>1, <2>3 DEF Basics, ClientTypes, WireTypes
<1> QED
  BY <1>4, <1>5, <1>6 DEF Basics

-----------------------------------------------------------------------------
(* Steps of main of the server.                                            *)

LEMMA MainFacts ==
  ASSUME Basics
  PROVE  /\ sround \in RoundsOf /\ sround[2] \in 1..MaxThreads /\ si \in 0..MaxThreads
         /\ st \in [Threads -> ServerThreads] /\ fd \in [Fds -> Objects]
         /\ Fresh \in ServerThreads
         /\ spc = "accept" => si <= sround[2] /\ \A i \in Threads : i >= si => st[i] = Fresh
         /\ spc = "join" => /\ si <= sround[2]
                            /\ \A i \in Threads : i >= sround[2] => st[i] = Fresh
                            /\ \A i \in Threads : i < si => st[i].pc \in {"none", "ended"}
<1>1. /\ sround \in RoundsOf /\ si \in 0..MaxThreads
      /\ st \in [Threads -> ServerThreads] /\ fd \in [Fds -> Objects]
  BY DEF Basics, ServerTypes, RoundsOf
<1>2. sround[2] \in 1..MaxThreads
  BY <1>1, RoundFacts
<1>3. Fresh \in ServerThreads
  BY DEF Fresh, ServerThreads
<1>4. /\ spc = "accept" => si <= sround[2] /\ \A i \in Threads : i >= si => st[i] = Fresh
      /\ spc = "join" => /\ si <= sround[2]
                         /\ \A i \in Threads : i >= sround[2] => st[i] = Fresh
                         /\ \A i \in Threads : i < si => st[i].pc \in {"none", "ended"}
  BY DEF Basics, Stage
<1> QED
  BY <1>1, <1>2, <1>3, <1>4

(* A thread that is fresh or has ended has nothing in the table.           *)
LEMMA NothingLeft ==
  ASSUME Basics, spc # "accept", \A i \in Threads : st[i].pc \in {"none", "ended"}
  PROVE  \A f \in Fds : fd[f] = Free
<1> SUFFICES ASSUME NEW f \in Fds PROVE fd[f] = Free
  OBVIOUS
<1>1. fd[f] \in Objects
  BY DEF Basics, ServerTypes
<1>2. fd[f] # Listener
  BY DEF Basics, Table
<1>3. ASSUME NEW k \in Threads PROVE fd[f] # Conn(k) /\ fd[f] # Dev(k)
  BY DEF Basics, Table, Owning, Equipped
<1> QED
  BY <1>1, <1>2, <1>3, ObjectCases

LEMMA ListenLayers ==
  ASSUME Basics, Listen, window' = window PROVE Basics' /\ Apart'
<1>1. /\ spc = "listen" /\ spc' = "accept" /\ si' = 0 /\ lfd' = Lowest
      /\ fd' = [fd EXCEPT ![Lowest] = Listener]
      /\ UNCHANGED <<sround, cpc, cround, ci, st, ct, backlog, toS, toC>>
  BY DEF Listen, clientMain, wires
<1>2. \A i \in Threads : st[i] = Fresh /\ st[i].pc = "none"
  BY <1>1 DEF Basics, Stage, Fresh
<1>3. \A f \in Fds : fd[f] = Free
  BY <1>1, <1>2, NothingLeft
<1>4. Lowest \in Fds
  <2>1. 0 \in Threads /\ \A f \in Fds : fd[f] # Dev(0)
    BY <1>3, Limits, ObjectFacts
  <2> QED
    BY <2>1, LowestFree DEF Basics
<1>5. /\ fd' \in [Fds -> Objects] /\ fd'[Lowest] = Listener
      /\ \A f \in Fds : f # Lowest => fd'[f] = Free
  BY <1>1, <1>3, <1>4, MainFacts, ObjectFacts
<1>6. ServerTypes'
  BY <1>1, <1>4, <1>5, Limits DEF Basics, ServerTypes
<1>7. ClientTypes' /\ WireTypes'
  BY <1>1 DEF Basics, ClientTypes, WireTypes
<1>8. Stage'
  BY <1>1, <1>2, MainFacts DEF Stage
<1>9. Table'
  <2>1. \A f \in Fds : fd'[f] = Listener => spc' = "accept" /\ f = lfd'
    BY <1>1, <1>5, ObjectFacts
  <2>2. \A f \in Fds, k \in Threads : fd'[f] # Conn(k) /\ fd'[f] # Dev(k)
    BY <1>5, ObjectFacts
  <2> QED
    BY <2>1, <2>2 DEF Table
<1>10. Apart'
  BY <1>1, <1>2, <1>4, <1>5 DEF Apart, Holding, Using, Equipped
<1> QED
  BY <1>6, <1>7, <1>8, <1>9, <1>10 DEF Basics

LEMMA ServerSkipLayers ==
  ASSUME Basics, Apart, ServerSkip, window' = window PROVE Basics' /\ Apart'
<1>1. /\ spc = "accept" /\ si < sround[2] /\ si' = si + 1
      /\ UNCHANGED <<spc, sround, lfd, cpc, cround, ci, fd, st, ct, backlog, toS, toC>>
  BY DEF ServerSkip, clientMain, wires
<1>2. ServerTypes'
  <2>1. si' \in 0..MaxThreads
    BY <1>1, MainFacts, Limits
  <2> QED
    BY <1>1, <2>1 DEF Basics, ServerTypes
<1>3. ClientTypes' /\ WireTypes' /\ Table'
  BY <1>1 DEF Basics, ClientTypes, WireTypes, Table
<1>4. Stage'
  <2>1. si + 1 <= sround[2] /\ \A i \in Threads : i >= si + 1 => st[i] = Fresh
    BY <1>1, MainFacts, Limits
  <2>2. \A i \in Threads : /\ st[i].pc # "none" => st[i].connfd \in Fds
                           /\ st[i].pc \notin {"none", "open"} => st[i].dev \in Fds
    BY DEF Basics, Stage
  <2> QED
    BY <1>1, <2>1, <2>2 DEF Stage
<1>5. Apart'
  BY <1>1 DEF Apart, Running, Named, HasDevice
<1> QED
  BY <1>2, <1>3, <1>4, <1>5 DEF Basics

(* The connection accepted gets a number nobody uses.                      *)
LEMMA AcceptFacts ==
  ASSUME Basics, Accept
  PROVE  LET r == [Fresh EXCEPT !.pc = "open", !.connfd = Lowest]
         IN  /\ spc = "accept" /\ si < sround[2] /\ si \in Threads
             /\ st[si] = Fresh /\ st[si].pc = "none" /\ st[si].rem = None
             /\ Head(backlog) \in Threads /\ backlog # <<>> /\ backlog' = Tail(backlog)
             /\ Lowest \in Fds /\ fd[Lowest] = Free
             /\ fd' \in [Fds -> Objects] /\ fd'[Lowest] = Conn(Head(backlog))
             /\ \A f \in Fds : f # Lowest => fd'[f] = fd[f]
             /\ r \in ServerThreads /\ r.pc = "open" /\ r.connfd = Lowest /\ r.rem = None
             /\ st' \in [Threads -> ServerThreads] /\ st'[si] = r
             /\ \A i \in Threads : i # si => st'[i] = st[i]
             /\ si' = si + 1 /\ SizePerPeer(sround, si) # 0
             /\ UNCHANGED <<spc, sround, lfd, cpc, cround, ci, ct, toS, toC>>
<1> DEFINE r == [Fresh EXCEPT !.pc = "open", !.connfd = Lowest]
<1>1. /\ spc = "accept" /\ si < sround[2] /\ backlog # <<>> /\ backlog' = Tail(backlog)
      /\ fd' = [fd EXCEPT ![Lowest] = Conn(Head(backlog))]
      /\ st' = [st EXCEPT ![si] = r] /\ si' = si + 1 /\ SizePerPeer(sround, si) # 0
      /\ UNCHANGED <<spc, sround, lfd, cpc, cround, ci, ct, toS, toC>>
  BY DEF Accept, clientMain
<1>2. si \in Threads
  BY <1>1, MainFacts, Limits DEF Threads
<1>3. st[si] = Fresh /\ st[si].pc = "none" /\ st[si].rem = None
  BY <1>1, <1>2, MainFacts DEF Fresh
<1>4. Head(backlog) \in Threads
  BY <1>1 DEF Basics, WireTypes
<1>5. Lowest \in Fds /\ fd[Lowest] = Free
  <2>1. \A f \in Fds : fd[f] # Dev(si)
    BY <1>2, <1>3 DEF Basics, Table, Equipped
  <2> QED
    BY <1>2, <2>1, LowestFree DEF Basics
<1>6. /\ fd' \in [Fds -> Objects] /\ fd'[Lowest] = Conn(Head(backlog))
      /\ \A f \in Fds : f # Lowest => fd'[f] = fd[f]
  BY <1>1, <1>4, <1>5, MainFacts, ObjectFacts
<1>7. r \in ServerThreads /\ r.pc = "open" /\ r.connfd = Lowest /\ r.rem = None
  BY <1>5 DEF Fresh, ServerThreads
<1> HIDE DEF r
<1>8. /\ st' \in [Threads -> ServerThreads] /\ st'[si] = r
      /\ \A i \in Threads : i # si => st'[i] = st[i]
  BY <1>1, <1>2, <1>7, MainFacts
<1> QED
  BY <1>1, <1>2, <1>3, <1>4, <1>5, <1>6, <1>7, <1>8 DEF r

LEMMA AcceptLayers ==
  ASSUME Basics, Apart, Accept, window' = window, MainUndisturbed PROVE Basics' /\ Apart'
<1> DEFINE r == [Fresh EXCEPT !.pc = "open", !.connfd = Lowest]
           k0 == Head(backlog)
           l0 == Lowest
<1>1. /\ spc = "accept" /\ si < sround[2] /\ si \in Threads
      /\ st[si].pc = "none" /\ k0 \in Threads /\ backlog # <<>> /\ backlog' = Tail(backlog)
      /\ l0 \in Fds /\ fd[l0] = Free /\ fd' \in [Fds -> Objects] /\ fd'[l0] = Conn(k0)
      /\ \A f \in Fds : f # l0 => fd'[f] = fd[f]
      /\ r \in ServerThreads /\ r.pc = "open" /\ r.connfd = l0
      /\ st' \in [Threads -> ServerThreads] /\ st'[si] = r
      /\ \A i \in Threads : i # si => st'[i] = st[i]
      /\ si' = si + 1 /\ UNCHANGED <<spc, sround, lfd, cpc, cround, ci, ct, toS, toC>>
  BY AcceptFacts
<1> HIDE DEF r, k0, l0
<1>2. ServerTypes'
  <2>1. si' \in 0..MaxThreads
    BY <1>1, MainFacts, Limits
  <2> QED
    BY <1>1, <2>1 DEF Basics, ServerTypes
<1>3. ClientTypes'
  BY <1>1 DEF Basics, ClientTypes
<1>4. WireTypes'
  <2>1. Tail(backlog) \in Seq(Threads)
    BY <1>1 DEF Basics, WireTypes
  <2> QED
    BY <1>1, <2>1 DEF Basics, WireTypes
<1>5. Stage'
  <2>1. si + 1 <= sround[2] /\ \A i \in Threads : i >= si + 1 => st'[i] = Fresh
    BY <1>1, MainFacts, Limits
  <2>2. \A i \in Threads : /\ st[i].pc # "none" => st[i].connfd \in Fds
                           /\ st[i].pc \notin {"none", "open"} => st[i].dev \in Fds
    BY DEF Basics, Stage
  <2>3. \A i \in Threads : /\ st'[i].pc # "none" => st'[i].connfd \in Fds
                           /\ st'[i].pc \notin {"none", "open"} => st'[i].dev \in Fds
    BY <1>1, <2>2
  <2> QED
    BY <1>1, <2>1, <2>3 DEF Stage
<1>6. Table'
  <2>1. \A f \in Fds : fd'[f] = Listener => spc' = "accept" /\ f = lfd'
    BY <1>1, ObjectFacts DEF Basics, Table
  <2>2. ASSUME NEW f \in Fds, NEW k \in Threads, fd'[f] = Conn(k)
        PROVE  \E i \in Threads : st'[i].connfd = f /\ st'[i].pc \in Owning
    <3>1. CASE f = l0
      BY <1>1, <3>1 DEF Owning
    <3>2. CASE f # l0
      <4>1. PICK i \in Threads : st[i].connfd = f /\ st[i].pc \in Owning
        BY <1>1, <2>2, <3>2 DEF Basics, Table
      <4>2. i # si
        BY <1>1, <4>1 DEF Owning
      <4> QED
        BY <1>1, <4>1, <4>2
    <3> QED
      BY <3>1, <3>2
  <2>3. ASSUME NEW f \in Fds, NEW i \in Threads, fd'[f] = Dev(i)
        PROVE  st'[i].dev = f /\ st'[i].pc \in Equipped
    <3>1. fd[f] = Dev(i)
      BY <1>1, <2>3, ObjectFacts
    <3>2. st[i].dev = f /\ st[i].pc \in Equipped
      BY <3>1 DEF Basics, Table
    <3>3. i # si
      BY <1>1, <3>2 DEF Equipped
    <3> QED
      BY <1>1, <3>2, <3>3
  <2> QED
    BY <2>1, <2>2, <2>3 DEF Table
<1>7. Apart'
  <2> SUFFICES ASSUME ~window PROVE Apart'
    BY DEF Apart
  <2>1. /\ lfd \in Fds /\ fd[lfd] = Listener
        /\ \A j \in Threads :
             /\ st[j].pc \in Holding => \E k \in Threads : fd[st[j].connfd] = Conn(k)
             /\ st[j].pc \in Using => fd[st[j].dev] = Dev(j)
             /\ st[j].pc # "close2"
        /\ \A j, l \in Threads :
             j # l /\ st[j].pc \in Holding /\ st[l].pc \in Holding => st[j].connfd # st[l].connfd
    BY <1>1 DEF Apart, Named, HasDevice, Running, MainUndisturbed
  <2>2. \A j \in Threads : /\ st[j].pc # "none" => st[j].connfd \in Fds
                           /\ st[j].pc \notin {"none", "open"} => st[j].dev \in Fds
    BY DEF Basics, Stage
  <2>3. fd'[lfd] = Listener
    BY <1>1, <2>1, ObjectFacts
  <2>4. ASSUME NEW j \in Threads, j # si
        PROVE  /\ st[j].pc \in Holding => /\ st[j].connfd # l0
                                          /\ \E k \in Threads : fd'[st[j].connfd] = Conn(k)
               /\ st[j].pc \in Using => fd'[st[j].dev] = Dev(j)
    <3>1. ASSUME st[j].pc \in Holding
          PROVE  st[j].connfd # l0 /\ \E k \in Threads : fd'[st[j].connfd] = Conn(k)
      <4>1. PICK k \in Threads : fd[st[j].connfd] = Conn(k)
        BY <2>1, <3>1
      <4>2. st[j].connfd \in Fds
        BY <2>2, <3>1 DEF Holding
      <4> QED
        BY <1>1, <4>1, <4>2, ObjectFacts
    <3>2. ASSUME st[j].pc \in Using PROVE fd'[st[j].dev] = Dev(j)
      <4>1. fd[st[j].dev] = Dev(j) /\ st[j].dev \in Fds
        BY <2>1, <2>2, <3>2 DEF Using, Equipped
      <4> QED
        BY <1>1, <4>1, ObjectFacts
    <3> QED
      BY <3>1, <3>2
  <2>5. \A j \in Threads : /\ st'[j].pc \in Holding => \E k \in Threads : fd'[st'[j].connfd] = Conn(k)
                           /\ st'[j].pc \in Using => fd'[st'[j].dev] = Dev(j)
                           /\ st'[j].pc # "close2"
    BY <1>1, <2>1, <2>4 DEF Using, Equipped
  <2>6. \A j, l \in Threads :
          j # l /\ st'[j].pc \in Holding /\ st'[l].pc \in Holding => st'[j].connfd # st'[l].connfd
    BY <1>1, <2>1, <2>4
  <2> QED
    BY <1>1, <2>1, <2>3, <2>5, <2>6 DEF Apart, Named, HasDevice
<1> QED
  BY <1>2, <1>3, <1>4, <1>5, <1>6, <1>7 DEF Basics
LEMMA CloseListenerLayers ==
  ASSUME Basics, Apart, CloseListener, window' = window PROVE Basics' /\ Apart'
<1>1. /\ spc = "accept" /\ si = sround[2] /\ backlog' = <<>> /\ spc' = "join" /\ si' = 0
      /\ fd' = [fd EXCEPT ![lfd] = Free]
      /\ UNCHANGED <<sround, lfd, cpc, cround, ci, st, ct, toS, toC>>
  BY DEF CloseListener, clientMain
<1>2. fd' \in [Fds -> Objects] /\ \A f \in Fds : fd'[f] = Free \/ (f # lfd /\ fd'[f] = fd[f])
  BY <1>1, MainFacts, ObjectFacts
<1>3. ServerTypes'
  <2>1. si' \in 0..MaxThreads
    BY <1>1, Limits
  <2> QED
    BY <1>1, <1>2, <2>1 DEF Basics, ServerTypes
<1>4. ClientTypes' /\ WireTypes'
  BY <1>1 DEF Basics, ClientTypes, WireTypes
<1>5. Stage'
  <2>1. si' <= sround[2] /\ \A i \in Threads : i >= sround[2] => st[i] = Fresh
    BY <1>1, MainFacts, Limits
  <2>2. \A i \in Threads : /\ st[i].pc # "none" => st[i].connfd \in Fds
                           /\ st[i].pc \notin {"none", "open"} => st[i].dev \in Fds
    BY DEF Basics, Stage
  <2>3. \A i \in Threads : ~(i < si')
    BY <1>1, Limits
  <2> QED
    BY <1>1, <2>1, <2>2, <2>3 DEF Stage
<1>6. Table'
  <2>1. \A f \in Fds : fd'[f] # Listener
    BY <1>1, <1>2, ObjectFacts DEF Basics, Table
  <2>2. \A f \in Fds, k \in Threads :
          /\ fd'[f] = Conn(k) => fd[f] = Conn(k)
          /\ fd'[f] = Dev(k) => fd[f] = Dev(k)
    BY <1>2, ObjectFacts
  <2> QED
    BY <1>1, <2>1, <2>2 DEF Basics, Table
<1>7. Apart'
  <2> SUFFICES ASSUME ~window PROVE Apart'
    BY <1>1 DEF Apart
  <2>1. /\ lfd \in Fds /\ fd[lfd] = Listener
        /\ \A j \in Threads :
             /\ st[j].pc \in Holding => \E k \in Threads : fd[st[j].connfd] = Conn(k)
             /\ st[j].pc \in Using => fd[st[j].dev] = Dev(j)
             /\ st[j].pc = "close2" => fd[st[j].connfd] = Free
        /\ \A j, l \in Threads :
             j # l => /\ st[j].pc \in Holding /\ st[l].pc \in Holding => st[j].connfd # st[l].connfd
                      /\ ~(st[j].pc = "close2" /\ st[l].pc = "close2")
    BY <1>1 DEF Apart, Named, HasDevice, Running
  <2>2. \A j \in Threads : /\ st[j].pc # "none" => st[j].connfd \in Fds
                           /\ st[j].pc \notin {"none", "open"} => st[j].dev \in Fds
    BY DEF Basics, Stage
  <2>3. ASSUME NEW f \in Fds, f # lfd PROVE fd'[f] = fd[f]
    BY <1>1, <2>3, MainFacts
  <2>4. ASSUME NEW j \in Threads
        PROVE  /\ st[j].pc \in Holding => \E k \in Threads : fd'[st[j].connfd] = Conn(k)
               /\ st[j].pc \in Using => fd'[st[j].dev] = Dev(j)
               /\ st[j].pc = "close2" => fd'[st[j].connfd] = Free
    <3>1. ASSUME st[j].pc \in Holding PROVE \E k \in Threads : fd'[st[j].connfd] = Conn(k)
      <4>1. PICK k \in Threads : fd[st[j].connfd] = Conn(k)
        BY <2>1, <3>1
      <4>2. st[j].connfd \in Fds /\ st[j].connfd # lfd
        BY <2>1, <2>2, <3>1, <4>1, ObjectFacts DEF Holding
      <4> QED
        BY <2>3, <4>1, <4>2
    <3>2. ASSUME st[j].pc \in Using PROVE fd'[st[j].dev] = Dev(j)
      <4>1. fd[st[j].dev] = Dev(j) /\ st[j].dev \in Fds
        BY <2>1, <2>2, <3>2 DEF Using, Equipped
      <4>2. st[j].dev # lfd
        BY <2>1, <4>1, ObjectFacts
      <4> QED
        BY <2>3, <4>1, <4>2
    <3>3. ASSUME st[j].pc = "close2" PROVE fd'[st[j].connfd] = Free
      BY <1>2, <2>1, <2>2, <3>3
    <3> QED
      BY <3>1, <3>2, <3>3
  <2> QED
    BY <1>1, <2>1, <2>4 DEF Apart, Named, HasDevice
<1> QED
  BY <1>3, <1>4, <1>5, <1>6, <1>7 DEF Basics

LEMMA ServerJoinLayers ==
  ASSUME Basics, Apart, ServerJoin, window' = window PROVE Basics' /\ Apart'
<1>1. /\ spc = "join" /\ si < sround[2] /\ st[si].pc \in {"none", "ended"} /\ si' = si + 1
      /\ UNCHANGED <<spc, sround, lfd, cpc, cround, ci, fd, st, ct, backlog, toS, toC>>
  BY DEF ServerJoin, clientMain, wires
<1>2. ServerTypes'
  <2>1. si' \in 0..MaxThreads
    BY <1>1, MainFacts, Limits
  <2> QED
    BY <1>1, <2>1 DEF Basics, ServerTypes
<1>3. ClientTypes' /\ WireTypes' /\ Table'
  BY <1>1 DEF Basics, ClientTypes, WireTypes, Table
<1>4. Stage'
  <2>1. /\ si' <= sround[2] /\ \A i \in Threads : i >= sround[2] => st[i] = Fresh
    BY <1>1, MainFacts, Limits
  <2>2. ASSUME NEW i \in Threads, i < si' PROVE st[i].pc \in {"none", "ended"}
    <3>1. i < si \/ i = si
      BY <1>1, <2>2, MainFacts, Limits
    <3> QED
      BY <1>1, <3>1, MainFacts
  <2>3. \A i \in Threads : /\ st[i].pc # "none" => st[i].connfd \in Fds
                           /\ st[i].pc \notin {"none", "open"} => st[i].dev \in Fds
    BY DEF Basics, Stage
  <2> QED
    BY <1>1, <2>1, <2>2, <2>3 DEF Stage
<1>5. Apart'
  BY <1>1 DEF Apart, Running, Named, HasDevice
<1> QED
  BY <1>2, <1>3, <1>4, <1>5 DEF Basics

LEMMA ServerCrashLayers ==
  ASSUME Basics, Apart, ServerCrash, window' = window PROVE Basics' /\ Apart'
<1>1. /\ spc' = "failed" /\ fd' = [f \in Fds |-> Free] /\ backlog' = <<>>
      /\ UNCHANGED <<sround, si, lfd, cpc, cround, ci, st, ct, toS, toC>>
  BY DEF ServerCrash, clientMain
<1>2. fd' \in [Fds -> Objects] /\ \A f \in Fds : fd'[f] = Free
  BY <1>1, ObjectFacts
<1>3. ServerTypes'
  BY <1>1, <1>2 DEF Basics, ServerTypes
<1>4. ClientTypes' /\ WireTypes'
  BY <1>1 DEF Basics, ClientTypes, WireTypes
<1>5. Stage'
  BY <1>1 DEF Basics, Stage
<1>6. Table'
  BY <1>2, ObjectFacts DEF Table
<1>7. Apart'
  BY <1>1 DEF Apart, Running
<1> QED
  BY <1>3, <1>4, <1>5, <1>6, <1>7 DEF Basics

(* At the end of a round of the server all its threads are joined.         *)
LEMMA RoundOver ==
  ASSUME Basics, ServerRound
  PROVE  /\ spc = "join" /\ \A i \in Threads : st[i].pc \in {"none", "ended"}
         /\ \A f \in Fds : fd[f] = Free
         /\ \A i \in Threads : st'[i] = Fresh
         /\ spc' \in {"listen", "finished"} /\ si' = 0
         /\ \/ spc' = "listen" /\ sround' = Following(sround) /\ IsRound(Following(sround))
            \/ spc' = "finished" /\ sround' = sround
         /\ sround' \in RoundsOf
         /\ UNCHANGED <<lfd, cpc, cround, ci, fd, ct, backlog, toS, toC>>
<1>1. /\ spc = "join" /\ si = sround[2] /\ si' = 0 /\ st' = [i \in Threads |-> Fresh]
      /\ \/ spc' = "listen" /\ sround' = Following(sround) /\ IsRound(Following(sround))
         \/ spc' = "finished" /\ sround' = sround
      /\ UNCHANGED <<lfd, cpc, cround, ci, fd, ct, backlog, toS, toC>>
  BY DEF ServerRound, clientMain, wires
<1>2. ASSUME NEW i \in Threads PROVE st[i].pc \in {"none", "ended"}
  <2>1. i < si \/ i >= sround[2]
    BY <1>1, MainFacts, Limits
  <2> QED
    BY <1>1, <2>1, MainFacts DEF Fresh
<1>3. \A f \in Fds : fd[f] = Free
  BY <1>1, <1>2, NothingLeft
<1>4. sround' \in RoundsOf
  BY <1>1, MainFacts, RoundFacts
<1> QED
  BY <1>1, <1>2, <1>3, <1>4

LEMMA ServerRoundLayers ==
  ASSUME Basics, Apart, ServerRound, window' = window PROVE Basics' /\ Apart'
<1>1. /\ spc = "join" /\ \A f \in Fds : fd[f] = Free
      /\ \A i \in Threads : st'[i] = Fresh
      /\ spc' \in {"listen", "finished"} /\ si' = 0 /\ sround' \in RoundsOf
      /\ UNCHANGED <<lfd, cpc, cround, ci, fd, ct, backlog, toS, toC>>
  BY RoundOver
<1>2. ServerTypes'
  <2>1. st' \in [Threads -> ServerThreads]
    BY MainFacts DEF ServerRound
  <2>2. si' \in 0..MaxThreads
    BY <1>1, Limits
  <2> QED
    BY <1>1, <2>1, <2>2 DEF Basics, ServerTypes, RoundsOf
<1>3. ClientTypes' /\ WireTypes'
  BY <1>1 DEF Basics, ClientTypes, WireTypes
<1>4. Stage'
  BY <1>1 DEF Stage, Fresh
<1>5. Table'
  BY <1>1, ObjectFacts DEF Table
<1>6. Apart'
  BY <1>1 DEF Apart, Running
<1> QED
  BY <1>2, <1>3, <1>4, <1>5, <1>6 DEF Basics

LEMMA ServerMainLayers ==
  ASSUME Basics, Apart, ServerMain, window' = window PROVE Basics' /\ Apart'
<1>1. MainUndisturbed
  BY DEF ServerMain
<1>2. CASE Listen
  BY <1>2, ListenLayers
<1>3. CASE ServerSkip
  BY <1>3, ServerSkipLayers
<1>4. CASE Accept
  BY <1>1, <1>4, AcceptLayers
<1>5. CASE CloseListener
  BY <1>5, CloseListenerLayers
<1>6. CASE ServerJoin
  BY <1>6, ServerJoinLayers
<1>7. CASE ServerCrash
  BY <1>7, ServerCrashLayers
<1>8. CASE ServerRound
  BY <1>8, ServerRoundLayers
<1> QED
  BY <1>2, <1>3, <1>4, <1>5, <1>6, <1>7, <1>8 DEF ServerMain

-----------------------------------------------------------------------------
(* Steps of the client: the server and its table stay as they are.         *)

LEMMA ClientFacts ==
  ASSUME Basics
  PROVE  /\ cround \in RoundsOf /\ cround[2] \in 1..MaxThreads /\ ci \in 0..(MaxThreads + 1)
         /\ ct \in [Threads -> ClientThreads] /\ CFresh \in ClientThreads
         /\ cpc \in {"connect", "join", "finished", "failed"}
<1>1. /\ cround \in RoundsOf /\ ci \in 0..(MaxThreads + 1) /\ ct \in [Threads -> ClientThreads]
      /\ cpc \in {"connect", "join", "finished", "failed"}
  BY DEF Basics, ClientTypes, RoundsOf
<1>2. cround[2] \in 1..MaxThreads
  BY <1>1, RoundFacts
<1>3. CFresh \in ClientThreads
  BY DEF CFresh, ClientThreads
<1> QED
  BY <1>1, <1>2, <1>3

(* The threads main of the client starts, joins and drops.                 *)
LEMMA ClientMainTypes ==
  ASSUME Basics, ClientMain
  PROVE  ClientTypes' /\ UNCHANGED <<serverMain, fd, st>>
<1>1. UNCHANGED <<serverMain, fd, st>>
  BY DEF ClientMain, ClientSkip, Connect, ConnectFails, ClientFails, ClientStarted,
         ClientJoin, ClientCrash, ClientRound
<1>2. CASE ClientSkip
  <2>1. ci' \in 0..(MaxThreads + 1)
    BY <1>2, ClientFacts, Limits DEF ClientSkip
  <2> QED
    BY <1>2, <2>1 DEF ClientSkip, Basics, ClientTypes
<1>3. CASE Connect
  <2>1. ci' \in 0..(MaxThreads + 1)
    BY <1>3, ClientFacts, Limits DEF Connect
  <2>2. [CFresh EXCEPT !.pc = "write"] \in ClientThreads
    BY DEF CFresh, ClientThreads
  <2>3. ct' \in [Threads -> ClientThreads]
    BY <1>3, <2>2, ClientFacts DEF Connect
  <2> QED
    BY <1>3, <2>1, <2>3 DEF Connect, Basics, ClientTypes
<1>4. CASE ConnectFails \/ ClientCrash
  BY <1>4 DEF ConnectFails, ClientCrash, ClientFails, Basics, ClientTypes
<1>5. CASE ClientStarted
  <2>1. ci' \in 0..(MaxThreads + 1)
    BY <1>5, Limits DEF ClientStarted
  <2> QED
    BY <1>5, <2>1 DEF ClientStarted, Basics, ClientTypes
<1>6. CASE ClientJoin
  <2>1. ci' \in 0..(MaxThreads + 1)
    BY <1>6, ClientFacts, Limits DEF ClientJoin
  <2> QED
    BY <1>6, <2>1 DEF ClientJoin, Basics, ClientTypes
<1>7. CASE ClientRound
  <2>1. ci' \in 0..(MaxThreads + 1) /\ ct' \in [Threads -> ClientThreads]
    BY <1>7, ClientFacts, Limits DEF ClientRound
  <2>2. cround' \in (1..MaxSize) \X (1..MaxThreads) /\ cpc' \in {"connect", "join", "finished", "failed"}
    BY <1>7, ClientFacts, RoundFacts DEF ClientRound, RoundsOf
  <2> QED
    BY <1>1, <2>1, <2>2 DEF ClientTypes
<1> QED
  BY <1>1, <1>2, <1>3, <1>4, <1>5, <1>6, <1>7 DEF ClientMain

LEMMA ClientMainWires ==
  ASSUME Basics, ClientMain, window' = window
  PROVE  WireTypes'
<1>1. CASE Connect
  <2>1. /\ ci \in Threads /\ backlog' = Append(backlog, ci)
        /\ toS' = [toS EXCEPT ![ci] = "none"] /\ toC' = [toC EXCEPT ![ci] = None]
    BY <1>1, ClientFacts, Limits DEF Connect, Threads
  <2>2. Append(backlog, ci) \in Seq(Threads)
    BY <2>1 DEF Basics, WireTypes
  <2> QED
    BY <2>1, <2>2 DEF Basics, WireTypes
<1>2. CASE ~Connect
  <2>1. UNCHANGED <<backlog, toS, toC>>
    BY <1>2 DEF ClientMain, ClientSkip, ConnectFails, ClientFails, ClientStarted,
           ClientJoin, ClientCrash, ClientRound, wires
  <2> QED
    BY <2>1 DEF Basics, WireTypes
<1> QED
  BY <1>1, <1>2

LEMMA ClientMainLayers ==
  ASSUME Basics, Apart, ClientMain, window' = window PROVE Basics' /\ Apart'
<1>1. ClientTypes' /\ UNCHANGED <<serverMain, fd, st>>
  BY ClientMainTypes
<1>2. WireTypes'
  BY ClientMainWires
<1>3. ServerTypes' /\ Stage' /\ Table' /\ Apart'
  BY <1>1, ServerSame
<1> QED
  BY <1>1, <1>2, <1>3 DEF Basics

(* What a thread of the client does to itself: it goes on, and only one    *)
(* that reads the server's answer learns its peer.                         *)
CMove(k, r) ==
  /\ ct[k].pc # "none" /\ r \in ClientThreads /\ r.pc # "none"
  /\ ct' = [ct EXCEPT ![k] = r]
  /\ \/ toC' = toC /\ r.rem = ct[k].rem
     \/ toC' = [toC EXCEPT ![k] = None] /\ r.rem = toC[k]

LEMMA ClientGoto ==
  ASSUME Basics, NEW k \in Threads, ct[k].pc # "none", toC' = toC,
         NEW pc \in {"read", "close", "measure", "failed", "ended", "closectx"}, CGoto(k, pc)
  PROVE  \E r : CMove(k, r)
<1> DEFINE r == [ct[k] EXCEPT !.pc = pc]
<1>1. r \in ClientThreads /\ r.pc = pc /\ r.rem = ct[k].rem
  BY ClientFacts DEF ClientThreads
<1>2. ct' = [ct EXCEPT ![k] = r]
  BY DEF CGoto
<1> HIDE DEF r
<1>3. CMove(k, r)
  BY <1>1, <1>2 DEF CMove
<1> QED
  BY <1>3

LEMMA ClientReadMove ==
  ASSUME Basics, NEW k \in Threads, ClientReadAddr(k)
  PROVE  \E r : CMove(k, r)
<1> DEFINE pc == IF toC[k] = None THEN "failed" ELSE "done"
           r == [ct[k] EXCEPT !.rem = toC[k], !.pc = pc]
<1>1. ct[k].pc = "read" /\ toC' = [toC EXCEPT ![k] = None] /\ ct' = [ct EXCEPT ![k] = r]
  BY DEF ClientReadAddr
<1>2. ct[k] \in ClientThreads /\ toC[k] \in Threads \cup {None} /\ pc \in {"failed", "done"}
  BY ClientFacts DEF Basics, WireTypes
<1> HIDE DEF pc
<1>3. r \in ClientThreads /\ r.pc # "none" /\ r.rem = toC[k]
  BY <1>2 DEF ClientThreads
<1> HIDE DEF r
<1>4. CMove(k, r)
  BY <1>1, <1>3 DEF CMove
<1> QED
  BY <1>4

LEMMA ClientThreadMove ==
  ASSUME Basics, NEW k \in Threads, ClientThread(k)
  PROVE  \E r : CMove(k, r)
<1>1. CASE ClientWriteAddr(k)
  <2>1. ct[k].pc # "none" /\ toC' = toC /\ CGoto(k, "read")
    BY <1>1 DEF ClientWriteAddr
  <2> QED
    BY <2>1, ClientGoto
<1>2. CASE ClientReadAddr(k)
  BY <1>2, ClientReadMove
<1>3. CASE ClientWriteDone(k)
  <2>1. ct[k].pc # "none" /\ toC' = toC /\ CGoto(k, "close")
    BY <1>3 DEF ClientWriteDone
  <2> QED
    BY <2>1, ClientGoto
<1>4. CASE ClientClose(k)
  <2>1. ct[k].pc # "none" /\ toC' = toC /\ CGoto(k, "measure")
    BY <1>4 DEF ClientClose, wires
  <2> QED
    BY <2>1, ClientGoto
<1>5. CASE ClientStray(k)
  <2>1. ct[k].pc # "none" /\ toC' = toC /\ CGoto(k, "failed")
    BY <1>5 DEF ClientStray, wires
  <2> QED
    BY <2>1, ClientGoto
<1>6. CASE ClientCloseDevice(k)
  <2>1. ct[k].pc # "none" /\ toC' = toC /\ CGoto(k, "ended")
    BY <1>6 DEF ClientCloseDevice, wires
  <2> QED
    BY <2>1, ClientGoto
<1> QED
  BY <1>1, <1>2, <1>3, <1>4, <1>5, <1>6 DEF ClientThread

LEMMA ClientThreadWires ==
  ASSUME Basics, NEW k \in Threads, ClientThread(k), window' = window
  PROVE  /\ WireTypes' /\ backlog' = backlog
         /\ UNCHANGED <<spc, sround, si, lfd, cpc, cround, ci, fd, st>>
<1>1. UNCHANGED <<spc, sround, si, lfd, cpc, cround, ci, fd, st>>
  BY DEF ClientThread, serverMain, clientMain
<1>2. backlog' = backlog
  BY DEF ClientThread, ClientWriteAddr, ClientReadAddr, ClientWriteDone, ClientClose,
         ClientStray, ClientCloseDevice, wires
<1>3. /\ toS' = toS \/ toS' = [toS EXCEPT ![k] = "addr"] \/ toS' = [toS EXCEPT ![k] = "done"]
      /\ toC' = toC \/ toC' = [toC EXCEPT ![k] = None]
  BY DEF ClientThread, ClientWriteAddr, ClientReadAddr, ClientWriteDone, ClientClose,
         ClientStray, ClientCloseDevice, wires
<1>4. WireTypes'
  BY <1>2, <1>3 DEF Basics, WireTypes
<1> QED
  BY <1>1, <1>2, <1>4

LEMMA ClientThreadLayers ==
  ASSUME Basics, Apart, NEW k \in Threads, ClientThread(k), window' = window
  PROVE  Basics' /\ Apart'
<1>1. /\ WireTypes' /\ UNCHANGED <<spc, sround, si, lfd, cpc, cround, ci, fd, st>>
  BY ClientThreadWires
<1>2. ServerTypes' /\ Stage' /\ Table' /\ Apart'
  BY <1>1, ServerSame DEF serverMain
<1>3. ClientTypes'
  <2>1. PICK r : CMove(k, r)
    BY ClientThreadMove
  <2>2. ct' \in [Threads -> ClientThreads]
    BY <2>1, ClientFacts DEF CMove
  <2> QED
    BY <1>1, <2>2 DEF Basics, ClientTypes
<1> QED
  BY <1>1, <1>2, <1>3 DEF Basics

-----------------------------------------------------------------------------
(* The first half of the invariant in every step.                          *)

LEMMA InitLayers ==
  ASSUME Init PROVE Basics /\ Apart
<1>1. /\ spc = "listen" /\ cpc = "connect" /\ sround = <<1, 1>> /\ cround = <<1, 1>>
      /\ si = 0 /\ ci = 0 /\ lfd = None /\ backlog = <<>> /\ window \in Windows
      /\ fd = [f \in Fds |-> Free] /\ st = [i \in Threads |-> Fresh]
      /\ ct = [k \in Threads |-> CFresh]
      /\ toS = [k \in Threads |-> "none"] /\ toC = [k \in Threads |-> None]
  BY DEF Init, First
<1>2. \A f \in Fds : fd[f] = Free
  BY <1>1
<1>3. \A i \in Threads : st[i] = Fresh /\ st[i].pc = "none"
  BY <1>1 DEF Fresh
<1>4. <<1, 1>> \in (1..MaxSize) \X (1..MaxThreads)
  BY Limits
<1>5. ServerTypes
  <2>1. Fresh \in ServerThreads /\ Free \in Objects /\ si \in 0..MaxThreads
    BY <1>1, ObjectFacts, Limits DEF Fresh, ServerThreads
  <2> QED
    BY <1>1, <1>4, <2>1 DEF ServerTypes
<1>6. ClientTypes
  <2>1. CFresh \in ClientThreads /\ ci \in 0..(MaxThreads + 1)
    BY <1>1, Limits DEF CFresh, ClientThreads
  <2> QED
    BY <1>1, <1>4, <2>1 DEF ClientTypes
<1>7. WireTypes
  BY <1>1 DEF WireTypes
<1>8. Stage
  BY <1>1, <1>3 DEF Stage
<1>9. Table
  BY <1>2, ObjectFacts DEF Table
<1>10. Apart
  BY <1>1 DEF Apart, Running
<1> QED
  BY <1>5, <1>6, <1>7, <1>8, <1>9, <1>10 DEF Basics

(* What a step may be.                                                     *)
LEMMA Steps ==
  ASSUME [Next]_vars
  PROVE  \/ UNCHANGED vars
         \/ /\ window' = window
            /\ \/ ServerMain \/ ClientMain
               \/ \E i \in Threads : ServerThread(i) \/ ClientThread(i)
               \/ \E i, k \in Threads : Measure(i, k)
<1>1. CASE Next
  BY <1>1 DEF Next, Step, Finished
<1>2. CASE UNCHANGED vars
  BY <1>2
<1> QED
  BY <1>1, <1>2

LEMMA SameLayers ==
  ASSUME Basics, Apart, UNCHANGED vars PROVE Basics' /\ Apart'
<1>1. UNCHANGED <<serverMain, clientMain, fd, st, ct, window>>
  BY DEF vars
<1>2. WireTypes'
  BY DEF Basics, WireTypes, vars, wires
<1>3. ServerTypes' /\ Stage' /\ Table' /\ Apart'
  BY <1>1, ServerSame
<1>4. ClientTypes'
  BY <1>1, ClientSame
<1> QED
  BY <1>2, <1>3, <1>4 DEF Basics

LEMMA StepLayers ==
  ASSUME Basics, Apart, [Next]_vars PROVE Basics' /\ Apart'
<1>1. CASE UNCHANGED vars
  BY <1>1, SameLayers
<1>2. CASE window' = window /\ ServerMain
  BY <1>2, ServerMainLayers
<1>3. CASE window' = window /\ ClientMain
  BY <1>3, ClientMainLayers
<1>4. ASSUME NEW i \in Threads, window' = window, ServerThread(i) PROVE Basics' /\ Apart'
  BY <1>4, ServerThreadLayers
<1>5. ASSUME NEW i \in Threads, window' = window, ClientThread(i) PROVE Basics' /\ Apart'
  BY <1>5, ClientThreadLayers
<1>6. ASSUME NEW i \in Threads, NEW k \in Threads, window' = window, Measure(i, k)
      PROVE  Basics' /\ Apart'
  BY <1>6, MeasureLayers
<1> QED
  BY <1>1, <1>2, <1>3, <1>4, <1>5, <1>6, Steps

-----------------------------------------------------------------------------
(* The rounds of the two programs, and that who runs has bytes to send.    *)

LEMMA RoundTypes ==
  ASSUME Basics
  PROVE  /\ sround \in RoundsOf /\ cround \in RoundsOf
         /\ sround[2] >= 1 /\ cround[2] >= 1 /\ si \in Nat /\ ci \in Nat
         /\ Following(sround) # sround /\ Following(cround) # cround
         /\ SizePerPeer(sround, 0) # 0 /\ SizePerPeer(cround, 0) # 0
<1>1. /\ sround \in RoundsOf /\ cround \in RoundsOf /\ si \in Nat /\ ci \in Nat
      /\ sround[2] \in 1..MaxThreads /\ cround[2] \in 1..MaxThreads
  BY MainFacts, ClientFacts
<1>2. Following(sround) # sround /\ Following(cround) # cround
  BY <1>1, RoundFacts
<1>3. SizePerPeer(sround, 0) # 0 /\ SizePerPeer(cround, 0) # 0
  BY <1>1, ShareFacts
<1> QED
  BY <1>1, <1>2, <1>3, Limits

(* Steps that leave both mains alone.                                      *)
LEMMA ThreadKeepsInStep ==
  ASSUME InStep, UNCHANGED <<spc, sround, si, cpc, cround, ci, backlog>>,
         \A k \in Threads : ct'[k] = ct[k] \/ ct[k].pc # "none"
  PROVE  InStep'
<1>1. Alive' = Alive
  BY DEF Alive
<1>2. cpc' = "connect" => \A k \in Threads : k >= ci => ct'[k] = CFresh
  BY DEF InStep, CFresh
<1> QED
  BY <1>1, <1>2 DEF InStep

LEMMA ServerMainInStep ==
  ASSUME Basics, InStep, ServerMain PROVE InStep'
<1> USE RoundTypes
<1>1. CASE Listen
  BY <1>1 DEF Listen, InStep, Alive, clientMain, wires
<1>2. CASE ServerSkip
  BY <1>2 DEF ServerSkip, InStep, Alive, clientMain, wires
<1>3. CASE Accept
  BY <1>3 DEF Accept, InStep, Alive, clientMain
<1>4. CASE CloseListener
  BY <1>4 DEF CloseListener, InStep, Alive, clientMain
<1>5. CASE ServerJoin
  BY <1>5 DEF ServerJoin, InStep, Alive, clientMain, wires
<1>6. CASE ServerCrash
  BY <1>6 DEF ServerCrash, InStep, Alive, clientMain
<1>7. CASE ServerRound
  <2>1. /\ spc = "join" /\ si' = 0
        /\ \/ spc' = "listen" /\ sround' = Following(sround)
           \/ spc' = "finished" /\ sround' = sround
        /\ UNCHANGED <<cpc, cround, ci, ct, backlog>>
    BY <1>7, RoundOver
  <2> QED
    BY <2>1 DEF InStep, Alive
<1> QED
  BY <1>1, <1>2, <1>3, <1>4, <1>5, <1>6, <1>7 DEF ServerMain

LEMMA ClientMainInStep ==
  ASSUME Basics, InStep, ClientMain PROVE InStep'
<1> USE RoundTypes
<1>1. CASE ClientSkip
  <2>1. /\ cpc = "connect" /\ ci # 0 /\ ci' = ci + 2
        /\ UNCHANGED <<cpc, cround, spc, sround, si, ct, backlog>>
    BY <1>1 DEF ClientSkip, serverMain, wires
  <2>2. \A k \in Threads : k >= ci' => k >= ci
    BY <2>1, Limits
  <2> QED
    BY <2>1, <2>2 DEF InStep, Alive
<1>2. CASE Connect
  <2>1. /\ cpc = "connect" /\ spc = "accept" /\ sround = cround /\ ci' = ci + 1
        /\ ct' = [ct EXCEPT ![ci] = [CFresh EXCEPT !.pc = "write"]]
        /\ UNCHANGED <<cpc, cround, spc, sround, si>>
    BY <1>2 DEF Connect, serverMain
  <2>2. \A k \in Threads : k >= ci' => k >= ci /\ k # ci
    BY <2>1, Limits
  <2>3. \A k \in Threads : k >= ci' => ct'[k] = CFresh
    BY <2>1, <2>2, ClientFacts DEF InStep
  <2> QED
    BY <2>1, <2>3 DEF InStep, Alive
<1>3. CASE ConnectFails \/ ClientCrash
  BY <1>3 DEF ConnectFails, ClientCrash, ClientFails, InStep, Alive, serverMain, wires
<1>4. CASE ClientStarted
  <2>1. /\ cpc = "connect" /\ cpc' = "join" /\ ci # 0
        /\ UNCHANGED <<cround, spc, sround, si, backlog>>
    BY <1>4, ClientFacts, Limits DEF ClientStarted, serverMain, wires
  <2> QED
    BY <2>1 DEF InStep, Alive
<1>5. CASE ClientJoin
  BY <1>5 DEF ClientJoin, InStep, Alive, serverMain, wires
<1>6. CASE ClientRound
  <2>1. /\ cpc = "join" /\ ci' = 0 /\ ct' = [k \in Threads |-> CFresh]
        /\ \/ cpc' = "connect" /\ cround' = Following(cround)
           \/ cpc' = "finished" /\ cround' = cround
        /\ UNCHANGED <<spc, sround, si, backlog>>
    BY <1>6 DEF ClientRound, serverMain, wires
  <2> QED
    BY <2>1 DEF InStep, Alive
<1> QED
  BY <1>1, <1>2, <1>3, <1>4, <1>5, <1>6 DEF ClientMain

(* A thread of the server or the client that was not there is new.         *)
LEMMA ThreadKeepsShares ==
  ASSUME Shares, UNCHANGED <<sround, cround>>,
         \A i \in Threads : /\ st'[i].pc # "none" => st[i].pc # "none"
                            /\ ct'[i] # CFresh => ct[i] # CFresh
  PROVE  Shares'
<1>1. \A i \in Threads : /\ st'[i].pc # "none" => SizePerPeer(sround, i) # 0
                         /\ ct'[i] # CFresh => SizePerPeer(cround, i) # 0
  BY DEF Shares
<1> QED
  BY <1>1 DEF Shares

LEMMA ServerMainShares ==
  ASSUME Basics, Shares, ServerMain PROVE Shares'
<1>1. CASE Accept
  <2>1. /\ si \in Threads /\ SizePerPeer(sround, si) # 0 /\ UNCHANGED <<sround, cround, ct>>
        /\ \A i \in Threads : i # si => st'[i] = st[i]
    BY <1>1, AcceptFacts
  <2>2. \A i \in Threads : /\ st'[i].pc # "none" => SizePerPeer(sround, i) # 0
                           /\ ct'[i] # CFresh => SizePerPeer(cround, i) # 0
    BY <2>1 DEF Shares
  <2> QED
    BY <2>1, <2>2 DEF Shares
<1>2. CASE ServerRound
  <2>1. /\ \A i \in Threads : st'[i].pc = "none"
        /\ sround' = Following(sround) \/ sround' = sround
        /\ UNCHANGED <<cround, ct>>
    BY <1>2, RoundOver DEF Fresh
  <2>2. Binary(Following(sround)) /\ Binary(sround)
    BY MainFacts, BinaryFollowing DEF Shares
  <2> QED
    BY <2>1, <2>2 DEF Shares
<1>3. CASE ~Accept /\ ~ServerRound
  <2>1. UNCHANGED <<sround, cround, st, ct>>
    BY <1>3 DEF ServerMain, Listen, ServerSkip, CloseListener, ServerJoin, ServerCrash,
           clientMain
  <2> QED
    BY <2>1, ThreadKeepsShares DEF CFresh
<1> QED
  BY <1>1, <1>2, <1>3

LEMMA ClientMainShares ==
  ASSUME Basics, Shares, ClientMain PROVE Shares'
<1>1. UNCHANGED <<sround, st>>
  BY ClientMainTypes DEF serverMain
<1>2. CASE Connect
  <2>1. /\ SizePerPeer(cround, ci) # 0 /\ cround' = cround
        /\ ct' = [ct EXCEPT ![ci] = [CFresh EXCEPT !.pc = "write"]]
    BY <1>2 DEF Connect
  <2>2. \A k \in Threads : k # ci => ct'[k] = ct[k]
    BY <2>1, ClientFacts
  <2>3. \A i \in Threads : /\ st'[i].pc # "none" => SizePerPeer(sround, i) # 0
                           /\ ct'[i] # CFresh => SizePerPeer(cround, i) # 0
    BY <1>1, <2>1, <2>2 DEF Shares
  <2> QED
    BY <1>1, <2>1, <2>3 DEF Shares
<1>3. CASE ClientRound
  <2>1. /\ \A k \in Threads : ct'[k] = CFresh
        /\ cround' = Following(cround) \/ cround' = cround
    BY <1>3 DEF ClientRound
  <2>2. Binary(Following(cround)) /\ Binary(cround)
    BY ClientFacts, BinaryFollowing DEF Shares
  <2> QED
    BY <1>1, <2>1, <2>2 DEF Shares
<1>4. CASE ~Connect /\ ~ClientRound
  <2>1. UNCHANGED <<cround, ct>>
    BY <1>4 DEF ClientMain, ClientSkip, ConnectFails, ClientCrash, ClientFails,
           ClientStarted, ClientJoin
  <2> QED
    BY <1>1, <2>1, ThreadKeepsShares
<1> QED
  BY <1>2, <1>3, <1>4

(* What the steps of threads have in common.                               *)
LEMMA ThreadStepsSame ==
  ASSUME Basics, Apart
  PROVE  /\ \A i \in Threads : ServerThread(i) =>
              /\ UNCHANGED <<spc, sround, si, lfd, cpc, cround, ci, ct>>
              /\ \A j \in Threads : /\ j # i => st'[j] = st[j]
                                    /\ st'[j].pc # "none" => st[j].pc # "none"
         /\ \A k \in Threads : ClientThread(k) =>
              /\ UNCHANGED <<spc, sround, si, lfd, cpc, cround, ci, st, fd, backlog>>
              /\ \A j \in Threads : ct'[j] = ct[j] \/ (j = k /\ ct[j].pc # "none")
         /\ \A i, k \in Threads : Measure(i, k) =>
              /\ UNCHANGED <<spc, sround, si, lfd, cpc, cround, ci, fd, backlog, toS, toC>>
              /\ st[i].pc = "measure" /\ st' = [st EXCEPT ![i].pc = "closectx"]
              /\ ct[k].pc = "measure" /\ ct' = [ct EXCEPT ![k].pc = "closectx"]
<1>1. ASSUME NEW i \in Threads, ServerThread(i)
      PROVE  /\ UNCHANGED <<spc, sround, si, lfd, cpc, cround, ci, ct>>
             /\ \A j \in Threads : /\ j # i => st'[j] = st[j]
                                   /\ st'[j].pc # "none" => st[j].pc # "none"
  <2>1. Running /\ UNCHANGED <<spc, sround, si, lfd, cpc, cround, ci, ct>>
    BY <1>1 DEF ServerThread, serverMain, clientMain
  <2>2. CASE st' = st /\ fd' = fd
    BY <2>1, <2>2
  <2>3. ASSUME NEW r, ThreadMove(i, r)
        PROVE  \A j \in Threads : /\ j # i => st'[j] = st[j]
                                  /\ st'[j].pc # "none" => st[j].pc # "none"
    <3>1. st' = [st EXCEPT ![i] = r] /\ st[i].pc # "none"
      BY <2>3 DEF ThreadMove
    <3> QED
      BY <3>1, MainFacts
  <2> QED
    BY <1>1, <2>1, <2>2, <2>3, ThreadActionMove
<1>2. ASSUME NEW k \in Threads, ClientThread(k)
      PROVE  /\ UNCHANGED <<spc, sround, si, lfd, cpc, cround, ci, st, fd, backlog>>
             /\ \A j \in Threads : ct'[j] = ct[j] \/ (j = k /\ ct[j].pc # "none")
  <2>1. UNCHANGED <<spc, sround, si, lfd, cpc, cround, ci, st, fd>>
    BY <1>2 DEF ClientThread, serverMain, clientMain
  <2>2. backlog' = backlog
    BY <1>2 DEF ClientThread, ClientWriteAddr, ClientReadAddr, ClientWriteDone, ClientClose,
           ClientStray, ClientCloseDevice, wires
  <2>3. PICK r : CMove(k, r)
    BY <1>2, ClientThreadMove
  <2>4. \A j \in Threads : ct'[j] = ct[j] \/ (j = k /\ ct[j].pc # "none")
    BY <2>3, ClientFacts DEF CMove
  <2> QED
    BY <2>1, <2>2, <2>4
<1>3. ASSUME NEW i \in Threads, NEW k \in Threads, Measure(i, k)
      PROVE  /\ UNCHANGED <<spc, sround, si, lfd, cpc, cround, ci, fd, backlog, toS, toC>>
             /\ st[i].pc = "measure" /\ st' = [st EXCEPT ![i].pc = "closectx"]
             /\ ct[k].pc = "measure" /\ ct' = [ct EXCEPT ![k].pc = "closectx"]
  BY <1>3 DEF Measure, Goto, CGoto, serverMain, clientMain, wires
<1> QED
  BY <1>1, <1>2, <1>3

LEMMA StepRounds ==
  ASSUME Basics, Apart, InStep, Shares, [Next]_vars PROVE InStep' /\ Shares'
<1>1. CASE UNCHANGED vars
  <2>1. UNCHANGED <<spc, sround, si, cpc, cround, ci, backlog, st, ct>>
    BY <1>1 DEF vars, serverMain, clientMain, wires
  <2> QED
    BY <2>1, ThreadKeepsInStep, ThreadKeepsShares
<1>2. CASE ServerMain
  BY <1>2, ServerMainInStep, ServerMainShares
<1>3. CASE ClientMain
  BY <1>3, ClientMainInStep, ClientMainShares
<1>4. ASSUME NEW i \in Threads, ServerThread(i) PROVE InStep' /\ Shares'
  <2>1. /\ UNCHANGED <<spc, sround, si, lfd, cpc, cround, ci, ct>>
        /\ \A j \in Threads : st'[j].pc # "none" => st[j].pc # "none"
    BY <1>4, ThreadStepsSame
  <2>2. backlog' = backlog
    BY <1>4 DEF ServerThread, OpenDevice, InitContext, ReadAddr, WriteAddr, ReadDone,
           CloseFirst, CloseSecond, CloseDevice, ServerStray, wires
  <2>3. InStep'
    BY <2>1, <2>2, ThreadKeepsInStep
  <2>4. Shares'
    BY <2>1, ThreadKeepsShares DEF CFresh
  <2> QED
    BY <2>3, <2>4
<1>5. ASSUME NEW k \in Threads, ClientThread(k) PROVE InStep' /\ Shares'
  <2>1. /\ UNCHANGED <<spc, sround, si, lfd, cpc, cround, ci, st, fd, backlog>>
        /\ \A j \in Threads : ct'[j] = ct[j] \/ ct[j].pc # "none"
    BY <1>5, ThreadStepsSame
  <2>2. InStep'
    BY <2>1, ThreadKeepsInStep
  <2>3. Shares'
    BY <2>1, ThreadKeepsShares DEF CFresh
  <2> QED
    BY <2>2, <2>3
<1>6. ASSUME NEW i \in Threads, NEW k \in Threads, Measure(i, k) PROVE InStep' /\ Shares'
  <2>1. /\ UNCHANGED <<spc, sround, si, lfd, cpc, cround, ci, fd, backlog, toS, toC>>
        /\ st[i].pc = "measure" /\ st' = [st EXCEPT ![i].pc = "closectx"]
        /\ ct[k].pc = "measure" /\ ct' = [ct EXCEPT ![k].pc = "closectx"]
    BY <1>6, ThreadStepsSame
  <2>2. \A j \in Threads : /\ st'[j] = st[j] \/ st[j].pc # "none"
                           /\ ct'[j] = ct[j] \/ ct[j].pc # "none"
    BY <2>1, MainFacts, ClientFacts
  <2>3. InStep'
    BY <2>1, <2>2, ThreadKeepsInStep
  <2>4. Shares'
    BY <2>1, <2>2, ThreadKeepsShares DEF CFresh
  <2> QED
    BY <2>3, <2>4
<1> QED
  BY <1>1, <1>2, <1>3, <1>4, <1>5, <1>6, Steps

-----------------------------------------------------------------------------
(* Where the connections are and who talks to whom, in one round.          *)

(* Steps that move no connection: none is opened, and a thread that learns *)
(* its peer has the connection of it.                                      *)
LEMMA KeepOnePlace ==
  ASSUME OnePlace, backlog' = backlog \/ backlog' = <<>>,
         \A f \in Fds, k \in Threads : fd'[f] = Conn(k) => fd[f] = Conn(k),
         \A j \in Threads, k \in Threads : st'[j].rem = k => st[j].rem = k \/ InTable(k),
         \A k \in Threads : ct[k].pc # "none" => ct'[k].pc # "none",
         cpc' # "finished" => cpc # "finished"
  PROVE  OnePlace'
<1>1. ASSUME NEW k \in Threads, InTable(k)' PROVE InTable(k)
  BY <1>1 DEF InTable
<1>2. ASSUME NEW k \in Threads, InBacklog(k)' PROVE InBacklog(k) /\ backlog' = backlog
  <2>1. PICK j \in 1..Len(backlog') : backlog'[j] = k
    BY <1>2 DEF InBacklog
  <2>2. backlog' # <<>>
    BY <2>1
  <2> QED
    BY <1>2, <2>2 DEF InBacklog
<1>3. \A k \in Threads : \A f, g \in Fds : fd'[f] = Conn(k) /\ fd'[g] = Conn(k) => f = g
  BY DEF OnePlace
<1>4. \A a, b \in 1..Len(backlog') : backlog'[a] = backlog'[b] => a = b
  <2>1. CASE backlog' = backlog
    BY <2>1 DEF OnePlace
  <2>2. CASE backlog' = <<>>
    BY <2>2
  <2> QED
    BY <2>1, <2>2
<1>5. ASSUME NEW k \in Threads, InBacklog(k)'
      PROVE  ~InTable(k)' /\ \A j \in Threads : st'[j].rem # k
  <2>1. ~InTable(k) /\ \A j \in Threads : st[j].rem # k
    BY <1>2, <1>5 DEF OnePlace
  <2> QED
    BY <1>1, <2>1
<1>6. ASSUME cpc' # "finished", NEW k \in Threads, Seen(k)' PROVE ct'[k].pc # "none"
  <2>1. Seen(k)
    <3>1. InTable(k)' \/ InBacklog(k)' \/ \E j \in Threads : st'[j].rem = k
      BY <1>6 DEF Seen
    <3> QED
      BY <1>1, <1>2, <3>1 DEF Seen
  <2> QED
    BY <1>6, <2>1 DEF OnePlace
<1> QED
  BY <1>3, <1>4, <1>5, <1>6 DEF OnePlace

LEMMA KeepAnswers ==
  ASSUME Answers,
         \A j \in Threads : st[j].rem \in Threads => st'[j].rem = st[j].rem,
         \A k \in Threads : ct'[k].pc # "none" /\ toC'[k] \in Threads =>
                              \/ ct[k].pc # "none" /\ toC'[k] = toC[k]
                              \/ st'[toC'[k]].rem = k,
         \A k \in Threads : ct'[k].rem \in Threads =>
                              \/ ct'[k].rem = ct[k].rem
                              \/ ct[k].pc # "none" /\ ct'[k].rem = toC[k]
  PROVE  Answers'
<1> SUFFICES ASSUME NEW k \in Threads
             PROVE  /\ ct'[k].pc # "none" /\ toC'[k] \in Threads => st'[toC'[k]].rem = k
                    /\ ct'[k].rem \in Threads => st'[ct'[k].rem].rem = k
  BY DEF Answers
<1>1. /\ ct[k].pc # "none" /\ toC[k] \in Threads => st[toC[k]].rem = k
      /\ ct[k].rem \in Threads => st[ct[k].rem].rem = k
  BY DEF Answers
<1>2. ASSUME NEW j \in Threads, st[j].rem = k PROVE st'[j].rem = k
  BY <1>2
<1>3. ASSUME ct'[k].pc # "none", toC'[k] \in Threads PROVE st'[toC'[k]].rem = k
  BY <1>1, <1>2, <1>3
<1>4. ASSUME ct'[k].rem \in Threads PROVE st'[ct'[k].rem].rem = k
  BY <1>1, <1>2, <1>4
<1> QED
  BY <1>3, <1>4

LEMMA KeepPeers ==
  ASSUME Peers, Stage, st' = st,
         \A f \in Fds, k \in Threads : fd'[f] = Conn(k) <=> fd[f] = Conn(k)
  PROVE  Peers'
<1>1. ASSUME NEW k \in Threads, InTable(k)' PROVE InTable(k)
  BY <1>1 DEF InTable
<1>2. ASSUME NEW j \in Threads
      PROVE  /\ st'[j].pc \in {"none", "open", "init", "read"} => st'[j].rem = None
             /\ st'[j].pc \in Talking => st'[j].rem \in Threads /\ Named(j)' = Conn(st'[j].rem)
             /\ st'[j].rem \in Threads /\ st'[j].pc \notin Talking =>
                  ~(\E f \in Fds : fd'[f] = Conn(st'[j].rem))
  <2>1. /\ st[j].pc \in {"none", "open", "init", "read"} => st[j].rem = None
        /\ st[j].pc \in Talking => st[j].rem \in Threads /\ fd[st[j].connfd] = Conn(st[j].rem)
        /\ st[j].rem \in Threads /\ st[j].pc \notin Talking =>
             ~(\E f \in Fds : fd[f] = Conn(st[j].rem))
    BY DEF Peers, Named, InTable
  <2>2. st[j].pc \in Talking => st[j].connfd \in Fds
    BY DEF Stage, Talking
  <2>3. st[j].pc \in Talking => fd'[st[j].connfd] = Conn(st[j].rem)
    BY <2>1, <2>2
  <2> QED
    BY <2>1, <2>3 DEF Named
<1>3. \A i, j \in Threads : st'[i].rem \in Threads /\ st'[i].rem = st'[j].rem => i = j
  BY DEF Peers
<1> QED
  BY <1>2, <1>3 DEF Peers, InTable

(* A thread that goes on: it keeps its connection and its peer, learns its *)
(* peer from its connection, or closes its connection.                     *)
LEMMA MoveKeepsLinks ==
  ASSUME Basics, Apart, Running, ~window, OnePlace, Peers,
         NEW i \in Threads, NEW r, ThreadMove(i, r), MoveApart(i, r),
         \/ r.rem = st[i].rem
         \/ st[i].pc = "read" /\ r.pc = "write" /\ r.rem \in Threads /\ Named(i) = Conn(r.rem),
         r.pc \in {"none", "open", "init", "read"} => r.rem = None,
         r.pc \in Talking => st[i].pc \in Talking \/ (st[i].pc = "read" /\ r.rem # st[i].rem),
         st[i].pc \in Talking /\ r.pc \notin Talking => fd'[st[i].connfd] = Free
  PROVE  /\ Peers'
         /\ \A f \in Fds, k \in Threads : fd'[f] = Conn(k) => fd[f] = Conn(k)
         /\ \A j \in Threads, k \in Threads : st'[j].rem = k => st[j].rem = k \/ InTable(k)
         /\ \A j \in Threads : st[j].rem \in Threads => st'[j].rem = st[j].rem
<1>1. /\ st' = [st EXCEPT ![i] = r] /\ r.connfd = st[i].connfd /\ st[i].connfd \in Fds
      /\ \A f \in Fds : fd'[f] = fd[f] \/ fd'[f] = Free \/ fd'[f] = Dev(i)
  BY DEF ThreadMove
<1>2. st'[i] = r /\ \A j \in Threads : j # i => st'[j] = st[j]
  BY <1>1, MainFacts
<1>3. /\ \A f \in Fds : \/ fd'[f] = fd[f] \/ fd[f] = Free \/ fd[f] = Dev(i)
                        \/ f = st[i].connfd /\ st[i].pc \in {"close1", "close1bad", "close2"}
      /\ r.pc \in Holding => fd'[st[i].connfd] = fd[st[i].connfd]
  BY <1>1 DEF MoveApart
<1>4. \A f \in Fds, k \in Threads : fd'[f] = Conn(k) => fd[f] = Conn(k)
  BY <1>1, ObjectFacts
<1>5. \A j \in Threads : st[j].pc # "none" => st[j].connfd \in Fds
  BY DEF Basics, Stage
<1>6. /\ st[i].pc = "close2" => fd[st[i].connfd] = Free
      /\ \A j \in Threads \ {i} : st[j].pc \in Holding /\ st[i].pc \in Holding =>
           st[j].connfd # st[i].connfd
  BY DEF Apart, Named
<1>7. \A j \in Threads :
        /\ st[j].pc \in {"none", "open", "init", "read"} => st[j].rem = None
        /\ st[j].pc \in Talking => st[j].rem \in Threads /\ fd[st[j].connfd] = Conn(st[j].rem)
        /\ st[j].rem \in Threads /\ st[j].pc \notin Talking =>
             \A f \in Fds : fd[f] # Conn(st[j].rem)
  BY DEF Peers, Named, InTable
<1>8. \A k \in Threads : \A f, g \in Fds : fd[f] = Conn(k) /\ fd[g] = Conn(k) => f = g
  BY DEF OnePlace
<1>9. Talking \subseteq Holding /\ "none" \notin Talking /\ "write" \in Talking
  BY DEF Talking, Holding
<1>10. r.rem \in Threads => r.rem = st[i].rem \/ (st[i].pc = "read" /\ r.pc = "write"
                                                  /\ fd[st[i].connfd] = Conn(r.rem))
  BY DEF Named
<1>11. ASSUME NEW j \in Threads, j # i
       PROVE  /\ st[j].pc \in Talking => fd'[st[j].connfd] = Conn(st[j].rem)
              /\ st[j].rem \in Threads /\ st[j].pc \notin Talking =>
                   \A f \in Fds : fd'[f] # Conn(st[j].rem)
  <2>1. ASSUME st[j].pc \in Talking PROVE fd'[st[j].connfd] = Conn(st[j].rem)
    <3>1. /\ st[j].connfd \in Fds /\ st[j].rem \in Threads /\ fd[st[j].connfd] = Conn(st[j].rem)
          /\ st[j].pc \in Holding
      BY <1>5, <1>7, <1>9, <2>1
    <3>2. fd[st[j].connfd] # Free /\ fd[st[j].connfd] # Dev(i)
      BY <3>1, ObjectFacts
    <3>3. CASE st[j].connfd = st[i].connfd
      <4>1. st[i].pc \notin Holding /\ st[i].pc # "close2"
        BY <1>6, <1>11, <3>1, <3>2, <3>3
      <4> QED
        BY <1>3, <3>1, <3>2, <4>1 DEF Holding
    <3>4. CASE st[j].connfd # st[i].connfd
      BY <1>3, <3>1, <3>2, <3>4
    <3> QED
      BY <3>3, <3>4
  <2>2. ASSUME st[j].rem \in Threads, st[j].pc \notin Talking
        PROVE  \A f \in Fds : fd'[f] # Conn(st[j].rem)
    BY <1>4, <1>7, <2>2
  <2> QED
    BY <2>1, <2>2
<1>12. /\ r.pc \in Talking => r.rem \in Threads /\ fd'[st[i].connfd] = Conn(r.rem)
       /\ r.rem \in Threads /\ r.pc \notin Talking => \A f \in Fds : fd'[f] # Conn(r.rem)
  <2>1. ASSUME r.pc \in Talking PROVE r.rem \in Threads /\ fd'[st[i].connfd] = Conn(r.rem)
    <3>1. fd'[st[i].connfd] = fd[st[i].connfd]
      BY <1>3, <1>9, <2>1
    <3>2. CASE r.rem = st[i].rem
      <4>1. st[i].pc \in Talking
        BY <2>1, <3>2
      <4> QED
        BY <1>7, <3>1, <3>2, <4>1
    <3>3. CASE r.rem # st[i].rem
      BY <3>1, <3>3 DEF Named
    <3> QED
      BY <3>2, <3>3
  <2>2. ASSUME r.rem \in Threads, r.pc \notin Talking, NEW f \in Fds PROVE fd'[f] # Conn(r.rem)
    <3>1. r.rem = st[i].rem
      BY <1>9, <1>10, <2>2
    <3>2. CASE st[i].pc \in Talking
      <4>1. fd[st[i].connfd] = Conn(r.rem) /\ fd'[st[i].connfd] = Free
        BY <1>7, <2>2, <3>1, <3>2
      <4>2. fd'[f] = Conn(r.rem) => f = st[i].connfd
        BY <1>1, <1>4, <1>8, <2>2, <4>1
      <4> QED
        BY <2>2, <4>1, <4>2, ObjectFacts
    <3>3. CASE st[i].pc \notin Talking
      BY <1>4, <1>7, <2>2, <3>1, <3>3
    <3> QED
      BY <3>2, <3>3
  <2> QED
    BY <2>1, <2>2
<1>13. ASSUME NEW j \in Threads, j # i, r.rem \in Threads PROVE r.rem # st[j].rem
  <2>1. CASE r.rem = st[i].rem
    BY <1>13, <2>1 DEF Peers
  <2>2. CASE st[i].pc = "read" /\ fd[st[i].connfd] = Conn(r.rem)
    <3> SUFFICES ASSUME r.rem = st[j].rem PROVE FALSE
      OBVIOUS
    <3>1. st[j].pc \in Talking /\ fd[st[j].connfd] = Conn(r.rem)
      BY <1>1, <1>7, <1>13, <2>2
    <3>2. st[j].connfd = st[i].connfd
      BY <1>1, <1>5, <1>8, <1>9, <1>13, <2>2, <3>1
    <3> QED
      BY <1>6, <1>9, <1>13, <2>2, <3>1, <3>2 DEF Holding
  <2> QED
    BY <1>10, <1>13, <2>1, <2>2
<1>14. Peers'
  <2>1. ASSUME NEW j \in Threads
        PROVE  /\ st'[j].pc \in {"none", "open", "init", "read"} => st'[j].rem = None
               /\ st'[j].pc \in Talking =>
                    st'[j].rem \in Threads /\ fd'[st'[j].connfd] = Conn(st'[j].rem)
               /\ st'[j].rem \in Threads /\ st'[j].pc \notin Talking =>
                    \A f \in Fds : fd'[f] # Conn(st'[j].rem)
    <3>1. CASE j = i
      BY <1>1, <1>2, <1>12, <3>1
    <3>2. CASE j # i
      BY <1>2, <1>7, <1>11, <3>2
    <3> QED
      BY <3>1, <3>2
  <2>2. ASSUME NEW j \in Threads, NEW l \in Threads, st'[j].rem \in Threads, st'[j].rem = st'[l].rem
        PROVE  j = l
    <3>1. CASE j # i /\ l # i
      BY <1>2, <2>2, <3>1 DEF Peers
    <3>2. CASE j = i \/ l = i
      BY <1>2, <1>13, <2>2, <3>2
    <3> QED
      BY <3>1, <3>2
  <2> QED
    BY <2>1, <2>2 DEF Peers, Named, InTable
<1>15. \A j \in Threads, k \in Threads : st'[j].rem = k => st[j].rem = k \/ InTable(k)
  BY <1>1, <1>2, <1>10 DEF InTable
<1>16. \A j \in Threads : st[j].rem \in Threads => st'[j].rem = st[j].rem
  BY <1>2, <1>7, Limits
<1> QED
  BY <1>4, <1>14, <1>15, <1>16

(* A round begins: no threads, no connections.                             *)
LEMMA RoundBegins ==
  ASSUME \A i \in Threads : st'[i] = Fresh, \A k \in Threads : ct'[k] = CFresh,
         backlog' = <<>>, \A f \in Fds, k \in Threads : fd'[f] # Conn(k)
  PROVE  OnePlace' /\ Peers' /\ Answers'
<1>1. /\ \A i \in Threads : st'[i].pc = "none" /\ st'[i].rem = None
      /\ \A k \in Threads : ct'[k].pc = "none" /\ ct'[k].rem = None
  BY DEF Fresh, CFresh
<1>2. ASSUME NEW k \in Threads PROVE ~InTable(k)' /\ ~InBacklog(k)' /\ ~Seen(k)'
  <2>1. ~InTable(k)'
    BY DEF InTable
  <2>2. ~InBacklog(k)'
    BY DEF InBacklog
  <2>3. \A j \in Threads : st'[j].rem # k
    BY <1>1, Limits
  <2> QED
    BY <2>1, <2>2, <2>3 DEF Seen
<1>3. OnePlace'
  BY <1>2 DEF OnePlace
<1>4. Peers'
  BY <1>1, Limits DEF Peers, Talking
<1>5. Answers'
  BY <1>1, Limits DEF Answers
<1> QED
  BY <1>3, <1>4, <1>5

LEMMA InitLinks ==
  ASSUME Init PROVE Links
<1>1. /\ \A i \in Threads : st[i].pc = "none" /\ st[i].rem = None
      /\ \A k \in Threads : ct[k].pc = "none" /\ ct[k].rem = None
      /\ backlog = <<>> /\ \A f \in Fds : fd[f] = Free
  BY DEF Init, Fresh, CFresh
<1>2. \A k \in Threads : ~InTable(k) /\ ~InBacklog(k) /\ ~Seen(k)
  BY <1>1, Limits, ObjectFacts DEF InTable, InBacklog, Seen
<1>3. OnePlace
  BY <1>1, <1>2, ObjectFacts DEF OnePlace
<1>4. Peers
  BY <1>1, Limits DEF Peers, Talking
<1>5. Answers
  BY <1>1, Limits DEF Answers
<1> QED
  BY <1>3, <1>4, <1>5 DEF Links

(* Main of the server.                                                     *)
LEMMA AcceptLinks ==
  ASSUME Basics, OnePlace, Peers, Answers, Accept
  PROVE  OnePlace' /\ Peers' /\ Answers'
<1> DEFINE r == [Fresh EXCEPT !.pc = "open", !.connfd = Lowest]
           k0 == Head(backlog)
           l0 == Lowest
<1>1. /\ si \in Threads /\ st[si].pc = "none" /\ st[si].rem = None
      /\ k0 \in Threads /\ backlog # <<>> /\ backlog' = Tail(backlog)
      /\ l0 \in Fds /\ fd[l0] = Free /\ fd'[l0] = Conn(k0)
      /\ \A f \in Fds : f # l0 => fd'[f] = fd[f]
      /\ r.pc = "open" /\ r.connfd = l0 /\ r.rem = None /\ st'[si] = r
      /\ \A i \in Threads : i # si => st'[i] = st[i]
      /\ UNCHANGED <<cpc, ct, toC>>
  BY AcceptFacts
<1>2. backlog \in Seq(Threads) /\ k0 = backlog[1] /\ 1 \in 1..Len(backlog)
  BY <1>1 DEF Basics, WireTypes
<1> HIDE DEF r, k0, l0
<1>3. /\ Len(backlog') = Len(backlog) - 1
      /\ \A a \in 1..Len(backlog') : a + 1 \in 1..Len(backlog) /\ backlog'[a] = backlog[a + 1]
  BY <1>1, <1>2
<1>4. InBacklog(k0) /\ ~InTable(k0) /\ \A j \in Threads : st[j].rem # k0
  BY <1>1, <1>2 DEF InBacklog, OnePlace
<1>5. ASSUME NEW k \in Threads, InBacklog(k)' PROVE InBacklog(k) /\ k # k0
  <2>1. PICK a \in 1..Len(backlog') : backlog'[a] = k
    BY <1>5 DEF InBacklog
  <2>2. a + 1 \in 1..Len(backlog) /\ backlog[a + 1] = k /\ a + 1 # 1
    BY <1>3, <2>1
  <2>3. k # k0
    BY <1>2, <2>2 DEF OnePlace
  <2> QED
    BY <2>2, <2>3 DEF InBacklog
<1>6. \A k \in Threads : InTable(k)' => InTable(k) \/ k = k0
  BY <1>1, ObjectFacts DEF InTable
<1>11. \A f \in Fds, k \in Threads : fd'[f] = Conn(k) => InTable(k) \/ k = k0
  BY <1>6 DEF InTable
<1>7. \A j \in Threads : st'[j].rem = st[j].rem
  BY <1>1
<1>8. OnePlace'
  <2>1. \A k \in Threads : \A f, g \in Fds : fd'[f] = Conn(k) /\ fd'[g] = Conn(k) => f = g
    <3> SUFFICES ASSUME NEW k \in Threads, NEW f \in Fds, NEW g \in Fds,
                        fd'[f] = Conn(k), fd'[g] = Conn(k)
                 PROVE  f = g
      OBVIOUS
    <3>1. CASE k = k0
      BY <1>1, <1>4, <3>1 DEF InTable
    <3>2. CASE k # k0
      <4>1. f # l0 /\ g # l0
        BY <1>1, <3>2, ObjectFacts
      <4> QED
        BY <1>1, <4>1 DEF OnePlace
    <3> QED
      BY <3>1, <3>2
  <2>2. \A a, b \in 1..Len(backlog') : backlog'[a] = backlog'[b] => a = b
    <3>1. ASSUME NEW a \in 1..Len(backlog'), NEW b \in 1..Len(backlog'), backlog'[a] = backlog'[b]
          PROVE  a = b
      <4>1. a + 1 = b + 1
        BY <1>3, <3>1 DEF OnePlace
      <4> QED
        BY <4>1
    <3> QED
      BY <3>1
  <2>3. \A k \in Threads : InBacklog(k)' => ~InTable(k)' /\ \A j \in Threads : st'[j].rem # k
    BY <1>5, <1>6, <1>7 DEF OnePlace
  <2>4. cpc' # "finished" => \A k \in Threads : Seen(k)' => ct'[k].pc # "none"
    <3>1. \A k \in Threads : Seen(k)' => Seen(k)
      BY <1>4, <1>5, <1>6, <1>7 DEF Seen
    <3> QED
      BY <1>1, <3>1 DEF OnePlace
  <2> QED
    BY <2>1, <2>2, <2>3, <2>4 DEF OnePlace
<1>9. Peers'
  <2>1. \A j \in Threads : st[j].pc # "none" => st[j].connfd \in Fds
    BY DEF Basics, Stage
  <2>2. ASSUME NEW j \in Threads, j # si
        PROVE  /\ st[j].pc \in {"none", "open", "init", "read"} => st[j].rem = None
               /\ st[j].pc \in Talking =>
                    st[j].rem \in Threads /\ fd'[st[j].connfd] = Conn(st[j].rem)
               /\ st[j].rem \in Threads /\ st[j].pc \notin Talking =>
                    \A f \in Fds : fd'[f] # Conn(st[j].rem)
    <3>1. /\ st[j].pc \in {"none", "open", "init", "read"} => st[j].rem = None
          /\ st[j].pc \in Talking => st[j].rem \in Threads /\ fd[st[j].connfd] = Conn(st[j].rem)
          /\ st[j].rem \in Threads /\ st[j].pc \notin Talking => ~InTable(st[j].rem)
      BY DEF Peers, Named
    <3>2. ASSUME st[j].pc \in Talking PROVE fd'[st[j].connfd] = Conn(st[j].rem)
      <4>1. st[j].connfd \in Fds /\ fd[st[j].connfd] # Free
        BY <2>1, <3>1, <3>2, ObjectFacts DEF Talking
      <4> QED
        BY <1>1, <3>1, <3>2, <4>1
    <3>3. ASSUME st[j].rem \in Threads, st[j].pc \notin Talking PROVE \A f \in Fds : fd'[f] # Conn(st[j].rem)
      BY <1>4, <1>11, <3>1, <3>3
    <3> QED
      BY <3>1, <3>2, <3>3
  <2>3. ASSUME NEW j \in Threads
        PROVE  /\ st'[j].pc \in {"none", "open", "init", "read"} => st'[j].rem = None
               /\ st'[j].pc \in Talking =>
                    st'[j].rem \in Threads /\ fd'[st'[j].connfd] = Conn(st'[j].rem)
               /\ st'[j].rem \in Threads /\ st'[j].pc \notin Talking =>
                    \A f \in Fds : fd'[f] # Conn(st'[j].rem)
    <3>1. CASE j = si
      BY <1>1, <3>1, Limits DEF Talking
    <3>2. CASE j # si
      <4>1. st'[j] = st[j]
        BY <1>1, <3>2
      <4> QED
        BY <2>2, <3>2, <4>1
    <3> QED
      BY <3>1, <3>2
  <2>4. \A i, j \in Threads : st'[i].rem \in Threads /\ st'[i].rem = st'[j].rem => i = j
    BY <1>7 DEF Peers
  <2> QED
    BY <2>3, <2>4 DEF Peers, Named, InTable
<1>10. Answers'
  BY <1>1, <1>7, KeepAnswers
<1> QED
  BY <1>8, <1>9, <1>10

(* Main neither opens nor closes a connection.                             *)
LEMMA MainKeepsLinks ==
  ASSUME Basics, OnePlace, Peers, Answers, backlog' = backlog \/ backlog' = <<>>,
         UNCHANGED <<cpc, st, ct, toC>>,
         \A f \in Fds, k \in Threads : fd'[f] = Conn(k) <=> fd[f] = Conn(k)
  PROVE  OnePlace' /\ Peers' /\ Answers'
<1>1. OnePlace'
  BY KeepOnePlace
<1>2. Peers'
  BY KeepPeers DEF Basics
<1>3. Answers'
  BY KeepAnswers
<1> QED
  BY <1>1, <1>2, <1>3

LEMMA ServerRoundLinks ==
  ASSUME Basics, InStep, ServerRound, Linked' PROVE OnePlace' /\ Peers' /\ Answers'
<1>1. /\ spc = "join" /\ \A f \in Fds : fd[f] = Free /\ fd'[f] = Free
      /\ \A i \in Threads : st'[i] = Fresh
      /\ \/ spc' = "listen" /\ sround' = Following(sround)
         \/ spc' = "finished" /\ sround' = sround
      /\ UNCHANGED <<cpc, cround, ci, ct, backlog>>
  BY RoundOver
<1>2. cround = Following(sround) /\ Alive
  BY <1>1 DEF Linked, Alive
<1>3. cpc = "connect" /\ ci = 0 /\ backlog = <<>>
  BY <1>1, <1>2, RoundTypes DEF InStep
<1>4. \A k \in Threads : ct[k] = CFresh
  <2>1. \A k \in Threads : k >= 0
    BY Limits
  <2> QED
    BY <1>3, <2>1 DEF InStep
<1> QED
  BY <1>1, <1>3, <1>4, RoundBegins, ObjectFacts

LEMMA ServerMainLinks ==
  ASSUME Basics, Apart, InStep, Links, ServerMain, window' = window, Linked'
  PROVE  OnePlace' /\ Peers' /\ Answers'
<1>1. CASE ServerRound
  BY <1>1, ServerRoundLinks
<1>2. CASE ~ServerRound
  <2>1. /\ UNCHANGED <<cpc, cround, sround, ct, toC>>
        /\ spc \in {"listen", "accept", "join"}
    BY <1>2 DEF ServerMain, Listen, ServerSkip, Accept, CloseListener, ServerJoin,
           ServerCrash, clientMain, wires
  <2>2. OnePlace /\ Peers /\ Answers /\ ~window
    BY <2>1 DEF Linked, Alive, Links
  <2>3. CASE Accept
    BY <2>2, <2>3, AcceptLinks
  <2>4. CASE Listen
    <3>1. spc = "listen" /\ fd' = [fd EXCEPT ![Lowest] = Listener] /\ UNCHANGED <<st, backlog>>
      BY <2>4 DEF Listen, wires
    <3>2. \A i \in Threads : st[i].pc = "none"
      BY <3>1 DEF Basics, Stage, Fresh
    <3>3. \A f \in Fds : fd[f] = Free
      BY <3>1, <3>2, NothingLeft
    <3>4. \A f \in Fds, k \in Threads : fd'[f] = Conn(k) <=> fd[f] = Conn(k)
      BY <3>1, <3>3, ObjectFacts, MainFacts
    <3> QED
      BY <2>1, <2>2, <3>1, <3>4, MainKeepsLinks
  <2>5. CASE CloseListener
    <3>1. /\ spc = "accept" /\ fd' = [fd EXCEPT ![lfd] = Free] /\ backlog' = <<>> /\ st' = st
      BY <2>5 DEF CloseListener
    <3>2. lfd \in Fds /\ fd[lfd] = Listener
      BY <2>2, <3>1 DEF Apart, Running
    <3>3. \A f \in Fds, k \in Threads : fd'[f] = Conn(k) <=> fd[f] = Conn(k)
      BY <3>1, <3>2, ObjectFacts, MainFacts
    <3> QED
      BY <2>1, <2>2, <3>1, <3>3, MainKeepsLinks
  <2>6. CASE ServerSkip \/ ServerJoin
    <3>1. UNCHANGED <<fd, st, backlog>>
      BY <2>6 DEF ServerSkip, ServerJoin, wires
    <3> QED
      BY <2>1, <2>2, <3>1, MainKeepsLinks
  <2>7. CASE ServerCrash
    BY <2>7 DEF ServerCrash, Linked, Alive
  <2> QED
    BY <1>2, <2>3, <2>4, <2>5, <2>6, <2>7 DEF ServerMain
<1> QED
  BY <1>1, <1>2

(* Threads of the server.                                                  *)
LinkMove(i, r) ==
  /\ ThreadMove(i, r) /\ MoveApart(i, r)
  /\ \/ r.rem = st[i].rem
     \/ st[i].pc = "read" /\ r.pc = "write" /\ r.rem \in Threads /\ Named(i) = Conn(r.rem)
  /\ r.pc \in {"none", "open", "init", "read"} => r.rem = None
  /\ r.pc \in Talking => st[i].pc \in Talking \/ (st[i].pc = "read" /\ r.rem # st[i].rem)
  /\ st[i].pc \in Talking /\ r.pc \notin Talking => fd'[st[i].connfd] = Free
  /\ toC' = toC \/ (r.rem \in Threads /\ toC' = [toC EXCEPT ![r.rem] = i])

LEMMA LinkMoveKeeps ==
  ASSUME Basics, Apart, Running, ~window, OnePlace, Peers, Answers,
         NEW i \in Threads, NEW r, LinkMove(i, r),
         backlog' = backlog, UNCHANGED cpc,
         \A k \in Threads : /\ ct[k].pc # "none" <=> ct'[k].pc # "none"
                            /\ ct'[k].rem = ct[k].rem
  PROVE  OnePlace' /\ Peers' /\ Answers'
<1>1. /\ Peers'
      /\ \A f \in Fds, k \in Threads : fd'[f] = Conn(k) => fd[f] = Conn(k)
      /\ \A j \in Threads, k \in Threads : st'[j].rem = k => st[j].rem = k \/ InTable(k)
      /\ \A j \in Threads : st[j].rem \in Threads => st'[j].rem = st[j].rem
  BY MoveKeepsLinks DEF LinkMove
<1>2. OnePlace'
  BY <1>1, KeepOnePlace
<1>3. \A k \in Threads : ct'[k].pc # "none" /\ toC'[k] \in Threads =>
                           \/ ct[k].pc # "none" /\ toC'[k] = toC[k]
                           \/ st'[toC'[k]].rem = k
  <2>1. CASE toC' = toC
    BY <2>1
  <2>2. CASE r.rem \in Threads /\ toC' = [toC EXCEPT ![r.rem] = i]
    <3>1. toC'[r.rem] = i /\ \A k \in Threads : k # r.rem => toC'[k] = toC[k]
      BY <2>2 DEF Basics, WireTypes
    <3>2. st'[i] = r
      BY MainFacts DEF LinkMove, ThreadMove
    <3> QED
      BY <3>1, <3>2
  <2> QED
    BY <2>1, <2>2 DEF LinkMove
<1>4. Answers'
  BY <1>1, <1>3, KeepAnswers
<1> QED
  BY <1>1, <1>2, <1>4

LEMMA PeerFacts ==
  ASSUME Basics, Peers, NEW i \in Threads
  PROVE  /\ st[i].pc \in {"none", "open", "init", "read"} => st[i].rem = None
         /\ st[i].pc \in Talking => /\ st[i].rem \in Threads /\ Named(i) = Conn(st[i].rem)
                                    /\ Named(i)[1] = "conn" /\ Named(i)[2] = st[i].rem
         /\ st[i].pc \notin {"none", "ended"} => Named(i) \in Objects
<1>1. /\ st[i].pc \in {"none", "open", "init", "read"} => st[i].rem = None
      /\ st[i].pc \in Talking => st[i].rem \in Threads /\ Named(i) = Conn(st[i].rem)
  BY DEF Peers
<1>2. st[i].pc \notin {"none", "ended"} => Named(i) \in Objects
  BY MainFacts DEF Basics, Stage, Named
<1> QED
  BY <1>1, <1>2, ObjectFacts

LEMMA OpenLink ==
  ASSUME Basics, Apart, Running, Peers, NEW i \in Threads, OpenDevice(i) \/ InitContext(i)
  PROVE  \E r : LinkMove(i, r)
<1>1. /\ st[i].pc \in {"open", "init"} /\ toC' = toC
  BY DEF OpenDevice, InitContext, wires
<1>2. st[i].rem = None /\ st[i].pc \notin Talking
  BY <1>1, PeerFacts DEF Talking
<1>3. CASE OpenDevice(i)
  <2> DEFINE r == [st[i] EXCEPT !.dev = Lowest, !.pc = "init"]
  <2>1. ThreadMove(i, r) /\ MoveApart(i, r)
    BY <1>3, OpenDeviceMove
  <2>2. r.pc = "init" /\ r.rem = None
    BY <1>2, MainFacts DEF ServerThreads
  <2> HIDE DEF r
  <2>3. LinkMove(i, r)
    BY <1>1, <1>2, <2>1, <2>2 DEF LinkMove, Talking
  <2> QED
    BY <2>3
<1>4. CASE InitContext(i)
  <2>1. PICK pc \in {"read", "failed"} : LET r == [st[i] EXCEPT !.pc = pc]
                                         IN  ThreadMove(i, r) /\ MoveApart(i, r)
    BY <1>4, InitContextMove
  <2> DEFINE r == [st[i] EXCEPT !.pc = pc]
  <2>2. ThreadMove(i, r) /\ MoveApart(i, r)
    BY <2>1
  <2>3. r.pc = pc /\ r.rem = None
    BY <1>2, MainFacts DEF ServerThreads
  <2> HIDE DEF r
  <2>4. LinkMove(i, r)
    BY <1>1, <1>2, <2>2, <2>3 DEF LinkMove, Talking
  <2> QED
    BY <2>4
<1> QED
  BY <1>3, <1>4

LEMMA ReadAddrLink ==
  ASSUME Basics, Apart, Running, Peers, NEW i \in Threads, ReadAddr(i)
  PROVE  \E r : LinkMove(i, r)
<1>1. st[i].pc = "read" /\ toC' = toC
  BY ReadAddrMove
<1>2. PICK r \in ServerThreads :
        /\ ThreadMove(i, r) /\ MoveApart(i, r)
        /\ \/ r.pc = "close1bad" /\ r.rem = st[i].rem
           \/ r.pc = "write" /\ Named(i)[1] = "conn" /\ r.rem = Named(i)[2]
  BY ReadAddrMove
<1>3. st[i].rem = None /\ st[i].pc \notin Talking /\ Named(i) \in Objects
  BY <1>1, PeerFacts DEF Talking
<1>4. CASE r.pc = "close1bad" /\ r.rem = st[i].rem
  <2>1. LinkMove(i, r)
    BY <1>1, <1>2, <1>3, <1>4 DEF LinkMove, Talking
  <2> QED
    BY <2>1
<1>5. CASE r.pc = "write" /\ Named(i)[1] = "conn" /\ r.rem = Named(i)[2]
  <2>1. r.rem \in Threads /\ Named(i) = Conn(r.rem) /\ r.rem # st[i].rem
    BY <1>3, <1>5, ConnNamed, Limits
  <2>2. LinkMove(i, r)
    BY <1>1, <1>2, <1>3, <1>5, <2>1 DEF LinkMove
  <2> QED
    BY <2>2
<1> QED
  BY <1>2, <1>4, <1>5

LEMMA WriteAddrLink ==
  ASSUME Basics, Apart, Running, Peers, NEW i \in Threads, WriteAddr(i)
  PROVE  \E r : LinkMove(i, r)
<1>1. st[i].pc = "write"
  BY WriteAddrMove
<1>2. PICK r \in ServerThreads :
        /\ ThreadMove(i, r) /\ MoveApart(i, r) /\ r.rem = st[i].rem
        /\ \/ r.pc = "close1bad" /\ Named(i)[1] # "conn" /\ toC' = toC
           \/ /\ r.pc = "readdone" /\ Named(i)[1] = "conn"
              /\ toC' = [toC EXCEPT ![Named(i)[2]] = i]
  BY WriteAddrMove
<1>3. st[i].pc \in Talking /\ st[i].rem \in Threads /\ Named(i)[1] = "conn" /\ Named(i)[2] = st[i].rem
  BY <1>1, PeerFacts DEF Talking
<1>4. r.pc = "readdone" /\ toC' = [toC EXCEPT ![r.rem] = i] /\ r.pc \in Talking
  BY <1>2, <1>3 DEF Talking
<1>5. LinkMove(i, r)
  BY <1>2, <1>3, <1>4 DEF LinkMove
<1> QED
  BY <1>5

LEMMA ReadDoneLink ==
  ASSUME Basics, Apart, Running, Peers, NEW i \in Threads, ReadDone(i)
  PROVE  \E r : LinkMove(i, r)
<1>1. st[i].pc = "readdone" /\ toC' = toC
  BY ReadDoneMove
<1>2. PICK r \in ServerThreads :
        ThreadMove(i, r) /\ MoveApart(i, r) /\ r.rem = st[i].rem /\ r.pc = "close1"
  BY ReadDoneMove
<1>3. LinkMove(i, r)
  BY <1>1, <1>2 DEF LinkMove, Talking
<1> QED
  BY <1>3

LEMMA CloseLink ==
  ASSUME Basics, Apart, Running, Peers, NEW i \in Threads,
         CloseFirst(i) \/ CloseSecond(i) \/ CloseDevice(i)
  PROVE  \E r : LinkMove(i, r)
<1>1. CASE CloseFirst(i)
  <2>1. /\ toC' = toC /\ fd' = [fd EXCEPT ![st[i].connfd] = Free] /\ st[i].connfd \in Fds
    BY <1>1, CloseFirstMove
  <2>2. PICK r \in ServerThreads :
          /\ ThreadMove(i, r) /\ MoveApart(i, r) /\ r.rem = st[i].rem
          /\ r.pc \in {"close2", "failed"}
    BY <1>1, CloseFirstMove
  <2>3. fd'[st[i].connfd] = Free
    BY <2>1, MainFacts
  <2>4. LinkMove(i, r)
    BY <2>1, <2>2, <2>3 DEF LinkMove, Talking
  <2> QED
    BY <2>4
<1>2. CASE CloseSecond(i)
  <2>1. st[i].pc = "close2" /\ toC' = toC
    BY <1>2, CloseSecondMove
  <2>2. PICK r \in ServerThreads :
          ThreadMove(i, r) /\ MoveApart(i, r) /\ r.rem = st[i].rem /\ r.pc = "measure"
    BY <1>2, CloseSecondMove
  <2>3. LinkMove(i, r)
    BY <2>1, <2>2 DEF LinkMove, Talking
  <2> QED
    BY <2>3
<1>3. CASE CloseDevice(i)
  <2>1. st[i].pc = "closectx" /\ toC' = toC
    BY <1>3, CloseDeviceMove
  <2>2. PICK r \in ServerThreads :
          /\ ThreadMove(i, r) /\ MoveApart(i, r) /\ r.rem = st[i].rem
          /\ r.pc \in {"ended", "failed"}
    BY <1>3, CloseDeviceMove
  <2>3. LinkMove(i, r)
    BY <2>1, <2>2 DEF LinkMove, Talking
  <2> QED
    BY <2>3
<1> QED
  BY <1>1, <1>2, <1>3

LEMMA ServerThreadLinks ==
  ASSUME Basics, Apart, Links, NEW i \in Threads, ServerThread(i), window' = window, Linked'
  PROVE  OnePlace' /\ Peers' /\ Answers'
<1>1. Running /\ UNCHANGED <<spc, sround, cpc, cround, ct>>
  BY DEF ServerThread, serverMain, clientMain
<1>2. ~window /\ cpc # "failed" /\ OnePlace /\ Peers /\ Answers
  BY <1>1 DEF Linked, Alive, Links
<1>3. ~ServerStray(i)
  BY <1>2 DEF ServerStray
<1>4. backlog' = backlog
  BY DEF ServerThread, OpenDevice, InitContext, ReadAddr, WriteAddr, ReadDone,
         CloseFirst, CloseSecond, CloseDevice, ServerStray, wires
<1>5. PICK r : LinkMove(i, r)
  <2>1. CASE OpenDevice(i) \/ InitContext(i)
    BY <1>1, <1>2, <2>1, OpenLink
  <2>2. CASE ReadAddr(i)
    BY <1>1, <1>2, <2>2, ReadAddrLink
  <2>3. CASE WriteAddr(i)
    BY <1>1, <1>2, <2>3, WriteAddrLink
  <2>4. CASE ReadDone(i)
    BY <1>1, <1>2, <2>4, ReadDoneLink
  <2>5. CASE CloseFirst(i) \/ CloseSecond(i) \/ CloseDevice(i)
    BY <1>1, <1>2, <2>5, CloseLink
  <2> QED
    BY <1>3, <2>1, <2>2, <2>3, <2>4, <2>5 DEF ServerThread
<1>6. \A k \in Threads : /\ ct[k].pc # "none" <=> ct'[k].pc # "none"
                         /\ ct'[k].rem = ct[k].rem
  BY <1>1
<1> QED
  BY <1>1, <1>2, <1>4, <1>5, <1>6, LinkMoveKeeps

LEMMA MeasureLinks ==
  ASSUME Basics, Apart, Links, NEW i \in Threads, NEW k \in Threads, Measure(i, k),
         window' = window, Linked'
  PROVE  OnePlace' /\ Peers' /\ Answers'
<1>1. /\ Running /\ st[i].pc = "measure" /\ Goto(i, "closectx")
      /\ ct[k].pc = "measure" /\ ct' = [ct EXCEPT ![k].pc = "closectx"]
      /\ UNCHANGED <<spc, sround, cpc, cround, fd, backlog, toC>>
  BY DEF Measure, CGoto, serverMain, clientMain, wires
<1>2. ~window /\ OnePlace /\ Peers /\ Answers
  BY <1>1 DEF Linked, Alive, Links
<1>3. PICK r \in ServerThreads :
        ThreadMove(i, r) /\ MoveApart(i, r) /\ r.rem = st[i].rem /\ r.pc = "closectx"
  BY <1>1, PlayMove
<1>4. LinkMove(i, r)
  BY <1>1, <1>3 DEF LinkMove, Talking
<1>5. ASSUME NEW l \in Threads
      PROVE  /\ ct[l].pc # "none" <=> ct'[l].pc # "none"
             /\ ct'[l].rem = ct[l].rem
  BY <1>1, ClientFacts DEF ClientThreads
<1> QED
  BY <1>1, <1>2, <1>4, <1>5, LinkMoveKeeps

(* The client.                                                             *)
LEMMA ClientThreadLinks ==
  ASSUME Basics, Apart, Links, NEW k \in Threads, ClientThread(k), window' = window, Linked'
  PROVE  OnePlace' /\ Peers' /\ Answers'
<1>1. UNCHANGED <<spc, sround, cpc, cround, st, fd, backlog>>
  BY ThreadStepsSame
<1>2. OnePlace /\ Peers /\ Answers
  BY <1>1 DEF Linked, Alive, Links
<1>3. PICK r : CMove(k, r)
  BY ClientThreadMove
<1>4. /\ ct'[k] = r /\ ct[k].pc # "none" /\ r.pc # "none"
      /\ \A l \in Threads : l # k => ct'[l] = ct[l]
      /\ \/ toC' = toC /\ r.rem = ct[k].rem
         \/ toC' = [toC EXCEPT ![k] = None] /\ r.rem = toC[k]
  BY <1>3, ClientFacts DEF CMove
<1>5. \A l \in Threads : ct[l].pc # "none" => ct'[l].pc # "none"
  BY <1>4
<1>6. OnePlace'
  BY <1>1, <1>2, <1>5, KeepOnePlace
<1>7. Peers'
  BY <1>1, <1>2, KeepPeers DEF Basics
<1>8. ASSUME NEW l \in Threads, ct'[l].pc # "none", toC'[l] \in Threads
      PROVE  ct[l].pc # "none" /\ toC'[l] = toC[l]
  <2>1. toC'[l] = toC[l] \/ toC'[l] = None
    BY <1>4 DEF Basics, WireTypes
  <2> QED
    BY <1>4, <1>8, <2>1, Limits
<1>9. \A l \in Threads : ct'[l].rem \in Threads =>
                           \/ ct'[l].rem = ct[l].rem
                           \/ ct[l].pc # "none" /\ ct'[l].rem = toC[l]
  BY <1>4
<1>10. Answers'
  BY <1>1, <1>2, <1>8, <1>9, KeepAnswers
<1> QED
  BY <1>6, <1>7, <1>10

LEMMA ConnectLinks ==
  ASSUME Basics, InStep, OnePlace, Peers, Answers, Connect
  PROVE  OnePlace' /\ Peers' /\ Answers'
<1> DEFINE r == [CFresh EXCEPT !.pc = "write"]
<1>1. /\ cpc = "connect" /\ cpc' = cpc /\ ci < cround[2]
      /\ backlog' = Append(backlog, ci) /\ toC' = [toC EXCEPT ![ci] = None]
      /\ ct' = [ct EXCEPT ![ci] = r] /\ UNCHANGED <<fd, st>>
  BY DEF Connect
<1>2. ci \in Threads
  BY <1>1, ClientFacts, Limits DEF Threads
<1>3. r.pc = "write" /\ r.rem = None
  BY DEF CFresh
<1> HIDE DEF r
<1>4. /\ ct'[ci] = r /\ \A k \in Threads : k # ci => ct'[k] = ct[k] /\ toC'[k] = toC[k]
      /\ toC'[ci] = None
  BY <1>1, <1>2, ClientFacts DEF Basics, WireTypes
<1>5. ~Seen(ci)
  <2>1. ct[ci].pc = "none"
    <3>1. ci >= ci
      BY <1>2, Limits
    <3> QED
      BY <1>1, <1>2, <3>1 DEF InStep, CFresh
  <2> QED
    BY <1>1, <1>2, <2>1 DEF OnePlace
<1>6. backlog \in Seq(Threads)
  BY DEF Basics, WireTypes
<1>7. /\ Len(backlog') = Len(backlog) + 1 /\ backlog'[Len(backlog) + 1] = ci
      /\ \A a \in 1..Len(backlog) : backlog'[a] = backlog[a]
  BY <1>1, <1>2, <1>6
<1>8. ASSUME NEW k \in Threads, InBacklog(k)' PROVE InBacklog(k) \/ k = ci
  <2>1. PICK a \in 1..Len(backlog') : backlog'[a] = k
    BY <1>8 DEF InBacklog
  <2>2. a \in 1..Len(backlog) \/ a = Len(backlog) + 1
    BY <1>6, <1>7, <2>1
  <2> QED
    BY <1>7, <2>1, <2>2 DEF InBacklog
<1>9. OnePlace'
  <2>1. \A k \in Threads : \A f, g \in Fds : fd'[f] = Conn(k) /\ fd'[g] = Conn(k) => f = g
    BY <1>1 DEF OnePlace
  <2>2. ASSUME NEW a \in 1..Len(backlog'), NEW b \in 1..Len(backlog'), backlog'[a] = backlog'[b]
        PROVE  a = b
    <3>1. \A c \in 1..Len(backlog) : backlog'[c] # ci
      BY <1>5, <1>7 DEF Seen, InBacklog
    <3>2. \A c \in 1..Len(backlog') : c \in 1..Len(backlog) \/ c = Len(backlog) + 1
      BY <1>6, <1>7
    <3> QED
      BY <1>7, <2>2, <3>1, <3>2 DEF OnePlace
  <2>3. \A k \in Threads : InTable(k)' <=> InTable(k)
    BY <1>1 DEF InTable
  <2>4. \A k \in Threads : InBacklog(k)' => ~InTable(k)' /\ \A j \in Threads : st'[j].rem # k
    BY <1>1, <1>5, <1>8, <2>3 DEF OnePlace, Seen
  <2>5. \A k \in Threads : Seen(k)' => Seen(k) \/ k = ci
    BY <1>1, <1>8, <2>3 DEF Seen
  <2>6. \A k \in Threads : Seen(k)' => ct'[k].pc # "none"
    <3>1. \A k \in Threads : Seen(k) => ct[k].pc # "none"
      BY <1>1 DEF OnePlace
    <3> QED
      BY <1>3, <1>4, <2>5, <3>1
  <2> QED
    BY <2>1, <2>2, <2>4, <2>6 DEF OnePlace
<1>10. Peers'
  BY <1>1, KeepPeers DEF Basics
<1>11. \A k \in Threads : /\ ct'[k].pc # "none" /\ toC'[k] \in Threads =>
                               ct[k].pc # "none" /\ toC'[k] = toC[k]
                          /\ ct'[k].rem \in Threads => ct'[k].rem = ct[k].rem
  BY <1>3, <1>4, Limits
<1>12. Answers'
  BY <1>1, <1>11, KeepAnswers
<1> QED
  BY <1>9, <1>10, <1>12

LEMMA ClientRoundLinks ==
  ASSUME Basics, InStep, Links, ClientRound, window' = window, Linked'
  PROVE  OnePlace' /\ Peers' /\ Answers'
<1>1. /\ cpc = "join" /\ \A k \in Threads : ct'[k] = CFresh
      /\ \/ cpc' = "connect" /\ cround' = Following(cround)
         \/ cpc' = "finished" /\ cround' = cround
      /\ UNCHANGED <<spc, sround, si, fd, st, backlog>>
  BY DEF ClientRound, serverMain, wires
<1>2. Alive /\ ~window
  BY <1>1 DEF Linked, Alive
<1>3. CASE cpc' = "connect" /\ cround' = Following(cround)
  <2>1. sround = Following(cround)
    BY <1>1, <1>3 DEF Linked
  <2>2. spc \in {"listen", "accept"} /\ si = 0 /\ backlog = <<>>
    BY <1>1, <1>2, <2>1, RoundTypes DEF InStep
  <2>3. \A i \in Threads : st[i] = Fresh
    <3>1. \A i \in Threads : i >= 0
      BY Limits
    <3> QED
      BY <2>2, <3>1 DEF Basics, Stage
  <2>4. \A f \in Fds, k \in Threads : fd[f] # Conn(k)
    <3>1. \A i \in Threads : st[i].pc \notin Owning
      BY <2>3 DEF Fresh, Owning
    <3> QED
      BY <3>1 DEF Basics, Table
  <2> QED
    BY <1>1, <2>2, <2>3, <2>4, RoundBegins
<1>4. CASE cpc' = "finished" /\ cround' = cround
  <2>1. OnePlace /\ Peers
    BY <1>1, <1>2, <1>4 DEF Linked, Links
  <2>2. OnePlace'
    <3>1. \A k \in Threads : InTable(k)' = InTable(k) /\ InBacklog(k)' = InBacklog(k)
      BY <1>1 DEF InTable, InBacklog
    <3> QED
      BY <1>1, <1>4, <2>1, <3>1 DEF OnePlace
  <2>3. Peers'
    BY <1>1, <2>1, KeepPeers DEF Basics
  <2>4. Answers'
    BY <1>1, Limits DEF Answers, CFresh
  <2> QED
    BY <2>2, <2>3, <2>4
<1> QED
  BY <1>1, <1>3, <1>4

LEMMA ClientMainLinks ==
  ASSUME Basics, InStep, Links, ClientMain, window' = window, Linked'
  PROVE  OnePlace' /\ Peers' /\ Answers'
<1>1. CASE ClientRound
  BY <1>1, ClientRoundLinks
<1>2. CASE ~ClientRound
  <2>1. /\ UNCHANGED <<spc, sround, cround, fd, st>> /\ cpc # "failed"
        /\ cpc' # "finished" => cpc # "finished"
    BY <1>2 DEF ClientMain, ClientSkip, Connect, ConnectFails, ClientFails, ClientStarted,
           ClientJoin, ClientCrash, serverMain
  <2>2. OnePlace /\ Peers /\ Answers
    BY <2>1 DEF Linked, Alive, Links
  <2>3. CASE Connect
    BY <2>2, <2>3, ConnectLinks
  <2>4. CASE ~Connect
    <3>1. UNCHANGED <<ct, backlog, toC>>
      BY <1>2, <2>4 DEF ClientMain, ClientSkip, ConnectFails, ClientFails, ClientStarted,
             ClientJoin, ClientCrash, wires
    <3>2. OnePlace'
      BY <2>1, <2>2, <3>1, KeepOnePlace
    <3>3. Peers'
      BY <2>1, <2>2, KeepPeers DEF Basics
    <3>4. Answers'
      BY <2>1, <2>2, <3>1, KeepAnswers
    <3> QED
      BY <3>2, <3>3, <3>4
  <2> QED
    BY <2>3, <2>4
<1> QED
  BY <1>1, <1>2

LEMMA StepLinks ==
  ASSUME Basics, Apart, InStep, Links, [Next]_vars PROVE Links'
<1> SUFFICES ASSUME Linked' PROVE OnePlace' /\ Peers' /\ Answers'
  BY DEF Links
<1>1. CASE UNCHANGED vars
  <2>1. UNCHANGED <<spc, sround, cpc, cround, window, fd, st, ct, backlog, toC>>
    BY <1>1 DEF vars, serverMain, clientMain, wires
  <2>2. OnePlace /\ Peers /\ Answers
    BY <2>1 DEF Links, Linked, Alive
  <2> QED
    BY <2>1, <2>2, MainKeepsLinks
<1>2. CASE window' = window /\ ServerMain
  BY <1>2, ServerMainLinks
<1>3. CASE window' = window /\ ClientMain
  BY <1>3, ClientMainLinks
<1>4. ASSUME NEW i \in Threads, window' = window, ServerThread(i)
      PROVE  OnePlace' /\ Peers' /\ Answers'
  BY <1>4, ServerThreadLinks
<1>5. ASSUME NEW i \in Threads, window' = window, ClientThread(i)
      PROVE  OnePlace' /\ Peers' /\ Answers'
  BY <1>5, ClientThreadLinks
<1>6. ASSUME NEW i \in Threads, NEW k \in Threads, window' = window, Measure(i, k)
      PROVE  OnePlace' /\ Peers' /\ Answers'
  BY <1>6, MeasureLinks
<1> QED
  BY <1>1, <1>2, <1>3, <1>4, <1>5, <1>6, Steps

-----------------------------------------------------------------------------
(* The theorems.                                                           *)

LEMMA InitRounds ==
  ASSUME Init PROVE InStep /\ Shares
<1>1. /\ cround = sround /\ sround = First /\ cround = First
      /\ spc = "listen" /\ cpc = "connect" /\ ci = 0 /\ backlog = <<>>
      /\ \A i \in Threads : st[i].pc = "none" /\ ct[i] = CFresh /\ ct[i].pc = "none"
  BY DEF Init, Fresh, CFresh
<1>2. InStep
  BY <1>1 DEF InStep
<1>3. Shares
  BY <1>1, BinaryFirst DEF Shares
<1> QED
  BY <1>2, <1>3

(* The invariant holds in every state: at the start the table is empty and *)
(* no thread runs, and every step of main, of a thread or of a pair of     *)
(* threads keeps the four layers of it.                                    *)
THEOREM Invariance == Spec => []IInv
<1>1. Init => IInv
  BY InitLayers, InitRounds, InitLinks DEF IInv
<1>2. IInv /\ [Next]_vars => IInv'
  BY StepLayers, StepRounds, StepLinks DEF IInv
<1> QED
  BY <1>1, <1>2, PTL DEF Spec

(* Every variable keeps to its type: in particular the lowest free         *)
(* descriptor always exists, however many threads there are and whatever   *)
(* fails, and the loops of both programs stay within their arrays.         *)
THEOREM TypeCorrect == Spec => []TypeOK
<1>1. ASSUME IInv PROVE TypeOK
  <2>1. ServerTypes /\ ClientTypes /\ WireTypes
    BY <1>1 DEF IInv, Basics
  <2>2. \A j \in 1..Len(backlog) : backlog[j] \in Threads
    BY <2>1 DEF WireTypes
  <2> QED
    BY <2>1, <2>2 DEF TypeOK, ServerTypes, ClientTypes, WireTypes, ServerThreads, ClientThreads
<1> QED
  BY <1>1, Invariance, PTL

(* Who exchanged addresses agrees on it and splits the message the same    *)
(* way, for every number of threads: in a round a connection is in one     *)
(* place, so it has one reader, and the answer on it is of that reader;    *)
(* the shares agree because sizes and numbers of threads double.           *)
THEOREM ThreadsPair == Spec => []Pairs
<1>1. ASSUME IInv PROVE Pairs
  <2> SUFFICES ASSUME Running, ~window, cround = sround, cpc # "failed"
               PROVE  /\ \A k \in Threads : ct[k].rem # None =>
                           /\ st[ct[k].rem].rem = k
                           /\ SizePerPeer(sround, ct[k].rem) = SizePerPeer(cround, k)
                      /\ \A i, j \in Threads :
                           i # j /\ st[i].rem # None => st[i].rem # st[j].rem
    BY DEF Pairs
  <2>1. Peers /\ Answers /\ Basics /\ Shares
    BY <1>1 DEF IInv, Links, Linked, Alive, Running
  <2>2. ASSUME NEW k \in Threads, ct[k].rem # None
        PROVE  /\ st[ct[k].rem].rem = k
               /\ SizePerPeer(sround, ct[k].rem) = SizePerPeer(cround, k)
    <3> DEFINE i == ct[k].rem
    <3>1. i \in Threads
      BY <2>1, <2>2, ClientFacts DEF ClientThreads
    <3>2. st[i].rem = k
      BY <2>1, <3>1 DEF Answers
    <3>3. st[i].pc # "none"
      BY <2>1, <3>1, <3>2, Limits DEF Peers
    <3>4. ct[k] # CFresh
      BY <2>2 DEF CFresh
    <3> QED
      BY <2>1, <3>1, <3>2, <3>3, <3>4, MainFacts, SameShare DEF Shares
  <2>3. ASSUME NEW i \in Threads, NEW j \in Threads, i # j, st[i].rem # None
        PROVE  st[i].rem # st[j].rem
    <3>1. st[i].rem \in Threads
      BY <2>1, <2>3, MainFacts DEF ServerThreads
    <3> QED
      BY <2>1, <2>3, <3>1 DEF Peers
  <2> QED
    BY <2>2, <2>3
<1> QED
  BY <1>1, Invariance, PTL

(* Nobody closes what another thread has open, and a round gives back all  *)
(* that it opened, for every number of threads.                            *)
THEOREM DescriptorsStay == Spec => []DescriptorsKept
<1>1. ASSUME IInv PROVE DescriptorsKept
  <2>1. Basics /\ Apart
    BY <1>1 DEF IInv
  <2>2. ASSUME Running, ~window
        PROVE  /\ \A i \in Exchanging : Named(i)[1] = "conn"
               /\ \A i, j \in Exchanging : i # j => st[i].connfd # st[j].connfd
               /\ \A i \in WithDevice : HasDevice(i)
    <3>1. \A i \in Exchanging : i \in Threads /\ st[i].pc \in Holding
      BY DEF Exchanging, Holding
    <3>2. \A i \in WithDevice : i \in Threads /\ st[i].pc \in Using
      BY DEF WithDevice, Using, Equipped
    <3> QED
      BY <2>1, <2>2, <3>1, <3>2, ObjectFacts DEF Apart
  <2>3. ASSUME spc \in {"listen", "finished"} PROVE \A f \in Fds : fd[f] = Free
    <3>1. \A i \in Threads : st[i].pc \in {"none", "ended"}
      BY <2>1, <2>3 DEF Basics, Stage, Fresh
    <3> QED
      BY <2>1, <2>3, <3>1, NothingLeft
  <2> QED
    BY <2>2, <2>3 DEF DescriptorsKept, OwnDescriptors, NoLeak
<1> QED
  BY <1>1, Invariance, PTL


=============================================================================
