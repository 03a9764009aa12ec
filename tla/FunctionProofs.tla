--------------------------- MODULE FunctionProofs ---------------------------
(***************************************************************************)
(* Theorems about what the code computes rather than about its steps: how  *)
(* the buffer is split, how results are stored and read back, what becomes *)
(* of a GID and an MTU, and in which order resources are made and given    *)
(* back; at the end those about EchoFlow, where bytes are counted.  None   *)
(* of them is about a bounded instance.                                    *)
(***************************************************************************)
EXTENDS Partition, Results, WireForm, Resources, EchoFlow, TLAPS

-----------------------------------------------------------------------------
(* The parts of the buffer (module Partition).                             *)

(* The quotient and what it leaves over.                                   *)
LEMMA Division ==
  ASSUME NEW size \in Nat, NEW n \in Nat \ {0}
  PROVE  /\ size \div n \in Nat /\ size % n \in 0..(n - 1)
         /\ size = n * (size \div n) + (size % n)
OBVIOUS

(* The sizes of queue pair 0 and of the others, without the division.      *)
LEMMA Sizes ==
  ASSUME NEW size \in Nat, NEW n \in Nat \ {0}
  PROVE  /\ SizePerPeer(size, n) \in Nat
         /\ SizePerQP(size, n, 0) = SizePerPeer(size, n) + (size % n)
         /\ \A i \in 1..(n - 1) : SizePerQP(size, n, i) = SizePerPeer(size, n)
<1>1. size \div n \in Nat /\ size % n \in 0..(n - 1) /\ size = n * (size \div n) + (size % n)
  BY Division
<1> DEFINE q == size \div n
<1>2. q * (n - 1) = n * q - q
  <2> HIDE DEF q
  <2>1. q \in Nat
    BY <1>1 DEF q
  <2> QED
    BY <2>1
<1>3. SizePerPeer(size, n) = q
  BY DEF SizePerPeer
<1>4. SizePerQP(size, n, 0) = size - q * (n - 1)
  BY DEF SizePerQP, SizePerPeer
<1>5. \A i \in 1..(n - 1) : SizePerQP(size, n, i) = q
  BY DEF SizePerQP, SizePerPeer
<1>6. size - (n * q - q) = q + (size % n)
  <2>1. n * q \in Nat
    BY <1>1
  <2> HIDE DEF q
  <2> QED
    BY <1>1, <2>1 DEF q
<1> QED
  BY <1>1, <1>2, <1>3, <1>4, <1>5, <1>6

(* The sizes of line 374 to 379 add up to the message: the remainder is    *)
(* given to queue pair 0 and to no other.                                  *)
THEOREM PartsAddUp ==
  ASSUME NEW size \in Nat, NEW n \in Nat \ {0}
  PROVE  SizePerQP(size, n, 0) + (n - 1) * SizePerPeer(size, n) = size
<1>1. SizePerPeer(size, n) \in Nat
  BY Sizes
<1>2. (n - 1) * SizePerPeer(size, n) = SizePerPeer(size, n) * (n - 1)
  BY <1>1
<1>3. SizePerPeer(size, n) * (n - 1) \in Int
  BY <1>1
<1> QED
  BY <1>2, <1>3 DEF SizePerQP

(* No queue pair reaches past the buffer of size bytes (lines 514 and 538),*)
(* which is all that is registered (line 414).                             *)
THEOREM WithinBuffer ==
  ASSUME NEW size \in Nat, NEW n \in Nat \ {0}, NEW i \in 0..(n - 1)
  PROVE  Bytes(size, n, i) \subseteq 0..(size - 1)
<1> DEFINE q == SizePerPeer(size, n)
<1>1. q \in Nat /\ size % n \in Nat /\ size = n * q + (size % n)
  BY Division, Sizes DEF SizePerPeer
<1>2. CASE i = 0
  <2>1. SizePerQP(size, n, 0) \in Int /\ SizePerQP(size, n, 0) = q + (size % n)
    BY <1>1, Sizes
  <2>2. q + (size % n) <= size
    <3>1. q <= n * q
      BY <1>1, Z3
    <3> QED
      BY <1>1, <3>1
  <2>3. BufOffset(size, n, 0) = 0
    BY <2>1 DEF BufOffset
  <2> QED
    BY <1>1, <1>2, <2>1, <2>2, <2>3 DEF Bytes
<1>3. CASE i \in 1..(n - 1)
  <2>1. SizePerQP(size, n, i) = q
    BY <1>3, Sizes
  <2>2. q * i \in Nat /\ q * i + q <= n * q
    <3> HIDE DEF q
    <3>1. q * i + q = q * (i + 1)
      BY <1>1
    <3>2. n - (i + 1) \in Nat /\ n = (i + 1) + (n - (i + 1))
      BY <1>3
    <3>3. n * q = q * (i + 1) + q * (n - (i + 1))
      BY <1>1, <3>2
    <3>4. q * (n - (i + 1)) \in Nat /\ q * i \in Nat
      BY <1>1, <3>2
    <3> QED
      BY <1>1, <3>1, <3>3, <3>4
  <2> QED
    BY <1>1, <2>1, <2>2 DEF Bytes, BufOffset
<1> QED
  BY <1>2, <1>3

(* No two queue pairs share a byte when the number of queue pairs divides  *)
(* the size (lines 514 and 538).                                           *)
THEOREM Separate ==
  ASSUME NEW size \in Nat, NEW n \in Nat \ {0}, size % n = 0,
         NEW i \in 0..(n - 1), NEW j \in 0..(n - 1), i < j
  PROVE  Bytes(size, n, i) \cap Bytes(size, n, j) = {}
<1> DEFINE q == SizePerPeer(size, n)
<1>1. q \in Nat
  BY Sizes
<1>2. SizePerQP(size, n, i) = q /\ SizePerQP(size, n, j) = q
  BY <1>1, Sizes
<1>3. q * i \in Nat /\ q * j \in Nat /\ q * i + q <= q * j
  <2> HIDE DEF q
  <2>1. j - (i + 1) \in Nat /\ j = (i + 1) + (j - (i + 1))
    OBVIOUS
  <2>2. q * j = q * i + q + q * (j - (i + 1))
    BY <1>1, <2>1
  <2>3. q * (j - (i + 1)) \in Nat /\ q * i \in Nat /\ q * j \in Nat
    BY <1>1, <2>1
  <2> QED
    BY <1>1, <2>2, <2>3
<1> QED
  BY <1>1, <1>2, <1>3 DEF Bytes, BufOffset

(* When it does not, the offset of queue pair 1 is its own size and not    *)
(* that of queue pair 0: the last bytes of queue pair 0 are the first of   *)
(* queue pair 1, unless the message is so short that only queue pair 0 has *)
(* any (lines 379 and 514).                                                *)
THEOREM Overlap ==
  ASSUME NEW size \in Nat, NEW n \in Nat \ {0, 1}, size % n # 0, SizePerPeer(size, n) # 0
  PROVE  SizePerPeer(size, n) \in Bytes(size, n, 0) \cap Bytes(size, n, 1)
<1> DEFINE q == SizePerPeer(size, n)
<1>1. q \in Nat /\ size % n \in 1..(n - 1)
  BY Division, Sizes
<1>2. SizePerQP(size, n, 0) = q + (size % n) /\ SizePerQP(size, n, 1) = q
  BY Sizes
<1>3. BufOffset(size, n, 0) = 0 /\ BufOffset(size, n, 1) = q
  BY <1>1, <1>2 DEF BufOffset
<1> QED
  BY <1>1, <1>2, <1>3 DEF Bytes

-----------------------------------------------------------------------------
(* The arrays of results (module Results).                                 *)

(* A round that is saved within the array is read back as it was saved,    *)
(* and leaves the rows of all other rounds as they were (MetricsIBV.c:41,  *)
(* 69-83).                                                                 *)
THEOREM SavedRowsStay ==
  ASSUME NEW length \in Nat, NEW Figures,
         NEW results \in [0..(length - 1) -> Figures],
         NEW round \in [0..(Fields - 1) -> Figures],
         NEW i \in Nat, NEW j \in Nat, i # j,
         Fields * i + Fields <= length, Fields * j + Fields <= length
  PROVE  /\ Save(results, Fields * i, round) \in [0..(length - 1) -> Figures]
         /\ Row(Save(results, Fields * i, round), Fields * i) = round
         /\ Row(Save(results, Fields * i, round), Fields * j) = Row(results, Fields * j)
<1> DEFINE new == Save(results, Fields * i, round)
<1>1. \A x \in 0..(length - 1) :
        new[x] = IF x \in (6 * i)..(6 * i + 5) THEN round[x - 6 * i] ELSE results[x]
  BY DEF Save, Fields
<1>2. new \in [0..(length - 1) -> Figures]
  <2>1. \A x \in (6 * i)..(6 * i + 5) : x - 6 * i \in 0..5
    OBVIOUS
  <2> QED
    BY <2>1 DEF Save, Fields
<1>3. Row(new, Fields * i) = round
  <2>1. \A f \in 0..5 : 6 * i + f \in 0..(length - 1) /\ 6 * i + f \in (6 * i)..(6 * i + 5)
    BY DEF Fields
  <2>2. \A f \in 0..5 : (6 * i + f) - 6 * i = f
    OBVIOUS
  <2>3. \A f \in 0..5 : new[6 * i + f] = round[f]
    BY <1>1, <2>1, <2>2
  <2> HIDE DEF new
  <2> QED
    BY <2>3 DEF Row, Fields
<1>4. Row(new, Fields * j) = Row(results, Fields * j)
  <2>1. \A f \in 0..5 : 6 * j + f \in 0..(length - 1) /\ 6 * j + f \notin (6 * i)..(6 * i + 5)
    BY DEF Fields
  <2>2. \A f \in 0..5 : new[6 * j + f] = results[6 * j + f]
    BY <1>1, <2>1
  <2> HIDE DEF new
  <2> QED
    BY <2>2 DEF Row, Fields
<1> QED
  BY <1>2, <1>3, <1>4

(* The rows read back stay within an array of n entries exactly when n is  *)
(* a multiple of six (MetricsIBV.c:69 and Metrics.cpp:35).                 *)
THEOREM ReadsWithin ==
  ASSUME NEW n \in Nat
  PROVE  CellsRead(n) \subseteq 0..(n - 1) <=> n % Fields = 0
<1>1. ASSUME n % 6 = 0, NEW x \in RowStarts(n)
      PROVE  x..(x + 5) \subseteq 0..(n - 1)
  <2>1. x \in 0..(n - 1) /\ x % 6 = 0
    BY DEF RowStarts, Fields
  <2>2. x + 6 <= n
    BY <1>1, <2>1
  <2> QED
    BY <2>1, <2>2
<1>2. ASSUME n % 6 # 0
      PROVE  \E x \in RowStarts(n) : ~(x..(x + 5) \subseteq 0..(n - 1))
  <2> DEFINE last == n - (n % 6)
  <2>1. last \in 0..(n - 1) /\ last % 6 = 0 /\ last + 5 >= n
    BY <1>2
  <2>2. last \in RowStarts(n)
    BY <2>1 DEF RowStarts, Fields
  <2>3. last + 5 \in last..(last + 5) /\ last + 5 \notin 0..(n - 1)
    BY <2>1
  <2> HIDE DEF last
  <2> QED
    BY <2>2, <2>3
<1> QED
  BY <1>1, <1>2 DEF CellsRead, Fields

(* Of the four lengths in use those of multithreadIB.c:1040 and            *)
(* MultiStreamTcpClient.cpp:112 are read past their end, and those of      *)
(* multistreamTestRunner.c:975 and MultiThreadTcpClient.cpp:117 are not.   *)
THEOREM LengthsInUse ==
  /\ CellsRead(3000) \subseteq 0..(3000 - 1)
  /\ CellsRead(ResultSize) \subseteq 0..(ResultSize - 1)
  /\ ~(CellsRead(1000) \subseteq 0..(1000 - 1))
  /\ ~(CellsRead(5000) \subseteq 0..(5000 - 1))
<1>1. 3000 % Fields = 0 /\ ResultSize % Fields = 0 /\ 1000 % Fields # 0 /\ 5000 % Fields # 0
  BY DEF Fields, ResultSize, Rounds
<1> DEFINE Within(n) == CellsRead(n) \subseteq 0..(n - 1)
<1>2. \A n \in Nat : Within(n) <=> n % Fields = 0
  BY ReadsWithin
<1>3. 3000 \in Nat /\ ResultSize \in Nat /\ 1000 \in Nat /\ 5000 \in Nat
  BY SMT DEF Fields, ResultSize, Rounds
<1>4. Within(3000) /\ Within(ResultSize) /\ ~Within(1000) /\ ~Within(5000)
  <2> HIDE DEF Within
  <2> QED
    BY <1>1, <1>2, <1>3, SMT
<1> QED
  BY <1>4

(* The rounds of the sizes with m numbers of queue pairs or threads fit    *)
(* into the array up to m = 23 for multistreamTestRunner.c:894, m = 7 for  *)
(* multithreadIB.c:915 and m = 39 for MultiStreamTcpClient.cpp:30, and the *)
(* ten queue pairs, eight threads (m = 4) and sockets of the README do.    *)
THEOREM RoundsFit ==
  ASSUME NEW m \in Nat
  PROVE  /\ Fields * (Rounds * m) <= 3000 <=> m <= 23
         /\ Fields * (Rounds * m) <= 1000 <=> m <= 7
         /\ Fields * (Rounds * m) <= 5000 <=> m <= 39
         /\ Fields * (Rounds * m) <= ResultSize <=> m <= 4
BY DEF Fields, Rounds, ResultSize

-----------------------------------------------------------------------------
(* GID and MTU (module WireForm).                                          *)

(* ntohl gives back the bytes that htonl took.                             *)
LEMMA BytesRoundTrip ==
  ASSUME NEW a \in Byte, NEW b \in Byte, NEW c \in Byte, NEW d \in Byte
  PROVE  /\ ntohl(htonl(a, b, c, d), 0) = a
         /\ ntohl(htonl(a, b, c, d), 1) = b
         /\ ntohl(htonl(a, b, c, d), 2) = c
         /\ ntohl(htonl(a, b, c, d), 3) = d
<1> DEFINE word == htonl(a, b, c, d)
<1>1. word \div 256 = 256 * (256 * a + b) + c /\ word % 256 = d
  BY SMT DEF Byte, htonl
<1>2. (word \div 256) \div 256 = 256 * a + b /\ (word \div 256) % 256 = c
  BY <1>1, SMT DEF Byte
<1>3. ((word \div 256) \div 256) \div 256 = a /\ ((word \div 256) \div 256) % 256 = b
  BY <1>2, SMT DEF Byte
<1> HIDE DEF word
<1>4. ntohl(word, 0) = a /\ ntohl(word, 1) = b /\ ntohl(word, 2) = c /\ ntohl(word, 3) = d
  BY <1>1, <1>2, <1>3, SMT DEF ntohl
<1> QED
  BY <1>4 DEF word

(* Eight digits give the word back they were printed from.                 *)
LEMMA HexRoundTrip ==
  ASSUME NEW a \in Byte, NEW b \in Byte, NEW c \in Byte, NEW d \in Byte
  PROVE  /\ \A x \in 0..7 : HexDigit(htonl(a, b, c, d), x) \in Digit
         /\ htonl(16 * HexDigit(htonl(a, b, c, d), 0) + HexDigit(htonl(a, b, c, d), 1),
                  16 * HexDigit(htonl(a, b, c, d), 2) + HexDigit(htonl(a, b, c, d), 3),
                  16 * HexDigit(htonl(a, b, c, d), 4) + HexDigit(htonl(a, b, c, d), 5),
                  16 * HexDigit(htonl(a, b, c, d), 6) + HexDigit(htonl(a, b, c, d), 7))
              = htonl(a, b, c, d)
<1> DEFINE word == htonl(a, b, c, d)
<1>1. ntohl(word, 0) = a /\ ntohl(word, 1) = b /\ ntohl(word, 2) = c /\ ntohl(word, 3) = d
  BY BytesRoundTrip
<1> HIDE DEF word
<1>2. /\ HexDigit(word, 0) = a \div 16 /\ HexDigit(word, 1) = a % 16
      /\ HexDigit(word, 2) = b \div 16 /\ HexDigit(word, 3) = b % 16
      /\ HexDigit(word, 4) = c \div 16 /\ HexDigit(word, 5) = c % 16
      /\ HexDigit(word, 6) = d \div 16 /\ HexDigit(word, 7) = d % 16
  <2>1. /\ 0 \div 2 = 0 /\ 1 \div 2 = 0 /\ 2 \div 2 = 1 /\ 3 \div 2 = 1
        /\ 4 \div 2 = 2 /\ 5 \div 2 = 2 /\ 6 \div 2 = 3 /\ 7 \div 2 = 3
    BY SMT
  <2>2. /\ 0 % 2 = 0 /\ 1 % 2 # 0 /\ 2 % 2 = 0 /\ 3 % 2 # 0
        /\ 4 % 2 = 0 /\ 5 % 2 # 0 /\ 6 % 2 = 0 /\ 7 % 2 # 0
    BY SMT
  <2> QED
    BY <1>1, <2>1, <2>2, SMT DEF HexDigit
<1>3. \A v \in Byte : v \div 16 \in Digit /\ v % 16 \in Digit /\ 16 * (v \div 16) + (v % 16) = v
  BY SMT DEF Byte, Digit
<1>4. \A x \in 0..7 : HexDigit(word, x) \in Digit
  <2> SUFFICES ASSUME NEW x \in 0..7 PROVE HexDigit(word, x) \in Digit
    OBVIOUS
  <2>1. x = 0 \/ x = 1 \/ x = 2 \/ x = 3 \/ x = 4 \/ x = 5 \/ x = 6 \/ x = 7
    BY SMT
  <2> QED
    BY <1>2, <1>3, <2>1
<1>5. /\ 16 * HexDigit(word, 0) + HexDigit(word, 1) = a
      /\ 16 * HexDigit(word, 2) + HexDigit(word, 3) = b
      /\ 16 * HexDigit(word, 4) + HexDigit(word, 5) = c
      /\ 16 * HexDigit(word, 6) + HexDigit(word, 7) = d
  BY <1>2, <1>3
<1> QED
  BY <1>4, <1>5 DEF word

(* A GID arrives as it was sent (Original/pingpong.c:67-86).               *)
THEOREM GidRoundTrip ==
  ASSUME NEW gid \in Gid
  PROVE  /\ gid_to_wire_gid(gid) \in Wire
         /\ wire_gid_to_gid(gid_to_wire_gid(gid)) = gid
<1> DEFINE wgid == gid_to_wire_gid(gid)
           word(i) == htonl(gid[4 * i], gid[4 * i + 1], gid[4 * i + 2], gid[4 * i + 3])
<1>1. \A i \in 0..3 : /\ gid[4 * i] \in Byte /\ gid[4 * i + 1] \in Byte
                      /\ gid[4 * i + 2] \in Byte /\ gid[4 * i + 3] \in Byte
  BY DEF Gid
<1>2. \A i \in 0..3, x \in 0..7 : wgid[8 * i + x] = HexDigit(word(i), x)
  <2> SUFFICES ASSUME NEW i \in 0..3, NEW x \in 0..7
               PROVE  wgid[8 * i + x] = HexDigit(word(i), x)
    OBVIOUS
  <2>1. 8 * i + x \in 0..31 /\ (8 * i + x) \div 8 = i /\ (8 * i + x) % 8 = x
    BY SMT
  <2> QED
    BY <2>1 DEF gid_to_wire_gid
<1>3. wgid \in Wire
  <2>1. \A d \in 0..31 : d \div 8 \in 0..3 /\ d % 8 \in 0..7
    BY SMT
  <2>2. \A d \in 0..31 : HexDigit(word(d \div 8), d % 8) \in Digit
    BY <1>1, <2>1, HexRoundTrip
  <2> QED
    BY <2>2 DEF gid_to_wire_gid, Wire
<1>4. \A i \in 0..3 : HexValue(wgid, 8 * i) = word(i)
  <2> SUFFICES ASSUME NEW i \in 0..3 PROVE HexValue(wgid, 8 * i) = word(i)
    OBVIOUS
  <2>1. /\ wgid[8 * i] = HexDigit(word(i), 0) /\ wgid[8 * i + 1] = HexDigit(word(i), 1)
        /\ wgid[8 * i + 2] = HexDigit(word(i), 2) /\ wgid[8 * i + 3] = HexDigit(word(i), 3)
        /\ wgid[8 * i + 4] = HexDigit(word(i), 4) /\ wgid[8 * i + 5] = HexDigit(word(i), 5)
        /\ wgid[8 * i + 6] = HexDigit(word(i), 6) /\ wgid[8 * i + 7] = HexDigit(word(i), 7)
    <3>1. 8 * i + 0 = 8 * i
      BY SMT
    <3> HIDE DEF wgid, word
    <3> QED
      BY <1>2, <3>1
  <2>2. /\ gid[4 * i] \in Byte /\ gid[4 * i + 1] \in Byte
        /\ gid[4 * i + 2] \in Byte /\ gid[4 * i + 3] \in Byte
    BY <1>1
  <2> HIDE DEF wgid
  <2>3. HexValue(wgid, 8 * i) =
          htonl(16 * HexDigit(word(i), 0) + HexDigit(word(i), 1),
                16 * HexDigit(word(i), 2) + HexDigit(word(i), 3),
                16 * HexDigit(word(i), 4) + HexDigit(word(i), 5),
                16 * HexDigit(word(i), 6) + HexDigit(word(i), 7))
    <3> HIDE DEF word
    <3> QED
      BY <2>1 DEF HexValue
  <2>4. \A a, b, c, d \in Byte :
          htonl(16 * HexDigit(htonl(a, b, c, d), 0) + HexDigit(htonl(a, b, c, d), 1),
                16 * HexDigit(htonl(a, b, c, d), 2) + HexDigit(htonl(a, b, c, d), 3),
                16 * HexDigit(htonl(a, b, c, d), 4) + HexDigit(htonl(a, b, c, d), 5),
                16 * HexDigit(htonl(a, b, c, d), 6) + HexDigit(htonl(a, b, c, d), 7))
            = htonl(a, b, c, d)
    BY HexRoundTrip
  <2> QED
    BY <2>2, <2>3, <2>4
<1>5. \A i \in 0..3, x \in 0..3 : ntohl(word(i), x) = gid[4 * i + x]
  <2> SUFFICES ASSUME NEW i \in 0..3, NEW x \in 0..3 PROVE ntohl(word(i), x) = gid[4 * i + x]
    OBVIOUS
  <2>1. /\ ntohl(word(i), 0) = gid[4 * i] /\ ntohl(word(i), 1) = gid[4 * i + 1]
        /\ ntohl(word(i), 2) = gid[4 * i + 2] /\ ntohl(word(i), 3) = gid[4 * i + 3]
    <3>1. /\ gid[4 * i] \in Byte /\ gid[4 * i + 1] \in Byte
          /\ gid[4 * i + 2] \in Byte /\ gid[4 * i + 3] \in Byte
      BY <1>1
    <3>2. \A a, b, c, d \in Byte :
            /\ ntohl(htonl(a, b, c, d), 0) = a /\ ntohl(htonl(a, b, c, d), 1) = b
            /\ ntohl(htonl(a, b, c, d), 2) = c /\ ntohl(htonl(a, b, c, d), 3) = d
      BY BytesRoundTrip
    <3> QED
      BY <3>1, <3>2
  <2>2. 4 * i + 0 = 4 * i /\ (x = 0 \/ x = 1 \/ x = 2 \/ x = 3)
    BY SMT
  <2> HIDE DEF word
  <2> QED
    BY <2>1, <2>2
<1>6. wire_gid_to_gid(wgid) = gid
  <2>1. \A b \in 0..15 : b \div 4 \in 0..3 /\ b % 4 \in 0..3 /\ 4 * (b \div 4) + (b % 4) = b
    BY SMT
  <2> HIDE DEF wgid, word
  <2>2. \A b \in 0..15 : ntohl(HexValue(wgid, 8 * (b \div 4)), b % 4) = gid[b]
    BY <1>4, <1>5, <2>1
  <2> QED
    BY <2>2 DEF wire_gid_to_gid, Gid
<1> QED
  BY <1>3, <1>6

(* No value of option -m is refused, although the example tests for it     *)
(* (Original/rc_pingpong.c:579-583): an MTU the verbs do not know is only  *)
(* noticed when the queue pair is connected.                               *)
THEOREM NoMtuRefused ==
  ASSUME NEW mtu \in Int
  PROVE  ~MtuRefused(mtu)
<1>1. UInt32 \in Nat \ {0}
  BY SMT DEF UInt32
<1>2. \A v \in Int : v % UInt32 \in Nat
  <2> HIDE DEF UInt32
  <2> QED
    BY <1>1, SMT
<1>3. \E v \in Int : pp_mtu_to_enum(mtu) = v % UInt32
  BY DEF pp_mtu_to_enum
<1>4. pp_mtu_to_enum(mtu) \in Nat
  BY <1>2, <1>3
<1> QED
  BY <1>4, SMT DEF MtuRefused

-----------------------------------------------------------------------------
(* The order of making and giving back (module Resources).                 *)

(* pp_init_ctx of the example makes nothing before what it is made from,   *)
(* pp_close_ctx gives nothing back before what is made from it, and it     *)
(* gives back everything that was made (lines 309 to 444).                 *)
THEOREM ExampleInOrder ==
  ASSUME NEW event \in BOOLEAN
  PROVE  /\ MadeInOrder(OpenOrder(event))
         /\ FreedInOrder(CloseOrder(event))
         /\ \A i \in DOMAIN OpenOrder(event) :
              \E j \in DOMAIN CloseOrder(event) : CloseOrder(event)[j] = OpenOrder(event)[i]
<1>1. CASE event
  <2>1. MadeInOrder(OpenOrder(event))
    BY <1>1 DEF MadeInOrder, OpenOrder, MadeFrom
  <2>2. FreedInOrder(CloseOrder(event))
    BY <1>1 DEF FreedInOrder, CloseOrder, MadeFrom
  <2>3. ASSUME NEW i \in DOMAIN OpenOrder(event)
        PROVE  \E j \in DOMAIN CloseOrder(event) : CloseOrder(event)[j] = OpenOrder(event)[i]
    BY <1>1 DEF OpenOrder, CloseOrder
  <2> QED
    BY <2>1, <2>2, <2>3
<1>2. CASE ~event
  <2>1. MadeInOrder(OpenOrder(event))
    BY <1>2 DEF MadeInOrder, OpenOrder, MadeFrom
  <2>2. FreedInOrder(CloseOrder(event))
    BY <1>2 DEF FreedInOrder, CloseOrder, MadeFrom
  <2>3. ASSUME NEW i \in DOMAIN OpenOrder(event)
        PROVE  \E j \in DOMAIN CloseOrder(event) : CloseOrder(event)[j] = OpenOrder(event)[i]
    BY <1>2 DEF OpenOrder, CloseOrder
  <2> QED
    BY <2>1, <2>2, <2>3
<1> QED
  BY <1>1, <1>2

(* A resource of the multi-stream test is the only one of its kind, or a   *)
(* numbered queue pair.                                                    *)
LEMMA StreamCases ==
  ASSUME NEW n \in Nat, NEW r \in Streams(n)
  PROVE  \/ r.kind \in Kinds /\ r = The(r.kind) /\ r.no = 0
         \/ r.kind = "qp" /\ r = QueuePair(r.no) /\ r.no \in 1..n
BY DEF Streams, The, QueuePair, Kinds

(* pp_init_ctx and pp_close_ctx of the multi-stream test respect the same, *)
(* for any number of queue pairs (lines 360 to 509, 705): what is not      *)
(* leaked is given back before everything it is made from.                 *)
THEOREM StreamsInOrder ==
  ASSUME NEW n \in Nat, NEW r \in Streams(n), NEW m \in MadeFromStream(r)
  PROVE  /\ OpenRank(n, m) < OpenRank(n, r)
         /\ CloseRank(n, r) # 0 => CloseRank(n, r) < CloseRank(n, m)
<1>1. CASE r.kind = "qp"
  <2>1. r.no \in 1..n
    BY <1>1, StreamCases DEF Kinds
  <2>2. m \in {The("ctx"), The("qpArr"), The("pd"), The("cq")}
    BY <1>1 DEF MadeFromStream
  <2> QED
    BY <1>1, <2>1, <2>2 DEF OpenRank, CloseRank, The
<1>2. CASE r.kind # "qp"
  <2>1. r.kind \in Kinds
    BY <1>2, StreamCases
  <2>2. r.kind # "ctx"
    BY DEF MadeFromStream
  <2>3. CASE r.kind = "mr"
    BY <2>3 DEF MadeFromStream, OpenRank, CloseRank, The
  <2>4. CASE r.kind \in {"pd", "cq"}
    BY <2>4 DEF MadeFromStream, OpenRank, CloseRank, The
  <2>5. CASE r.kind \in {"sizePerQP", "buf", "context", "qpArr", "pending_qp"}
    <3>1. m = The("ctx")
      BY <2>5 DEF MadeFromStream
    <3> QED
      BY <2>5, <3>1 DEF OpenRank, CloseRank, The
  <2> QED
    BY <2>1, <2>2, <2>3, <2>4, <2>5 DEF Kinds
<1> QED
  BY <1>1, <1>2

(* Whatever the number of queue pairs, pp_close_ctx gives back all that    *)
(* the context holds, except two arrays, sizePerQP (line 374) and          *)
(* pending_qp (line 705); when line 506 frees the context, nothing else    *)
(* points to them.                                                         *)
THEOREM ArraysLeak ==
  ASSUME NEW n \in Nat
  PROVE  /\ Leaked(n) = {The("sizePerQP"), The("pending_qp")}
         /\ \A r \in Leaked(n) : OutOfReach(n, r)
<1>1. The("sizePerQP") \in Leaked(n) /\ The("pending_qp") \in Leaked(n)
  BY DEF Leaked, Streams, Kinds, CloseRank, The
<1>2. ASSUME NEW r \in Leaked(n) PROVE r \in {The("sizePerQP"), The("pending_qp")}
  <2>1. r \in Streams(n) /\ CloseRank(n, r) = 0
    BY DEF Leaked
  <2>2. r.kind # "qp"
    <3>1. r.kind = "qp" => CloseRank(n, r) = r.no
      BY DEF CloseRank
    <3>2. r.kind = "qp" => r.no \in 1..n
      BY <2>1, StreamCases DEF Kinds
    <3> QED
      BY <2>1, <3>1, <3>2
  <2>3. r.kind \in Kinds /\ r = The(r.kind)
    BY <2>1, <2>2, StreamCases
  <2>4. r.kind \in {"sizePerQP", "pending_qp"}
    BY <2>1, <2>3 DEF CloseRank, Kinds
  <2> QED
    BY <2>3, <2>4
<1>3. OutOfReach(n, The("sizePerQP")) /\ OutOfReach(n, The("pending_qp"))
  BY DEF OutOfReach, CloseRank, MadeFromStream, The
<1> QED
  BY <1>1, <1>2, <1>3

-----------------------------------------------------------------------------
(* One message through the buffers of a connection (module EchoFlow), for  *)
(* every size of message, packet and buffer that its assumptions admit.    *)

(* While the client writes it has read nothing of the answer; once it does *)
(* not write, its message is with the connection or the server.            *)
Phases ==
  /\ cpc = "write" => left > 0 /\ bytesRead = 0
  /\ cpc # "write" => left = 0
  /\ cpc # "done" => k < Messages

IInv == TypeOK /\ NoByteLost /\ Phases

LEMMA Constants ==
  /\ Message \in Nat \ {0} /\ Messages \in Nat \ {0} /\ MaxPacket \in Nat \ {0}
  /\ Up \in Nat \ {0} /\ Down \in Nat \ {0}
  /\ Message <= Up + Down + 1
BY SizesAssumption, BuffersAssumption

LEMMA InitIInv == Init => IInv
BY Constants DEF Init, IInv, TypeOK, NoByteLost, Phases

LEMMA WriteKeeps == IInv /\ Write => IInv'
<1> SUFFICES ASSUME IInv, Write PROVE IInv'
  OBVIOUS
<1> USE Constants DEF IInv, TypeOK, NoByteLost, Phases
<1>1. PICK n \in 1..left : up + n <= Up /\ left' = left - n /\ up' = up + n
  BY DEF Write
<1>2. cpc = "write" /\ UNCHANGED <<k, buffer, down, bytesRead>>
      /\ cpc' = IF left' = 0 THEN "read" ELSE "write"
  BY DEF Write
<1> QED
  BY <1>1, <1>2

LEMMA ServerReadKeeps == IInv /\ ServerRead => IInv'
<1> SUFFICES ASSUME IInv, ServerRead PROVE IInv'
  OBVIOUS
<1> USE Constants DEF IInv, TypeOK, NoByteLost, Phases
<1>1. PICK n \in 1..MaxPacket : n <= up /\ up' = up - n /\ buffer' = n
  BY DEF ServerRead
<1>2. buffer = 0 /\ UNCHANGED <<cpc, k, left, down, bytesRead>>
  BY DEF ServerRead
<1> QED
  BY <1>1, <1>2

LEMMA ServerWriteKeeps == IInv /\ ServerWrite => IInv'
<1> SUFFICES ASSUME IInv, ServerWrite PROVE IInv'
  OBVIOUS
<1> USE Constants DEF IInv, TypeOK, NoByteLost, Phases
<1>1. PICK n \in 1..buffer : down + n <= Down /\ buffer' = buffer - n /\ down' = down + n
  BY DEF ServerWrite
<1>2. UNCHANGED <<cpc, k, left, up, bytesRead>>
  BY DEF ServerWrite
<1> QED
  BY <1>1, <1>2

(* The answer is complete only when its last byte is read, because no byte *)
(* of another message is under way.                                        *)
LEMMA ReceiveKeeps == IInv /\ Receive => IInv'
<1> SUFFICES ASSUME IInv, Receive PROVE IInv'
  OBVIOUS
<1> USE Constants DEF IInv, TypeOK, NoByteLost, Phases
<1>1. cpc = "read" /\ UNCHANGED <<up, buffer>>
  BY DEF Receive
<1>2. PICK n \in 1..down :
        /\ down' = down - n
        /\ IF bytesRead + n < Message
             THEN bytesRead' = bytesRead + n /\ UNCHANGED <<cpc, k, left>>
             ELSE /\ bytesRead' = 0
                  /\ k' = k + 1
                  /\ IF k' < Messages THEN cpc' = "write" /\ left' = Message
                                      ELSE cpc' = "done" /\ UNCHANGED left
  BY DEF Receive
<1>3. CASE bytesRead + n < Message
  BY <1>1, <1>2, <1>3
<1>4. CASE bytesRead + n >= Message
  <2>1. up = 0 /\ buffer = 0 /\ down = n /\ left = 0
    BY <1>1, <1>4
  <2>2. CASE k + 1 < Messages
    BY <1>1, <1>2, <1>4, <2>1, <2>2
  <2>3. CASE k + 1 >= Messages
    BY <1>1, <1>2, <1>4, <2>1, <2>3
  <2> QED
    BY <2>2, <2>3
<1> QED
  BY <1>3, <1>4

LEMMA NextKeeps == IInv /\ [Next]_vars => IInv'
<1> SUFFICES ASSUME IInv, [Next]_vars PROVE IInv'
  OBVIOUS
<1>1. CASE Write
  BY <1>1, WriteKeeps
<1>2. CASE Receive
  BY <1>2, ReceiveKeeps
<1>3. CASE ServerRead
  BY <1>3, ServerReadKeeps
<1>4. CASE ServerWrite
  BY <1>4, ServerWriteKeeps
<1>5. CASE UNCHANGED vars
  BY <1>5 DEF IInv, TypeOK, NoByteLost, Phases, vars
<1> QED
  BY <1>1, <1>2, <1>3, <1>4, <1>5 DEF Next, Client, Server, Finished

LEMMA Inductive == Spec => []IInv
BY InitIInv, NextKeeps, PTL DEF Spec

(* The variables of client and server keep their ranges; above all neither *)
(* direction ever holds more than its buffers.                             *)
THEOREM TypeCorrect == Spec => []TypeOK
<1>1. IInv => TypeOK
  BY DEF IInv
<1> QED
  BY Inductive, <1>1, PTL

(* The client's write (Stream.cpp:25) and the server's send                *)
(* (NonBlockingTcpServer.cpp:24) never wait for each other, as long as a   *)
(* message fits into the buffers.                                          *)
THEOREM NeverBothBlocked == Spec => []NotBothBlocked
<1>1. IInv => NotBothBlocked
  BY Constants DEF IInv, TypeOK, NoByteLost, Phases, NotBothBlocked, ClientBlocked, ServerBlocked
<1> QED
  BY Inductive, <1>1, PTL

(* The echo loses no byte and leaves none for the next message.            *)
THEOREM EveryByteAccountedFor == Spec => []NoByteLost
<1>1. IInv => NoByteLost
  BY DEF IInv
<1> QED
  BY Inductive, <1>1, PTL
=============================================================================
