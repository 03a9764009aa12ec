------------------------------- MODULE Results -------------------------------
(***************************************************************************)
(* The array results of the tests: saveResults stores six figures per      *)
(* round behind those of the last round, and createCSV and                 *)
(* createResultFile read the array back in rows of six, as many as it      *)
(* takes to cover the length they are called with.                         *)
(***************************************************************************)
EXTENDS Integers

Fields == 6      \* rtt, throughput, packetRate, sockets, message size, messages
Rounds == 21     \* the sizes 1, 2, 4 ... MAX_MSG_SIZE

(* results after saveResults at resultIndex at, and what it returns.       *)
Save(results, at, round) ==
  [k \in DOMAIN results |-> IF k \in at..(at + Fields - 1) THEN round[k - at] ELSE results[k]]
NextIndex(at) == at + Fields

(* The indices createCSV starts a row at, and the row it writes.           *)
RowStarts(n)    == {k \in 0..(n - 1) : k % Fields = 0}
Row(results, k) == [f \in 0..(Fields - 1) |-> results[k + f]]

(* createResultFile of the TCP tests reads in the same steps.              *)
CellsRead(n) == UNION {k..(k + Fields - 1) : k \in RowStarts(n)}

(* The array of the TCP client with many threads: room for the rounds of   *)
(* four numbers of threads.                                                *)
ResultSize == Rounds * Fields * 4
=============================================================================
