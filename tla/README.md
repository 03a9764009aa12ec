# Verification of the InfiniBand and TCP ping-pong benchmarks

The repository measures latency, throughput and packet rate of a client and a
server that play ping-pong, over TCP sockets and over InfiniBand verbs, with one
or several streams and threads. This directory holds TLA+ models of those
programs, TLC configurations that check them on small instances, and proofs that
TLAPS checks. Paths such as `multistreamTestRunner.c:794` are relative to `src/`.

## 1. Inventory

The programs that `CMakeLists.txt` builds are six clients and servers in two
families. Everything else is shared code, drafts or data.

| Component | State it keeps | Operations | Interacts with |
|---|---|---|---|
| Measured loop of the multi-stream test (`multistreamTestRunner.c:622-816`) | `routs_arr`, `pending_qp`, `rcnt`, `scnt`, array `wc`; in the HCA: completion queue, receive queues, one send slot per queue pair | post receives and first sends, poll, handle a send / receive / failed completion, repost, send again, close | the peer's loop, through one reliable connection per queue pair |
| Exchange of addresses (`:62-100`, `:182-224`, `:299-358`, `:657-703`) | one TCP stream, the QP states (INIT, RTR, RTS) | write / read one address per queue pair, connect, acknowledge with `done` | precedes the loop; the peer's exchange |
| Rounds of the multi-stream test (`:126-294`, `:840-975`) | listening socket, connection, results | connect with back-off, listen, accept, start the worker thread, join, save the result | the kernel's backlog; the peer's rounds |
| Resources of a run (`:360-509`; `rc_pingpong.c:309-444`) | buffer, device context, PD, MR, CQ, QPs | `pp_init_ctx`, `pp_close_ctx` | used by the loop |
| Splitting the message (`:374-379`, `:511-549`; `multithreadIB.c:926-931`) | `sizePerQP`, buffer offsets | pure | used by posts |
| Multi-thread InfiniBand test (`multithreadIB.c`) | per thread: one queue pair, one TCP connection; per process: thread array, results, file-descriptor table | start threads, exchange, ping-pong, close, join | threads of the process share the descriptor table |
| TCP client, many streams (`MultiStreamTcpClient.cpp`) | vector of `Stream`s, current message | connect all, warm up, send on all, read back from all, close | `NonBlockingTcpServer.cpp`, shared with other processes of the client |
| TCP server, one thread (`NonBlockingTcpServer.cpp`) | `client_socket[MAX_CLIENTS]`, `fd_set` | `select`, accept, echo, close a slot | the TCP clients |
| TCP client, many threads (`MultiThreadTcpClient.cpp`) | array of handler data shared with running threads, running flags | start a thread per socket, join, record | `MultiThreadTcpServer.cpp` |
| TCP server, many threads (`MultiThreadTcpServer.cpp`) | one thread per connection | accept, echo | the TCP clients |
| Results (`MetricsIBV.c`, `Metrics.cpp`) | arrays of results | save three figures, write CSV | all clients |
| Socket wrappers (`Stream`, `Connector`, `Acceptor`) | a socket descriptor | connect, accept, send, receive, close | TCP clients and server |
| Wire form of the GID, MTU (`multistreamPPSupport.c`, `multithreadIBSupport.c`) | none | conversions | exchange of addresses |
| Original example (`Original/rc_pingpong.c`) | as the loop, plus an event channel, its resources, one TCP connection | open, exchange addresses, play with or without completion events, close | its own peer; the InfiniBand tests grew from it |
| `temp/` | drafts not built | | |

Hard behaviours: completions of one queue pair arrive in any order and share
one queue with all others; the two sides decide separately that they are done
and destroy the connections the other is still using; a byte stream carries
addresses without framing; descriptors are shared by threads; a single-threaded
server has to serve connections that come and go; blocking writes wait on each
other through socket buffers.

What makes each component correct is stated as properties next to the model and
listed with the runs in section 4; the list of hazards, each at its line, is
`PROJECT.json` `"hazards"`.

What is modelled of each row, and what is not, is in section 7 and in
`PROJECT.json` `"components"`.

## 2. Plan

Order of work, the most important behaviour first. Done so far:

1. `PingPong`, the measured loop with its HCAs, and `Rally`, what it promises;
   `PingPongProofs`.
2. `AddrExchange`, which must have succeeded before the loop starts.
3. `Rounds`, which calls both once per round; `RoundsProofs`.
4. `MultiThread`, the same three layers in `multithreadIB.c`, where threads share
   the descriptor table.
5. `SelectServer`, `ThreadClient`, `EchoFlow`: the TCP programs.
   `SelectServer` with several processes of the client that may be killed and a server
   that may fail or be stopped; `ThreadClient` with a server that may be stopped.
6. `RcPingPong`: the example from main to exit, with its event branch
   (`ibv_get_cq_event`, `ibv_req_notify_cq`, acknowledging events), set-up,
   exchange and closing. The loop of `multithreadIB.c:645-877` is the same one.
7. `Resources`: the order in which things are made and given back. `RcPingPong`
   uses it.
8. `Partition`, `Results`, `WireForm`: pure functions, with `FunctionProofs` for all
   arguments.
9. Theorems for every value of the constants: the second half of `PingPongProofs` (the
   two exits of the loop, and that the loop implements `Rally`), `AddrExchangeProofs`,
   `SelectServerProofs`, `RcPingPongProofs`, the first part of `FunctionProofs`
   (`EchoFlow`).
10. `ThreadClientProofs` and `MultiThreadProofs`. With them every invariant that a
    passing run checks is a theorem, but for `NoneLost` in `ServedOnce`.

To come:

11. `ThreadClient` with the descriptors it keeps over the rounds; a device or an
    allocation that fails in `MultiThread`.

`PingPong` and `RcPingPong` both implement `Rally` (`ImplementsRally`). `RcPingPong`
composes set-up, exchange, loop and closing of two processes in one module, which
its single queue pair allows. In the descendants the layers are composed by
abstraction rather than by one large module: `Rounds` treats the worker that
`AddrExchange` and `PingPong` describe as one action, `MultiThread` the
measurement, and each states what it takes for granted in its header.

## 3. Modules and the code

Every definition that stands for code has its lines in `PROJECT.json` `"map"`. The
`MC...` modules only make instances; `...Mutant` definitions are deliberately wrong
variants of an action that show that a property can fail, and no specification
uses them.

### PingPong (`multistreamTestRunner.c:22-24, 424-449, 511-549, 622-632, 705-816`)

Both sides run `runPingPong`. `pc`, `pending` (`pending_qp`), `routs`
(`routs_arr`), `rcnt`, `scnt` and `batch` (what of the completion queue is in the
array `wc`) are the program's; `cq`, `rq` and `sq` are the HCA's. One action is
one turn of the `for` loop over `wc`: `HandleSend`, `HandleRecv` and
`HandleBadStatus` do all that the body does for one completion, the repost and the
next send included. `Poll` is `ibv_poll_cq`; `PollFails`, `Close` the other ways out.
`Deliver`, `Acknowledge` and `RetryExceeded` are the reliable connection,
modelled from the attributes the program sets (`:62-100`). A send occupies the
queue of depth one until its completion is polled, which is why a post can be
refused at all. A send that fails puts its queue pair into the error state (`err`),
and the HCA flushes the receives posted on it into the completion queue, behind
the failed send (`Flushed`). The loop ends at the failed send and looks at none of
them, so they are not in `cq`; but they take room, and the completion queue of
`rx_depth + 1` entries (`:420`) may overrun (`Overrun`). What a poll of it
returns then is not specified: what was in it (`Poll`), an error (`PollFails`), or
nothing (`Poll` is then not fair).

### Rally

The abstract specification: one message per queue pair goes back and forth; a side
may leave only when it has its `iters` messages and the other has them or is
certain to get them. `PingPong` and `RcPingPong` map onto it by `Ball`.

### RcPingPong (`Original/rc_pingpong.c:80-307, 309-466, 506-827`)

Both processes, one action per call or group of calls between which nothing can
come. `held` is what a process has allocated: `Open` makes the next thing of
`OpenOrder`, `Free` gives back the next of `CloseOrder`, and `CloseFails` is what
the verbs do when something is still used. `SetupFails` and `LoopFails` are the many
`return 1` of main; the kernel then closes the socket and destroys the queue pair
(`Ends`). `Arm` and `Poll` are `ibv_req_notify_cq` and `ibv_poll_cq`, `armed` and
`events` the HCA's side of them: a completion raises an event only when it is the
first since the last request. The loop handles up to two completions, `wc`, of
one poll. The flush after a failed send is left out here: with one queue pair it
finds room (`OneQueuePairNeverOverruns`), and the side whose send failed
leaves before it looks at the flushed receives.

### Resources (`Original/rc_pingpong.c:309-444`, `multistreamTestRunner.c:360-509`)

What is made from what, the order of making and the order of giving back, as
sequences for the example and as ranks for any number of queue pairs. `pending_qp`
is made by `runPingPong` (`:705`) and held by the context like the others.

### Partition (`multistreamTestRunner.c:374-379, 511-549`), Results (`MetricsIBV.c`, `Metrics.cpp`), WireForm (`multistreamPPSupport.c`, `multithreadIBSupport.c`, `Original/pingpong.c`)

Functions; the theorems about them are in `FunctionProofs`. `SizePerQP` and `BufOffset` are the
code's expressions. `Save` and `Row` are the loops of `saveResults` and
`createCSV` over figures that are not interpreted. `gid_to_wire_gid` works on bytes
and hexadecimal digits, words being numbers in network order; `pp_mtu_to_enum`
keeps the width of its unsigned result.

### AddrExchange (`multistreamTestRunner.c:62-100, 182-224, 299-358, 657-704`)

One action per socket call or QP command of `pp_client_exch_dest`,
`pp_server_exch_dest` and the loop around them. The connection is a queue of
writes and a buffer of bytes. An address is `AddrLen` bytes and `done` `DoneLen`:
only the order of the two lengths matters to what a read returns.

### Rounds (`multistreamTestRunner.c:126-294, 896-976`)

Both mains, one action per call that blocks or fails. `faults`, chosen once, says
what may go wrong in an execution.

### MultiThread (`multithreadIB.c:94-522, 645-1041, 1043-1097`)

The descriptor table `fd` of the server is exact: lowest free number first, a
number names what was opened last. `Named(i)` is what the connection of thread `i`
names *now*. `window` says whether other threads run between the two closes of one
connection (`:379`, `:726`).

### SelectServer (`NonBlockingTcpServer.cpp`, `MultiStreamTcpClient.cpp`)

`Select`, `Accept` and the `Read`s are the server's turn, in that order; `ReadFrom`
is the loop over the slots, which passes over those that select did not report.
A client is the three nested loops and the warm-up before them (`Rounds`). `Kill`
ends a client anywhere; the kernel closes its connections, and answers an echo to
one of them with a reset. `ReadFails` is the server's end at lines 101 to 110; whether
a read of a reset connection returns the error or the end of the stream is left
open. `Stop` ends the server from outside, since it never ends by itself; a connect
is then refused, and the client passes over the socket's messages. A client that
waits for an answer is then left in the loop of lines 79 to 81 (`ReceiveFails`), but
a warm-up reads once, closes its connection and goes on (`WarmUpFails`,
`Metrics.cpp:95-98`).

### ThreadClient (`MultiThreadTcpClient.cpp`, `MultiThreadTcpServer.cpp`)

`SetSize` and `SetMessage` are two of the stores of main into the structure all
threads share; `CopySize`, `LoadMessage` and `LoadLength` the loads of a thread.
The data race is a choice of the scheduler between these steps; each load and
store is of one word, so no value is torn. `Echo` is a thread of the server, `Stop`
its end; `Connect` makes a new connection, on which nothing is under way, or finds
no server. The shares of a round are even (`EvenShares`) when its number of threads
divides its size, or when its size is 1.

### EchoFlow (`Stream.cpp:22-38`, `NonBlockingTcpServer.cpp:18-33, 97-113`, `MultiStreamTcpClient.cpp:73-86`)

Bytes of one message, counted: in the client's hands, in either direction's
buffers, in the server's hands, back. Writes block when the buffers are full.

## 4. Runs

All passing runs check deadlock, but for the two of `PingPong`, where a side whose
peer died may spin for ever (`:728-740`), and that of `RcPingPong`, where all may
have ended or wait for one that has (`LeavesOrWaits` says which waits there are).

| Run | Instance | Shows |
|---|---|---|
| `pingpong_safety` | 2 queue pairs, `iters` 4, `rx_depth` 3, either side may die | `QueuesHold` (`PostsAccepted`, `ReceiverReady`, `CqFits`), `OneBall`, `BooksAgree`: queues and books; `NoStranding`, `Conservation`, `BadStatusMeansPeerFailed`: the two exits; `ImplementsRally` |
| `pingpong_faults` | 2 queue pairs, `iters` 2, lost acknowledgements, impatient timer | `Finishes`, `LeavesOrSpins`, `CloseReleasesPeer` |
| `rc_example` | `iters` 3, `rx_depth` 1 against 3, each side polling or sleeping, with and without faults | `NeverEarly`, `NoLostWakeup`, `Balance`, `ImplementsRally`; `Finishes` without faults, `LeavesOrWaits` with |
| `addr_safety` | 6 queue pairs, reads that swallow, a server that cannot connect | `Agreement` (`Pairing`, `SameOutcome`), `InTurn`, `EndsRight` (`Ends`; `CompletesPaced`) |
| `addr_coalesced` | 2 queue pairs | `Completes` **violated** |
| `rounds_faults` | 3 sizes, 3 queue pairs, 3 attempts, any set of faults | `SameRound`, `RoundsEnd` (`ClientEnds`; `AllRounds` without faults) |
| `mt_threads` | sizes 1, 2, 4; 1 and 2 threads; with and without the window | `DescriptorsKept` (`NoLeak`; without the window `OwnDescriptors`), `Pairs`, `AllRoundsUndisturbed` |
| `mt_lost` | sizes 1, 2; 1 and 2 threads; with the window | `AllRounds` **violated** |
| `select_room` | 2 clients that may be killed, a server that may be stopped, 5 slots, 2 sockets, 2 messages of 3 bytes, 1 warm-up, packets of 2 | `GoesOn` (`NeverBlocks`, `ServerOutlives`), `ServedOnce` (`NoneLost`, `OneSlot`), `ClientsGetThrough` |
| `select_full` | 1 client, 3 slots, 3 sockets, 4 sizes, no faults | `NoneLost` **violated** |
| `tc_sizes` | sizes 1, 2, 4 on 1, 2, 4 threads, a server that may be stopped | `SharesHold` (`InBounds`, `AnswersMatch`), `RoundsMeasured` |
| `echo_fits` | messages of 8, packets of 3, buffers of 3 and 4 | `NotBothBlocked`, `NoByteLost`, `Answered` |

Why these bounds are enough to meet the interesting cases:

- `rx_depth` 3 with 4 exchanges makes every queue pair repost twice, and the test
  `routs <= 1` is one away from the depth; `iters` 4 over two queue pairs lets the
  counters be reached by either of them. `CqAssumption`
  (`2 * peerNum <= rx_depth + 1`) is what the completion queue of line 420
  needs while both sides live; the program has 500 and 10. Two failed sends are
  enough to overrun it when the peer is gone: two times three flushed receives and
  four entries. `CqFits` says that this is the only way. In `LeavesOrSpins` and
  `CloseReleasesPeer` a side whose completion queue has overrun is an exception, and
  `Finishes` is about executions without one.
- Six queue pairs let a swallowed address desynchronise several turns; the
  difference between `AddrLen` and `DoneLen` leaves room for a partial address.
- Three rounds per loop reach the failed accept in the first, a middle and the last
  round of both loops; three attempts stand for seven.
- Two threads with sizes 1, 2, 4: one and two connections per round, the skip of a
  thread without payload (size 1 on two threads), an even split. Four
  threads exceed what TLC can hold (more than ten million states).
- `rx_depth` 1 is reposted at every message, 3 when one receive is left: three
  messages reach both, and the depths differ so that the books of one side cannot
  stand for the other's. Polling against sleeping is tried in all four pairings,
  and both depths on both sides.
- Two clients with one and two sockets meet in the backlog, in one `select` and in
  the slots; five slots are one more than their open connections, so that a killed
  client's slot may still be held while the other connects. The code has no such
  slot to spare, since one `MAX_CLIENTS` is both; its own setting, as many as
  sockets, is that of `select_full` and of the theorem `LostToClosedOnly`. The
  server may stop at every point, and one client may be killed or both. Messages of
  three bytes, shared one and two or sent whole, against packets of two: an echo
  in one and in several pieces.
- The sizes of `tc_sizes` are the first three of the code, and four threads meet in
  them every case of its split: a byte for each of more threads than bytes (even),
  two bytes on four threads (uneven), an even division. With more
  threads, or two messages on four, TLC does not end in time; for every number of both
  `SharesHold` is a theorem.
- In `echo_fits` the message is one byte more than both buffers hold, the largest
  `BuffersAssumption` admits; with one more the two writes block each other.

Every configuration ends within a minute and a half, most in seconds.

### Findings

- **`addr_coalesced`.** The server waits for the five bytes of `done` with a
  read of 52 (`multistreamTestRunner.c:353`). If the client's next address has
  arrived too, the read takes its beginning; the next read is short and the exchange
  fails on both sides. `Pairing` holds all the same: a cut address is never used.
- **`mt_lost`.** A server thread closes its connection in
  `pp_server_exch_dest` (`multithreadIB.c:379`) and again in `runPingPong` (`:726`).
  Between the two the number may be given to another thread, which loses its
  connection or its device; main dereferences its return value (`:1016`).
- **`select_full`.** Server and client have the same `MAX_CLIENTS`. The first
  connection of a round may be accepted while all slots still hold connections
  the client has closed: it is neither stored nor closed
  (`NonBlockingTcpServer.cpp:85`), and its client waits for ever. The theorem
  `LostToClosedOnly` says that a connection is lost in no other way.

Five more observations have no violated run of their own:

- With `"late"` among the `faults` of `Rounds`, `multistreamTestRunner.c:927`
  closes a listening socket whose backlog already holds the connection of the next
  round; `AllRounds` is stated for executions without it.
- All threads of `MultiThreadTcpClient.cpp` read length and message from one
  structure that main rewrites (`:78-82`, `:147`) and compare the answer with the
  copy they took (`:125`, `:150`). With two bytes on four threads the first may copy
  its share of two and send the share of another, one: it waits for the second byte
  for ever, with the server up, and main for the thread. `RoundsMeasured` without its
  exception for uneven shares is violated in this way by the instance of
  `tc_sizes`. In the same rounds a thread may read past its message. Of the
  program's own rounds (`Metrics.hpp:7-12`: powers of two up to a megabyte on up to
  eight threads) those of two or four bytes on more threads than bytes are uneven,
  although `README.md:20` has it that the client sends every size on every number of
  threads. `SharesHold` is about all other rounds, and `RoundsMeasured` says that main
  is left in no other.
- When the peer is gone and sends of two queue pairs fail, the HCA flushes up to
  2 * `rx_depth` receives into the `rx_depth + 1` entries of the one completion
  queue (`multistreamTestRunner.c:420`, `:427`): with more than one queue pair the
  size does not cover the end of a run that fails (`Overrun`).
- A client of the TCP servers whose server is gone before it connects goes through
  all its rounds and saves figures that measured nothing (`Refused`,
  `MultiStreamTcpClient.cpp:76`), its warm-ups included, whether connected or not
  (`WarmUpFails`); one that is connected in a round reads for ever (`:79-81`).
- By theorem: two of the four arrays of results are read past their end when they
  are written to a file (`LengthsInUse`); queue pairs 0 and 1 share bytes of the
  buffer unless the number of queue pairs divides the size (`Overlap`);
  `pp_close_ctx` frees the context and
  with it the only pointers to two arrays (`ArraysLeak`); option `-m` accepts
  every number, since an `enum ibv_mtu` is never negative (`NoMtuRefused`).

## 5. Fairness

`Spec` has none; safety needs none. `FairSpec` has weak fairness of

- each process or thread as a whole (`PingPong`: each side's polling loop, which
  never sleeps; `Rounds`, `AddrExchange`, `SelectServer`, `EchoFlow`: client and
  server, every client of its own; `RcPingPong`: each process; `MultiThread`,
  `ThreadClient`: each main and each thread, which the kernel schedules
  preemptively). A step that stands for a failure is never forced: `PollFails`,
  `SetupFails`, `LoopFails`, `Kill` and `Stop` have no fairness. `Refused` is fair because a refused `connect`
  returns;
- delivery by TCP, and by the HCA as long as the queue pair that sent exists
  (reliable connection: it delivers, acknowledges, or reports that it could not).

No strong fairness is used. Where a server handles several connections in one
loop (`SelectServer`) the fairness is that of the loop, and that every slot gets
its turn is a consequence of the code.

## 6. Proofs

TLAPS checks eight modules of theorems. Each specification has an inductive invariant,
shown to hold at the start and to be kept by every action, and the properties the
runs check follow from it; `FunctionProofs` is also about functions. The theorems
rest on the named assumptions on the constants alone, and on those given here.

**PingPongProofs** (`IInv == TypeOK /\ PostsAccepted /\ OneBall /\ BooksAgree`), for
every number of queue pairs, `iters` and `rx_depth` that `CqAssumption` admits and
with every fault: `TypeCorrect`, `OneMessagePerQP`, `BooksMirrorHca`,
`QueuesSuffice` (`QueuesHold`: every post accepted, no message without a receive,
no completion queue overrun while both sides live). No part is inductive alone: that a post is
accepted (`PostsAccepted`) needs that a cleared send bit means an idle send queue
with its completion polled (`SendsAgree`, in `BooksAgree`) and that the receives
believed outstanding are those really posted (`ReceivesAgree`); that in turn needs
at most one receive completion per queue pair to wait (`QueueAgrees`), which is so
because the message is in one place (`OneBall`), and `OneBall` is kept by a step
that sends only because the pending bits are right. `CqFits` follows by counting: a
queue without two equal completions has at most `2 * Cardinality(QPs)` of them
(`CqAssumption`). Flushed receives are beyond this count; that there are none
before the peer is gone is `Errors`, which also says that the failed send of a queue pair in error is still to be
handled while the side is in the loop (`ErrorsExplained`): it will end the loop. With one queue pair the
`rx_depth + 1` entries hold the flushed receives, too
(`OneQueuePairNeverOverruns`): a receive completion that waits has used one of them up,
and what is left beside it is the completion of the send.

The second half (`CInv == IInv /\ Counts`) is about what the loop counts. `rcnt` and `scnt` are sums over all queue pairs, so `Counts` compares them with the sizes of sets
of queue pairs:

- `SentAgainstTaken`: what one side has counted or will count as sent is what the
  other has counted or will count as received. A lost acknowledgement makes a send
  fail whose message arrived; then only "not more than" is left.
- `SendsBounded`: a send is posted only below `iters`, one per queue pair.
- `TurnsAgree`: the server is ahead of the client by the queue pairs on which it was
  the last to take a message.
- `BrokenAlone`, `ClosedCounted`, `BrokenPeerGone`, `CleanClose`: where the message of a
  failed send is, what a side that closed has counted, and why a side that sees a
  send fail after its peer closed is about to close as well.

`CountersConserved` (`Conservation`) and `NobodyStranded` (`NoStranding`) assume
`~AckLoss`, `BadStatusExplained` (`BadStatusMeansPeerFailed`) also `PatientRetry`.
These are the executions the properties are about: with an acknowledgement lost for
good the reliable connection reports an error for a message that was delivered, the
two sides count differently, and a side that leaves may strand the other.
`SendsAreBounded` needs neither.
`LoopImplementsRally` (`ImplementsRally`) has every fault: the first post of the client
is `Serve`, a handled send that posts the next one `Hit`, a handled receive `Catch`, an
exceeded retry `Lose`, `Close` is `Leave`, a failure `Quit`, and every other
step leaves `Ball` as it is. That `Close` may map to `Leave` follows from the exit
test of the loop and the half of `SentAgainstTaken` that needs no acknowledgement.

**RcPingPongProofs**, for every number of iterations and every receive depth, polling
or sleeping on events, whatever call fails: `TypeCorrect`, `NothingArrivesEarly`
(`NeverEarly`), `NoSleepForGood` (`NoLostWakeup`), `CountsBalance` (`Balance`),
`ExampleImplementsRally` (`ImplementsRally`). The invariant has for each process

- `Stage`, `Untouched`: where it is and what has become of its queue pair; before the
  loop nothing is sent or handled;
- `Posted`: the bit of the send is set exactly as long as the send is outstanding or
  its completion not handled, so the queue of depth one is free when the loop posts;
- `Receives`: `routs` counts the receives posted and the one completion of a receive
  that waits, so the loop never posts more than the depth;
- `Wakeups`: a completion since the last `ibv_req_notify_cq` has raised an event, and
  none is left in the queue while a request is armed;

and for the two together `Apart` (the message is in one place), `Tally` (sent against
received), `Meeting` (the client has an address only of a queue pair that is
connected; `NeverEarly` follows) and `Clean`: when nothing fails, the exchange of
addresses is one of seven situations (`Dialogue`), and no completion is bad. Without
`Dialogue` one could not exclude that a read finds the peer gone, hence not that a
process ends in `loopFailed` although no call failed. In the refinement `AckEvents`, the
last step of the loop, is `Leave`: `Tally` turns the process's own counts into the peer's.

**RoundsProofs**: `TypeCorrect` and `RoundsMatch` (`SameRound`), for all numbers of
sizes, queue pairs and attempts and with every fault. `SameRound` is not
inductive: it says nothing until the server has accepted. `InStep` adds where the
client can be while the server listens and waits: one round behind with its
worker done, in the same round, reset, or ended. The point is that a server that
left a listening socket open never gets another one (`sock` is false from then on),
so a server that can accept has accepted in every round before.

**AddrExchangeProofs** (`IInv == Streams /\ Dialogue /\ Connections /\ EndsOpen`), for
every number of queue pairs and all lengths: `TypeCorrect`; `PairedRight` (`Pairing`)
and `ServerConnectsFirst` (`ServerFirst`) whatever fails; `SidesAgree` (`Agreement`)
and `TurnsInStep` (`InTurn`) in the executions in which no queue pair of the client is
refused, since the client connects after its last word and the server does not learn
that it failed. Only one side can go on at a time, so `Dialogue` says for each call of
the client where the server is and what is under way, down to the beginning of an
address that a read of the server has swallowed (`Cut`). The one way to pair wrongly
would be an address completed from two reads; after a cut the rest is too short
for a read to succeed, and the server fails.

**SelectServerProofs**, for any number of clients, slots, sockets and sizes, clients
killed and the server stopped at any moment: `TypeCorrect`, `GoesOnForOthers`
(`GoesOn`), `NoSlotTwice`. The invariant has

- `OpenNow`, `Accounts`: what a client has open is of its round, and bytes are under
  way only on the connection it waits on, as many as it still expects;
- `Resets`: only connections of killed clients are reset;
- `Queue`: a client has at most one connection in the backlog, its present one, and
  what the server holds of that client is of the same round or over;
- `Placed`: a connection has at most one slot, and the slots of one client are of one
  round but for those the loop of this very turn is about to drop;
- `Turn`: what `select` reported is still readable when the loop comes to it; nothing
  takes readable bytes away but the server itself.

`LostToClosedOnly` (`LostToItsPast`) assumes at least as many slots as all clients
together have sockets, which is the code's setting: one client, and one `MAX_CLIENTS` for
both. Only `Accept` can lose a connection, and only when no slot is free
(`LostInAccept`). By `Placed` the slots of a client are then of one round, hence
of different sockets, and by counting every socket of every client has one
(`AllSocketsSeated`); that of the connection being accepted is therefore of an
earlier round, and by `Queue` so are all of its client, and closed.
`select_full` shows that a connection can be lost in this way.

**ThreadClientProofs** (`IInv == TypeOK /\ Filled /\ Drained /\ (EvenShares => Even)`), for
all sizes, numbers of threads and of messages, the server stopped at any moment:
`TypeCorrect` and `EvenSharesHold` (`SharesHold`). `Filled` is what the order of main's
stores gives: before a thread is there that could read the structure, message and
length are in it. `Even` is the strengthening, and speaks of rounds with even shares
only: the structure has the one length there is and a message of that length
(`StructureFits`), so it does not matter between which two stores a thread loads
(`Loaded`), and what a thread has sent is under way or has been received
(`UnderWay`). It is an implication in the invariant, because a round with even shares
may follow one without: a round begins with no thread running, so nothing of the
earlier round is left that `Even` speaks of. `Drained`, that a server that is gone leaves nothing
under way to it, makes a thread's wait end.

**MultiThreadProofs** (`IInv == Basics /\ Apart /\ InStep /\ Shares /\ Links`), for every
number of threads and every size, with and without other threads between the two closes,
whoever fails: `TypeCorrect`, `DescriptorsStay` (`DescriptorsKept`), `ThreadsPair`
(`Pairs`). The invariant has four layers, of which each uses those before it:

- `Basics`: types, which threads there are (`Stage`), and that whatever is in the
  descriptor table has an owner that will give it back (`Table`). A connection may have
  lost its thread's number, and a number may name another thread's object, but
  no object is without a thread that closes its own number later, so
  nothing is left when all are joined. A free number always exists, by
  counting: there are `2 * MaxThreads + 1` numbers, an owner for a connection and
  one for a device per thread, and who opens a device does not have one yet.
- `Apart`: without the window, a thread finds its own connection and its own device
  under its numbers, and at most one thread is between its closes, where its number
  is free. This is where the window is needed: `CloseSecond` closes nothing.
- `InStep`, `Shares`: the two programs are at most one round apart, and whoever is ahead
  has not begun it; a thread that runs has bytes to send, and sizes and numbers of
  threads are powers of two. The latter cannot be an induction over exponents here, so
  `PowerOf2(m)` says that 1 is the only odd divisor of `m`, which doubling keeps.
  Two shares that are not empty are then equal (`SameShare`): one of size and threads
  divides the other.
- `Links`: in one round a connection is in one place, in the backlog, in the table or,
  read from and closed, nowhere (`OnePlace`); so it has one reader (`Peers`), and
  the answer on it is of that reader (`Answers`).

`Pairs` alone is not inductive: that two threads of the server do not learn the same
peer needs `OnePlace` and that no thread reads another's connection, `Apart`.

**FunctionProofs**:

- of `EchoFlow`, `TypeCorrect`, `NeverBothBlocked`, `EveryByteAccountedFor`, from
  `BuffersAssumption`. The strengthening is `NoByteLost` with `Phases`, which ties
  the client's phase to the bytes left: if both writes block, the buffers are full,
  the client holds a byte and so does the server, hence the message is longer than
  `Up + Down + 1`;
- of `Partition`, `PartsAddUp`, `WithinBuffer`, `Separate`, `Overlap`, for every size and
  number of queue pairs, by way of one lemma that gives the sizes without the
  division (the solver cannot divide by a variable, so products stay named);
- of `Results`, `SavedRowsStay`, `ReadsWithin`, `LengthsInUse`, `RoundsFit`, for every
  length of the array: rows start at multiples of six, so whether the last row is
  cut off is whether six divides the length;
- of `WireForm`, `GidRoundTrip`, from `BytesRoundTrip` (a word is its four bytes) and
  `HexRoundTrip` (eight digits are the word), and `NoMtuRefused`;
- of `Resources`, `ExampleInOrder`, `StreamsInOrder`, `ArraysLeak`: with and without
  events the example makes nothing before what it is made from and gives nothing
  back before what is made from it; the same for any number of queue pairs of the
  multi-stream test, by comparing ranks kind by kind, and there two arrays
  are left that only the freed context points to.

Only model-checked is liveness (`Finishes`, `LeavesOrSpins`, `CloseReleasesPeer`,
`LeavesOrWaits`, `EndsRight`, `RoundsEnd`, `AllRoundsUndisturbed`,
`ClientsGetThrough`, `RoundsMeasured`, `Answered`): the prover
cannot reason about `ENABLED`, which fairness needs. Of safety, `NoneLost` in
`ServedOnce` is only model-checked, with more slots than sockets (its other half,
`OneSlot`, is `NoSlotTwice`); every other invariant that a passing run checks
and the two refinements of `Rally` are theorems, and so is `LostToItsPast`, which no run
checks.

## 7. Not modelled

- `temp/`: drafts, which `CMakeLists.txt` does not build and nothing uses.
- The measured loop of `multithreadIB.c` has no module of its own: it is the loop
  of `RcPingPong` without events, and one step in `MultiThread`. A device or an
  allocation that fails in the multi-thread test.
- Option parsing, name resolution, output and time stamps: no property depends
  on them. Of the results, the floating-point figures and the text of the files.
- The variants of `Connector::connect` and `Stream::receive` with a timeout: they
  have no caller.
- `pthread_create` that fails in `MultiThreadTcpClient.cpp:82`, after which an unset
  identifier is joined.
- Memory: what overlapping buffers, the use of `ctx` after `pp_close_ctx`
  (`multistreamTestRunner.c:820`) or `calloc(0, ...)` (`multithreadIB.c:601`) do depends
  on the allocator. They are listed as hazards.
