# Formal models of hft-latency-lab

TLA+ models of the two-lane trading prototype in this repository: a host that
streams order-book deltas over UDP, a PYNQ board whose programmable logic (PL)
turns them into features and a neural score, and the host strategy that joins
the score with a rule engine. The models are checked with TLC on small
instances; the theorems are proved with TLAPS for every value of the constants.

Paths are relative to the repository. `PROJECT.json` lists the components, the
runs, the mutated definitions each property is tried against, the lines every
definition stands for, the hazards and the theorems.

## 1. The system

### Components

| component | state | operations | talks to |
|---|---|---|---|
| price-level book, `host/strategy/book.py` | two dictionaries, two cached best prices | `load_snapshot`, `apply_update` (add, modify, reduce), `get_spread`, `is_crossed` | called by the runners, read by the reflex engine |
| reflex engine and arbiter, `reflex.py`, `arbiter.py` | inventory (never changed), thresholds | `evaluate`, `decide` | called by the runners |
| packet loops, `replay_runner.py`, `runner.py`, `soc_runner.py` | sequence number, socket, rows | send, reflex, wait 20 or 100 ms, decide, write a row | UDP with the echo servers |
| latency client, `host/udp/test_lob_stream.py` | `pending_sends`, counters | send, try to receive, match by sequence number | UDP with the echo servers |
| replay client, `host/udp/replay-udp.c` | windows of outstanding packets | ping mode, lob mode with batches, drain | UDP with the echo servers |
| feature echo servers, `feature_echo_mt.py`, `feature_echo_c.py`, `dma_driver.c` | two bounded queues, counters, DMA registers and buffers | three threads: receive, process through the PL or fall back, send | UDP clients, the DMA engines of the PL |
| feature pipeline, `feature_pipeline.cpp` | 16-level book, OFI, burst, volatility, last time | parse a packet, apply its deltas, emit one feature record | AXI streams from the DMA and to the MLP |
| MLP and weight loader, `mlp_infer_stream.cpp`, `weight_loader.cpp`, `run_cycle_bench.py` | weight arrays, reload flag, start and completion bits | reload weights, one score per record | AXI streams, control registers |
| measuring IPs, `traffic_gen_const.cpp`, `latency_timer.cpp`, `score_sink.cpp`, `mlp_core_stream.cpp`, driven by `soc_latency_diag_*.py` | counter, strobes, sticky completion bits | start, stop, latch; clear, reset, start, wait, read | wires and registers |
| packet test, `tests/validate_features_off_packets.py` | its own book and averages | recompute every dumped reply | the dumps of the replay client |
| DPDK echo, `host/dpdk/echo-io/main.c` | mbufs in a pool, two ports, counters | seed, forward in bursts | the NIC |
| tuning scripts, `infra/tuning/*.sh` | sysfs settings and a backup | apply, revert, verify | the kernel |
| models, `models/` | trained and quantised weights, reference features | train, quantise, export | files |

### How they interact

```
 LOBSTER files ─► lobster_loader ─► SimpleBook ─► ReflexEngine ─┐
                                                                Arbiter ─► csv row
 runner loop ── UDP request ─► receiver ─rx_queue─► processor ─tx_queue─► sender ── UDP reply ─┘
                                                     │  ▲  ▲
                                               MM2S  │  │  │ S2MM (features, scores)
                                                     ▼  │  │
                                      feature_pipeline ─┴─► mlp_infer_stream
```

The host clients and the server exchange datagrams with a sequence number. The
server's threads share two bounded queues and a dictionary of counters. The
processor thread and the PL share DMA registers (a sticky completion bit, error
bits, a length whose writing starts a transfer) and two memory buffers; a
feature record and a score carry nothing that says to which packet they belong.
The strategy calls the book and the two decision functions synchronously.

### What is hard

* **Attribution.** Requests and results are paired by order only, at three
  places: features and scores with packets in the server (`feature_echo_mt.py`
  218-310), replies with packets in the runners (`replay_runner.py` 94-115), beats
  with packets in the pipeline (`feature_pipeline.cpp` 10-101). A timeout or a
  wrong length at one of them moves every later pair.
* **Timeouts.** The server abandons a transfer it cannot cancel; the score drain
  gives up after a millisecond; the runners stop waiting while the reply is on
  its way.
* **Bounded queues between actors**: `rx_queue`, `tx_queue`, the score queue
  behind the MLP (the comment at `feature_echo_mt.py` 270 calls draining it
  critical), `ds` inside the pipeline, the DPDK rings and the mbuf pool.
* **Caches.** `best_bid` and `best_ask` are recomputed only by some of the updates.
* **Three arithmetics.** The FPGA wraps at 32 bits and truncates, the fallback has the
  unbounded integers of Python and floors, the test clamps; they disagree on resets,
  on levels beyond the book and on the order of bytes.
* **Strobes and sticky bits.** The cycle counter is started and stopped by wires of two
  different IPs, one of which is never lowered by the code; completion bits outlive the
  iteration they belong to, and toggle when the scripts write to "clear" them.
* **A driver that goes on.** `run_cycle_bench.py` catches and prints four exceptions on its way
  to a load of weights (l.155, 182, 193, 514), starts the loader all the same, rewrites pointers
  and a size when the loader runs already (l.196-211), and stops waiting after 200 ms
  (l.522-527) as if the load were complete.
* **Missing parts.** A missing `axi_dma_1` is only a warning of the server
  (`feature_echo_mt.py` 401): the scores are then never drained.
* **Partial knowledge.** The replay's book starts from the best levels of a snapshot that
  already holds the first message, receives no message of orders beyond those levels, and reads
  executions of hidden orders as reductions.

### What makes each component correct

| component | properties |
|---|---|
| book | no exhausted level stays; the cached price is the extreme of its dictionary |
| replay | the book is too high only where an order was counted twice or left unseen, too low only where the files hid something or a hidden trade was taken off, and no longer than until the level empties; a wrong reflex decision needs such a level at the top |
| echo server | replies in order, at most once, none invented; results of the right packet, or older by no more than the abandoned transfers; score queue drained while the score channel works, the PL stopped but the clients answered where there is none |
| runner | a row's reply is its own unless a timeout came before; no reply used twice |
| latency client | each reply measured once, from the moment its own packet was sent |
| replay client | each event sent once, in order; one reset; dumps that can be joined |
| feature pipeline | one record per packet, from the packet's own beats; no packet waits for ever |
| DPDK echo | no buffer leaked; every frame accounted for; no drop in the closed loop; ends on a signal |
| feature arithmetic | FPGA, server and test agree field by field, unless one of a list of named causes was seen |
| weights | whichever register access failed, an acknowledged load is complete in number and in place wherever the pointers were seen in time; no score from half a load; cores that were told the same sizes do not wait for ever |
| measuring IPs | the counter holds the latency of the packet it was started for; when it can be read too early |

## 2. Modules

```
SimpleBook ── LobsterReplay ── LobsterReplayProofs       ReplyServer (abstract)
                   │                                          ▲ refinement
               Strategy ── ReplayRunner                  EchoServer ── PlDevice
                              │     │                        │
                              │  ReplayRunnerProofs     EchoServerProofs
                              │
                UdpPath ──────┼── LobStream ─┐           FeatureStream ─┐
                              └── ReplayUdp ─┴─ HostClientProofs        ├─ FeaturePipelineProofs
                                                         FeatureParity ─┘
                                                              └── MCFeatureParity
                                                         DpdkEcho ── DpdkEchoProofs
WeightLoad ── WeightLoadProofs
     └─────── MCWeightLoad                               LatencyBench ── LatencyBenchProofs
```

| module | models | state and actions against the code |
|---|---|---|
| `SimpleBook` | `book.py` | `book[side]` is `bids`/`asks` as a function from prices to quantities, `best[side]` the cached price. `LoadSnapshot`, `Add`, `Modify`, `Reduce` are the method `apply_update` by action, with `RemoveOrder` and `Recalc` inside them. A modification of an absent level to 0 raises `KeyError` before anything changes. |
| `Strategy` | `reflex.py`, `arbiter.py` | two functions, `Evaluate` and `Decide`; scores are in whole units, as the arbiter's threshold is |
| `LobsterReplay` | `lobster_loader.py` and the reflex lane of `replay_runner.py` | `resting` is the exchange's visible book, which the files only sample; one action per class of message, `FirstSubmission` and `FirstWithdrawal` for message 1, whose effect the snapshot already has, and `UnseenSubmission`, `UnseenWithdrawal` for orders outside the files' range (`InRange`); `act` is what `evaluate` returned; `missed` and `stale` record where the book may be too low and too high |
| `ReplyServer` | the promise of an echo server | accepted requests wait; the oldest is answered or dropped; nothing else |
| `PlDevice` | DMA engines and PL as the driver sees them | one S2MM channel for features and one for scores, each with busy, IOC, error and buffer; a transfer of either may fail; two bounded queues. External, except the register protocol of `dma_driver.c` |
| `EchoServer` | `feature_echo_mt.py`, and `feature_echo_c.py` in the behaviours where `cserver` holds | three threads (`rx.pc`, `proc`, `tx.pc`), the queues, the shared counters. The processor's steps are the register accesses between which the device may act. `HasScore` says whether the running server found `axi_dma_1`; `wide` that the OFI of the fallback has left 32 bits, so that `struct.pack` raises (`FallbackRaises`) |
| `UdpPath` | the cable and the server as a client sees them | `ReplyServer` over a path that keeps order, delays, and loses when `Lossy`; external |
| `ReplayRunner` | the packet loop of `replay_runner.py` | one iteration is `SendAndReflex`, then `Receive` or `Timeout`, each of which writes the row |
| `LobStream` | `test_lob_stream.py` | `nsent` and `nreceived` are its `sent` and `received`; one round is `SendPacket`, then `Receive` or `Timeout`; `clock` counts its readings of the clock, `pending_sends` maps a number to the reading stored for it, which `Receive` looks up; `sentAt` is the history it is compared with |
| `ReplayUdp` | `replay-udp.c`, mode lob | the loop over lines (`ReadLine`, `Wait`, `Add`, `Send`, `Poll`), the copy of the sending code at the end of the file (`Flush`), the final drain |
| `FeatureStream` | `feature_pipeline.cpp`, its packet loop | a beat is its position in the stream; `ReadHeader`, `ReadDelta`, `UpdateBook`, `Emit`. Off a boundary the word read as a count may be anything |
| `DpdkEcho` | `host/dpdk/echo-io/main.c` | mbufs are counted: pool, posted, received, queued, held. `Seed`, `RxBurst`, `TxBurst`, `Check` are the program; `Transmit`, `Arrive`, `Refill` the ports (external) |
| `FeatureParity` | the arithmetic of `feature_pipeline.cpp`, of the processor thread of `feature_echo_mt.py` and of `validate_features_off_packets.py` | `pl`, `ps`, `test` are their variables; `PlAfter`, `PsAfter`, `TestAfter` what a packet makes of them, along its deltas (`Along`), at the widths of the code in bytes of `Base` values. `ServeFromPl`, `ServeLate`, `ServeUnfed` are the ways a packet takes through the server; `apart` records what may make the three differ |
| `WeightLoad` | `weight_loader.cpp`, `mlp_infer_stream.cpp`, the load in `run_cycle_bench.py` | `loader` and `mlp` are the two cores, each at its place in the load; `chan` the word between them; `ctrl` the register bits; `cache` the static arrays; `Score` the arithmetic of the network. `SetUpFails`, `StartFails`, `LoadFails` are the exceptions; `Told` and `Aimed` the sections whose size and pointer the loader's call may find right when it starts, `Reassert` the later writes, which reach only the sections it has not come to; a wrong pointer yields a word of `Stray` |
| `LatencyBench` | `traffic_gen_const.cpp`, `mlp_core_stream.cpp`, `score_sink.cpp`, `latency_timer.cpp`, `soc_latency_diag_core.py`, `_nodma.py`, `_mlp_only.py` | `Clock` is one clock of all blocks, each reading the wires as they were; the script's register accesses are the other actions, at least one clock apart; a write to the completion bit of the MLP toggles it (`ClearISR`, `AckMlp`); `watch` is a stop watch on the packet of the iteration |
| `MCWeightLoad`, `MCFeatureParity` | | the models, inputs and packets of small instances |
| `...Proofs` | | the theorems, section 6 |

Operators whose comment begins with "Slip" are mistakes the code could have made:
each property is tried against one of them and fails, which shows that the
instance is large enough for the property to say something.

## 3. Runs

| run | question | what it shows |
|---|---|---|
| `replay` | level-limited files, the first message counted twice, unseen orders, hidden trades | `BestIsExtreme`: the partial recomputation of the cached prices is enough. `OverstatesOnlyIfStale`, `UnderstatesOnlyIfMissed`: where and for how long the book may be too high and too low; elsewhere it is exact. `TakeIsRealOrStale`, `BlowoutIsSeen`: a false arbitrage or a missed blow-out needs a stale level at the top of a side |
| `echo` | both servers: three threads, PL with faults of both channels and arbitrary timing | refinement of `ReplyServer`; `BoundedLag`, `OwnScores`, `ResultsInOrder`: which packet a result belongs to; `DrainKeepsUp`, `DrainPreventsBackpressure`: the score queue; `CleanBetweenPackets`; `CountersConsistent` |
| `echo_answers` | the same under fair threads, two packets; the C server on a board without `axi_dma_1` | `EveryoneIsAnswered`, but for a dead sender and for the packet whose fallback cannot be packed: no values yet in the C server, or an OFI beyond 32 bits. `UndrainedStops`: without the second DMA the PL yields no more results than its score queue has places, then stops for good; the rest goes through time-outs and the fallback |
| `runner` | delays and losses, five packets | a timeout makes all later rows late by one (`LagIsTimeouts`, `BacklogIsTimeouts`), and only losses undo it (`LagIsSticky`); `RepliesUsedOnce` |
| `stream` | packets of any size, two depths of `ds` | `CorrectUntilOversize` with a queue that is deep enough and one that is not; `EveryPacketAnswered` |
| `dpdk` | ports with rings of a burst and a half, other traffic, loss, signal | `MbufsConserved`, `DropsAreForeign`, `RefillNeverFails`, `StopsOnSignal` |
| `replay_udp` | both pacings, batches of two, loss | `EventsOnceInOrder`, `FirstPacketResets`, `FeaturesHaveDeltas`, `RepliesDumpedOnce` |
| `lob_stream` | delays and losses | `RowsAreOwn`, `EveryReplyMeasured` |
| `latency` | four overlays, packets of 0, 1 and 2 beats, three iterations, strobes that last a clock or stay, an ISR that toggles | `CountsItsPacket`: what the counter holds after the end of a packet that met an empty fabric. `ReadAfterTheEnd`: a script whose write really cleared the bit is not fooled by an earlier completion. `NeverTwiceEarly`: a reading that came too early is followed by one that does not |
| `weights` | sections from empty to larger than the arrays; register accesses that fail or come late, in every combination the source reports | `LoadLandsInPlace`: what an acknowledgement is worth. `NeverTorn`; `LoadCompletes` under fairness of the two cores |
| `weights_signed` | violation | the finding below |
| `parity` | overflow, resets, deep levels, losses, time-outs | `TestAgrees`: each of the four features agrees unless one of its causes was seen. `LanesAgree`: the reflex lane's book is the FPGA's |

### Finding

**The sign of the weights.** The header of `mlp_infer_stream.cpp` (l.9, l.11) documents the weights as `int8`, and
`models/tests/cpu_parity.py` 37 and 42 read the same files as `np.int8`; the exported
`mlp_int8.json` holds values from -127 to 125. The core stores them in `ap_uint<8>` arrays
(l.80, l.84) and multiplies them zero-extended (l.207, l.221): a weight of -1 counts as 255
(`SignedWeights`). The bench in the repository has its load switched off
(`ENABLE_WEIGHT_LOAD`), and would load weights that are all 1.

### Divergences noticed in the source and not made into runs

* `replay_runner.py` 43-44 loads the first row of the order book file under the comment "Load Initial
  Book State" and l.81 then applies message 1. Row k of that file is the book after message k
  (`models/datasets/build_labels.py` 63 pairs the files so): the level of message 1 is counted
  twice, or reduced twice. The message file has no orders beyond the listed levels, so a level that
  leaves the range and is withdrawn there stays in the runner's book. Either leaves quantity the exchange
  does not have, and the runner's book is crossed where the exchange's is not: TAKE_LIQUIDITY, "Arb
  opportunity" in `reflex.py` 7, is then decided for ever after, which `TakeIsRealOrStale` allows and
  ties to a stale level at the top of a side. The recorded `latency_analysis/replay_aapl_1.csv` has
  TAKE_LIQUIDITY on 4915 of 5000 rows, without a break from its third second on.
* `soc_latency_diag_nodma.py` 183-187 and `soc_latency_diag_mlp_only.py` 230 write 0x3 to the ISR of the
  scoring stage to "Clear any stale MLP done/ready". The register toggles (l.121 of the first, "Clear
  toggled bit"): a bit that was clear is set, the wait for the score returns at once, and the counter is
  read while the beat is on its way. This happens in the first iteration already. The beat then
  completes after the acknowledgement and leaves the bit set, so that the write of the next
  iteration does clear it: early and correct readings alternate as long as nothing times out. `ReadAfterTheEnd`
  says when a reading is not early, and `NeverTwiceEarly` that an early one is followed by one that
  is not. `run_cycle_bench.py` writes the register twice (l.399, l.406), which leaves it as it was.
* `feature_pipeline.cpp` 228 declares `ds` 8 deep, l.63 up to 128 deltas, all written
  before the first is read (l.99, l.285). In hardware a packet of more than 8 deltas
  would stop the pipeline; `EveryPacketAnswered` excepts such packets, and only them.
* `feature_pipeline.cpp` 230 calls `cyc` a per-packet cycle counter; it is incremented
  once per round of the packet loop, so `feat_dbg_cycles` is 1.
* `replay-udp.c` 443 speaks of a grace period of 200 ms; the socket does not block and
  l.447 leaves at the first empty read.
* `lob_v1.h` 68 and `test_lob_stream.py` 115-117 take the fifth word of the timing
  trailer for the transmission time T6; `feature_echo_mt.py` 59-72 puts the reflex
  time there and T6 sixth.
* The clamp of `feature_pipeline.cpp` 28-30 stops reading a packet after 128 deltas and
  leaves the rest in the stream, where it is taken for headers; the server accepts up to
  254 (`recvfrom(4096)`). `CorrectUntilOversize` says how far the stream can be trusted.
* `feature_echo_c.py` 31 announces a "pure Python fallback" that computes nothing (l.242-245):
  until a transfer of the PL has succeeded l.248 raises `UnboundLocalError`, and the packet
  is never answered.
* `replay_runner.py` 101-103 reads the score at byte 48 of a reply. The servers put it at
  byte 100, in the timing trailer; byte 48 is the high half of T2.
* The reset bit is dropped by the PL (`feature_pipeline.cpp` 25-27) and honoured by the
  test (`tests/validate_features_off_packets.py` 56). The server means to honour it, but swaps
  the bytes of flags that `struct.unpack(">...")` has already put in order
  (`feature_echo_mt.py` 125), so that it loses the bit for fewer than 128 deltas and takes
  a count of 128 or more for it. Because of this slip its book stays that of the PL (`LanesAgree`).
* The time of a packet is swapped in the same way (l.184), so the fallback's averages follow
  another clock.
* The feature record lies in memory least significant byte first; `feature_echo_mt.py` 292-295
  reads it as if most significant first and sends it so, while the test and
  `test_lob_stream.py` expect the opposite order. `TestAgrees` compares values up to this swap;
  the test itself reports every reply whose bytes are not symmetric.
* The same lines store the record in the fallback's own totals, so that the next fallback
  goes on from byte-swapped values; one that leaves the range of 32 bits makes `struct.pack`
  raise at l.340 (l.248 of `feature_echo_c.py`), and the packet is not answered: `FallbackRaises`,
  which `EveryoneIsAnswered` excepts.
* The exception of a pointer or a size that cannot be written is printed and the loader started all the
  same (`run_cycle_bench.py` 155, 182); l.141, 204 and 210 report pointers and a size seen wrong on
  hardware. A load can be acknowledged with sections read from a wrong place:
  `LoadLandsInPlace` vouches only for those whose pointer the loader saw in time.
* `replay_runner.py` sends its packets with the reset bit set, all of them.
* `traffic_gen_const.cpp` 55 calls the start "One-cycle strobe to external timer"; the code
  never lowers it before the next call, and `latency_timer.cpp` 17-43 counts while it is high.
  With a wire that keeps its level the counter runs again after its stop;
  `CountsItsPacket` excepts that case, except where the stop strobe stays as well.
* `soc_latency_diag_core.py` reads the counter after the generator is done and a sleep,
  without waiting for the score; `ReadAfterTheEnd` leaves that overlay out, and packets of
  more than one beat, whose first score already sets the completion bit.
* A weight loader that fails to start, or was told fewer words, is only printed (`run_cycle_bench.py`
  193-194). The inference core was started before with `reload_weights` set and waits for words for
  ever, while the driver goes on and prints "Weights Loaded. Switched to Inference Mode."
  `LoadCompletes` is about loaders that run with the core's sizes. The whole path is switched
  off in the repository (`ENABLE_WEIGHT_LOAD`).
* Both weight cores count the announced words, but the inference core stops at the end of its byte
  arrays: a larger load leaves words in the stream for the next one (`Fits` in the properties).

## 4. Bounds and inputs

In `replay` two prices, of which the files list one per side, and
three lots let a level leave the range and return, and hold a doubled order, an unseen one and a
hidden trade at once, and give every order of an insertion, a removal and a recomputation
around the best price, except that no runner modifies an order: `Modify` is in the proofs, over any
sequence of calls (`BookSpec`), and in no run. `MaxQty` bounds a level of the exchange and one of the runner, which is
the higher by what is stale. The proofs remove these bounds. Three packets in
the server give an abandoned transfer, the packet that receives its result and one
more; two entries per PL queue let them fill; `SockCap = 1` is enough for a loss at the
socket; `QueueSize` is 2, so that a full queue blocks its producer. The run under fairness has smaller ones: two
packets, one entry per queue, which is enough for the PL to stop and for every thread to wait for another. Four packets of the replay client, five of the
runner, six of the latency client let a client fall two replies behind and lose one in
between. In `stream` the counts are none, within both depths of `ds`, at
the clamp, and above both the clamp and the server's buffer. In `dpdk` rings of three
descriptors and bursts of two make a ring refuse part of a burst; `MaxRx` ends the
exploration after three frames and is not in the code.

In `latency` three iterations let one leave something to the next and that one to the one after, two beats give
a packet whose end is not its first score; the counters stop at 8 clocks. In `weights` the
network has two hidden units and two inputs, words of two bytes of two bits: sections are
empty, end inside a word, at a word, at the array, and beyond it; the sections told and aimed right are those the
comments of the source report, all of them, and none. In `parity` bytes have eight
values, so that quantities and totals (four bytes) overflow at 2048, and a packet of four deltas is the
largest the pipeline takes; three packets and one fault give a state that a lost packet, a late
result or a reset set apart, and a packet that shows it. The time constants are small against
the times for the averages to decay.

Inputs left out: the padding of a short side in a LOBSTER snapshot (price
9999999999, size 0), which `lobster_loader.py` 46 would take for a level; clocks that
run backwards in `replay-udp.c`; more than 32767 deltas in a batch; sides and actions outside the ranges
of the protocol; more words of B0 than hidden units, which `mlp_infer_stream.cpp` would store outside
its array.

`CHECK_DEADLOCK FALSE` is set where the system may stop: a client that has sent
all its packets, a server with nothing to do, the forwarder after a signal, a script after its
last iteration, a core without input.

## 5. Fairness

* `EchoServer`: weak fairness of each thread. The interpreter and the kernel
  schedule all three, and a queue operation that waits is not enabled. None of the
  device or the clients: a poll ends by its own time limit (`feature_echo_mt.py`
  256-330). Dying threads (an exception in the socket calls) are steps that need not
  happen; `EveryoneIsAnswered` excepts a sender that has died and the packet in the fallback whose
  values cannot be packed. The run `echo_answers` has this fairness; `echo` is about safety only.
* `FeatureStream`: weak fairness of the pipeline, which runs off the PL's clock.
* `WeightLoad`: weak fairness of the two cores, which run off the PL's clock. None of the driver:
  a load of which both cores know the sizes ends whatever the driver does.
* `DpdkEcho`: weak fairness of the polling loop, which never waits. None of the ports.

## 6. Proofs

All for arbitrary constants, under the named assumptions of each module
(naturals, positive sizes, `None` apart from the numbers and the records it stands beside).
Every safety property of the passing runs is a theorem; so are `NoEmptyLevel` and `FramesAccounted`, which
no run repeats. Each is proved from an inductive invariant that TLC had first checked on an instance.

* **`LobsterReplayProofs`**. Of the book alone (`SimpleBook`, any sequence of calls): `BookInvariant`,
  `LevelsArePositive`, `CacheIsCorrect`. The cache is right only because
  no level is ever empty and dictionaries hold only prices, so `BookInv` joins types,
  `NoEmptyLevel` and `BestIsExtreme`. The lemma `RecalcIsExtreme` (a nonempty set
  of prices has an extreme, so `max` and `min` are what the `CHOOSE` says) carries the
  removals; there is one lemma per operation. Of the replay: `BookOverstatesOnlyIfStale`,
  `BookUnderstatesOnlyIfMissed`, `TakeNeedsACrossOrStaleness`, `BlowoutIsNeverMissed`, for any depth
  of the files. `AddShown` and `ReduceShown` say what an update does to the quantity shown at a price,
  a reduction below nothing included. `NoteKeeps` is the step: two inequalities, the book not above the exchange
  and not below it, survive at every level an action does not give to a history; where the exchange
  has nothing the second holds by itself, and where the runner has nothing the first, which is
  when the histories forget. `IInv` adds to these that `act` is the reflex action of the
  present book, without which a decision and a book could not be related.

* **`EchoServerProofs`**, in three parts, for both servers, any queue sizes, any number of packets,
  with or without the PL and its faults.

  *Counting*: `ServerInvariant`, `TypesOK`, `CountersStayConsistent`, `ScoresAreDrained`. `Places` says that
  a thread holds something exactly where it should. `CountInv` counts every datagram inside:
  replies sent, held and queued, the one in the processor and the requests queued do not
  exceed `rx_pkts` and the datagram the receiver has put but not yet counted. `ScoreInv` is a
  budget: the scores waiting in the device, the request on its way to become one and a
  completion not yet acknowledged are at most the packet in progress, the completions that were not
  drained, the abandoned transfers and the failed copies.

  *Refinement*: `ServerImplementsReplyServer`. The requests inside the server form one
  line: those already answered, those in service from the sender back to the receiver, those at the
  socket. Every step of any thread or of the device is a `Move` of that line: it keeps it, a packet
  joins at the socket or is refused there, enters service, leaves by a reply, or vanishes
  (`EveryStepMoves`, one case per action). The line is strictly increasing below the next number
  (`MoveKeepsOrder`), which is why an entering request is fresh; and each kind of move is an
  abstract `Accept`, `Answer`, `Drop` or a stutter (`MoveIsAbstract`).

  *Results*: `ResultsInvariant`, `NothingOutlivesItsPacket`, `ScoresAreOwn`, `DrainIsEnough`,
  `UndrainedPLStops`, `ResultsKeepOrder`, `LagIsBounded`. A feature record does not say whose it is, so what can
  be known comes from order and from counting. The line above and the packets in the device are
  both in the order of sending, and nothing in the device is newer than the packet in progress
  (`DeviceInOrder`); a reply holds nothing newer than what its channel has moved to memory
  (`RepliesInOrder`). `BufferLag` counts the answered packets of deltas, and those inside the PL, that the
  feature buffer does not show yet: no more than the transfers abandoned, one less when a
  completion waits unseen, one more while the packet in progress may still be abandoned.
  `FallbackLag` is the same for the values `feature_echo_c.py` falls back to, and `ReplyLag`,
  which is the property, follows when a reply is formed. `Traced` says, place by place of the
  processor, what is in the device while nothing has been abandoned. `FullIsDrained` was needed
  because the property itself is not inductive: a full score queue is emptied because a feature
  record is on its way, seen, or its drain has begun. It speaks of a server that has the score channel, and
  as long as neither receive channel carries an error; `UndrainedPLStops` is about the other:
  without the channel every result the PL has yielded still has its score in the queue (`Undrained`).

* **`HostClientProofs`**, both clients on the same lemmas about the path: what is in the socket is
  before what is on the way, both in the order of sending (`Queued`), so a client that takes from
  the front takes each reply once and in order, whatever is lost (`PathKeepsOrder`,
  `RequestKeepsOrder`, `TakingKeepsOrder`).
  Of `replay-udp.c`: `EventsGoOnceInOrder`, `OnlyTheFirstResets`, `FeaturesCanBeJoined`,
  `RepliesAreDumpedOnce`. `Batched` says that the deltas of the packets sent, one packet after the
  other, and the batch in hand are the lines read so far. `FlattenSeq` is a recursive function;
  that it exists and what one more packet adds to it is proved from a least counterexample
  (`LeastNumber`). Of `test_lob_stream.py`: `LatencyInvariant`, `LatencyIsOwn` and `EveryReplyHasARow`,
  which are `RowsAreOwn` and `EveryReplyMeasured` of the run `lob_stream`: the sending times
  stored are those of exactly the packets without a row, each the one the clock showed when its packet was
  sent, and all earlier than the clock shows now.
* **`ReplayRunnerProofs`**: `RunnerInvariant` and the four properties of the run. The replies a row may
  still get lie in one queue, the datagrams unread and those under way, in the order of the
  packets (`QueueInOrder`) and after everything already used (`RowsBeforeQueue`). `Balance`
  counts them: packets sent are rows with a reply, lost datagrams and that queue.
  A row can be behind only by what the time-outs before it left in the queue.
* **`FeaturePipelineProofs`**. Of the packet loop (`FeatureStream`): `StreamStaysAligned`,
  `OneFeaturePerPacket`. Packets lie one behind
  the other (`Layout`); up to the first oversize packet the parser is at a boundary
  between packets and at the right place inside one (`AtBoundary`, `InPacket`).
  `OneFeaturePerPacket` is the corollary for clients that stay within the clamp.
  Of the arithmetic (`FeatureParity`): `BooksInStep` and `FeaturesAsExpected`, for bytes of any even
  number of values, so for the code's. A packet is followed delta by delta (`Along`, a recursive
  function: that it satisfies its equation, `AlongIs`, and that what passes from each state to the next
  reaches the last, `Upwards`, both follow from a least counterexample). `BooksInStep`:
  flags swapped once too often are no reset as long as the count is below half of a byte's values (`FlagsKept`), and a
  delta does the same to two equal levels where the sum is not wrapped (`BooksAgree`). The invariant of
  `FeaturesAsExpected` relates the test's variables to the pipeline's, field by field and only where none of the
  field's own causes was seen (`Agree`); while a reply is under way it says so of what the test
  will have computed (`TestFollows`). It needs no more of the numbers than that wrapping and
  saturating do not change what fits, and that truncation is the floor where nothing is cut off
  below zero.
* **`DpdkEchoProofs`**: `NothingIsLeaked`, `FramesAreAccounted`, `ClosedLoopNeverDrops`, `RefillSucceeds`.
  The invariant counts, per direction,
  the frames in flight against those seeded and those that came from elsewhere; a
  direction never carries more of the seeded frames than its ring took at the
  start, which is why the forwarder never drops them. A refill finds an mbuf because
  what the rings, the bursts and foreign frames can hold is less than the pool.
* **`LatencyBenchProofs`**: `BenchInvariant`, `ReadingCountsItsPacket`, `NoEarlyReading`,
  `NoTwoEarlyReadings`. In an iteration
  that meets an empty fabric the register that runs the counter goes in step with a stop watch
  on the packet (`InStep`). Before the start nothing moves (`Waiting`); then the generator has the only
  beat (`Begun`), and every beat in the fabric is the iteration's (`Going`), so that the strobe which
  stops the counter is the one that ends the packet (`StopEnds`). With a wire that keeps its level this
  holds only where the generator's own `last` stops the counter. For a packet of one beat whose
  iteration did find the completion bit set, the toggling write has cleared it, and it is raised by its
  own beat (`OneBeat`), one clock before the sink in the `nodma` overlay, which is why the script's
  access must take a clock. That an iteration after an early reading is such a one needs where the
  early beat is: its completion is still to come, and comes after the acknowledgement.
* **`WeightLoadProofs`**: `AcknowledgedLoadsAreInPlace`, `ScoresAreWhole`, for any network, any models, any
  failures of the driver and any sets of sections told and aimed right. The loader and the core walk the same places
  as long as they know the same sizes; between them lies the word in the channel, so a load that fits is at
  every moment a prefix in the arrays, one word on its way and the rest still to send. A loader that was told
  less skips a section the core waits in: from then on it is ahead for good, the core starves at
  the end of the stream and never acknowledges, so an acknowledgement proves the sizes. A late write
  reaches only sections the loader has not begun, which is why it cannot tear one.
  The core is in its inference path only when it never began to reload or has come to the end.

Model-checked only: everything about liveness (`EveryoneIsAnswered`, `EveryPacketAnswered`,
`StopsOnSignal`, `LoadCompletes`), which is out of the prover's reach; and that `SignedWeights` is
violated, for which an instance is enough.

## 7. Plan

Done: the modules above. Next, in this order:

1. `echo.c` and `udp_echo.py` as a second implementation of `ReplyServer`; ping mode of
   `replay-udp.c` (the window of outstanding packets).
2. `mlp_runtime.py` (capture of a score) and the tuning scripts (apply and revert run any
   number of times).
3. Proofs over the composition: what a client over `UdpPath` may rely on, from `ReplyServer` alone.

## 8. Not modelled

* About 22 700 of the 24 700 lines of C++ in the repository are written by Vitis HLS
  (`solution1/.autopilot/db`: preprocessed sources and wrappers of the co-simulation of
  `mlp_core_stream` and `score_sink`). They contain the library of the tool and, once more, the
  two cores, which are modelled from their sources (`LatencyBench`). Mapping definitions to
  them would say nothing about this system.
* Training, quantisation and export: floating-point batch programs.
* Analysis scripts: functions of finished files.
* DPDK and PTP set-up scripts: calls of system tools.
* Tuning scripts, the plain echo servers, the scripts that send one packet at a time through
  the DMA: see the plan.
* Inside modelled parts: the parsing of LOBSTER files, the statistics the clients print, the
  mapping of `/dev/mem`, the scales of the network's layers (1 here) and the quantisation of its
  inputs, the validator `validate_features_offline.py` (which compares OFI and
  imbalance only) and the floating-point reference `models/features_ref.py`.
