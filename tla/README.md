# Verification of the LoRa packet forwarder

TLA+ specifications of the Semtech SX1302 packet forwarder in
`src/package/base/pforwarder_package`, checked with TLC and proved with TLAPS.

## The system

The repository is an SDK for Teltonika RUTM routers. Almost all of it is the
OpenWrt build system, U-Boot, kernel patches and third-party packages. The one
program it brings along in source is the LoRa packet forwarder, a gateway
between a LoRa concentrator and a network server. It consists of

| part | code | state |
|------|------|-------|
| JIT queue | `packet_forwarder/src/jitqueue.c` | packets waiting for their time, per RF chain |
| `thread_down` | `lora_pkt_fwd.c` | PULL_DATA keep-alive, beacon slots, downlinks from the server |
| `thread_jit` | `lora_pkt_fwd.c` | takes packets out of the queue and programs the radio |
| `thread_up` | `lora_pkt_fwd.c` | uplinks and statistics to the server |
| `thread_gps`, `thread_valid` | `lora_pkt_fwd.c`, `loragw_gps.c` | GPS time reference, crystal correction |
| `thread_spectral_scan` | `lora_pkt_fwd.c` | background scan with the second radio, which also serves Listen-Before-Talk (LBT) |
| `main` | `lora_pkt_fwd.c` | configuration, threads, statistics, signals and exit |
| HAL | `libloragw` | registers, timestamps, RX buffer, TX state machine |
| libtools, utilities | `libtools`, `util_*` | JSON, base64, test programs |

(`dist/` holds a second copy of the same sources.)

The threads share the JIT queue (`mx_jit_queue`), the concentrator
(`mx_concent`), the time reference (`mx_timeref`, `mx_xcorr`) and the
statistics. The core is the downlink path: a downlink has to be on the air at
an exact microsecond, and whether it can be is decided when it is queued,
seconds to minutes earlier.

## Modules

* `JitQueue`: what the functions of `jitqueue.c` compute. A queue is a
  sequence; `num_pkt` is its length. Counter arithmetic is modulo `CounterMod`
  (2^32 in the code). `jit_sort_queue` is a relation: `qsort_r` need not be
  stable, and the result is sorted whenever `compare` orders the queue
  (`Ordered`). A queue that spans half the counter range or more may have no
  order, in which case any permutation may result.
* `TxPath`: the two threads and the concentrator for RF chain 0, extends
  `JitQueue`.
* `Schedule`: what the downlink path promises, an abstract schedule; and
  `TxSchedule`: the refinement mapping from `TxPath` to it. The runs of `TxPath`
  are runs of `TxSchedule`, which extends it; `MCLateJit` adds that the instance of
  `late_jit` would have prompt threads (`Prompt`) with a smaller `JIT_LATENCY`.
* `TxPathProofs`: proofs about the queue, its packets and the index of `jit_peek`.
  Two lines build on it: `TxScheduleProofs`, with the count of beacons and the
  refinement, and `TxTimeProofs` and `TxPromptProofs`, with time and the radio, then
  the search of immediate slots and the theorems on prompt threads.
* `PullProtocol`: the keep-alive of `thread_down` around the loop of `TxPath`.
* `PushProtocol`: `thread_up`, and the statistics and reports of `main`.
* `TimeRef`: `thread_gps`, `lgw_gps_sync` and `thread_valid`.
* `GpsSerial`: the serial buffer of `thread_gps`.
* `RxPath`: `lgw_receive` and the extension of the 27-bit counter.
* `MergePackets`: the removal of duplicates at the end of `lgw_receive`;
  `Reception`: `lgw_receive` as configured, with or without it.
* `SpectralScan`: the second radio between `thread_spectral_scan`, `thread_jit`
  and LBT.
* `Shutdown`: creation and end of the threads.
* `ProtocolProofs`: theorems about `PullProtocol` and `PushProtocol`;
  `ReceptionProofs`: about `Reception`, that is `RxPath` and `MergePackets`;
  `BackgroundProofs`: about `TimeRef` and `SpectralScan`; `ShutdownProofs`: about
  `Shutdown`. (Where one module of proofs extends two specifications, the names of
  one of them have a prefix: `PushSpec`, `ScanSpec`.)

The modules meet at narrow places. `TxPath` takes from `TimeRef` only whether
there is a valid reference, and from `SpectralScan` only that `lgw_send` may
fail; `PullProtocol` and `TxPath` are the outer and the inner loop of one thread;
`Shutdown` keeps of each thread its accesses to the concentrator.

`PROJECT.json` maps every definition to its lines.

### Steps of TxPath

A step is a critical section or the code between two. `thread_down` goes
through `recv -> beacon -> datagram -> recv`, calling `jit_enqueue`
(`full -> enqueue`) for beacons and downlinks:

| action | code |
|--------|------|
| `DownRecv` | return of `recv()`, `beacon_loop = JIT_NUM_BEACON_IN_QUEUE - num_beacon` (unlocked) |
| `BeaconPrepare`, `BeaconLoopEnd` | an iteration, and the end, of the beacon loop; the counter is read here |
| `DownIgnore`, `DownReject`, `DownPrepare` | the datagram received: none or not for the queue; a downlink answered at once (frequency, no GPS reference); a downlink of class A, B or C, the counter is read here |
| `JitFullCheck`, `JitEnqueue` | the two critical sections of `jit_enqueue`; the second includes the search of a slot for Class C, the three criteria, insertion and sort; then `BeaconDone` or `DownlinkDone` with its TX_ACK |

`thread_jit` goes through `wait -> start -> peek -> dequeue -> status -> send`:

| action | code |
|--------|------|
| `JitReadCounter` | `wait_ms(10)`, `lgw_get_instcnt` |
| `PeekStart`, `PeekDrop`, `PeekScan`, `PeekEnd` | `jit_peek`, one step per iteration, the lock held throughout |
| `JitDequeue` | `jit_dequeue` with the index peeked |
| `JitStatus`, `JitSend` | `lgw_status`, `lgw_send` with its failures |

`Tick` advances the counter and with it the TX state machine of the
concentrator (`sx1302_tx_fsm`); `GpsChange` is what `thread_down` sees of
`thread_gps` and `thread_valid`.

Abstractions:

* A packet is its timestamp, class and reserved interval. JSON parsing, payload,
  modulation and power are left out (a power that is not supported shows as a
  warning in the TX_ACK).
* The GPS time of a beacon is kept as the signed distance from now.
  `lgw_gps2cnt` converts a negative `double` to `uint32_t` when the slot is
  behind the reference, and one that is too large when it is more than a
  roll-over ahead; this is undefined, and the model allows wrapping and
  saturation. Crystal error is not modelled.
* `lgw_send` schedules the packet, fails without effect, or fails after it has
  reset the trigger; `lgw_status` may fail to read the status, which is taken
  for a free radio. Listen-before-talk, which makes it block, is assumed off.
* RF chain 1 has a queue and a radio of its own and is left out.
* `jit_peers` and `tx_peers` are history variables: which packets were in the
  queue together with the one taken out.

### Timing assumptions

Whether the schedule is kept depends on how late the threads run. Three bounds
are explicit:

* `JIT_LATENCY`: ticks between two readings of the counter by `thread_jit`
  (10 ms sleep plus processing in the code). `ProgrammedInTime` needs
  `2 * JIT_LATENCY + TX_START_DELAY < TX_JIT_DELAY`, that is 19 ms in the code.
  It is proved from this bound, see below.
* `DOWN_LATENCY`: ticks `thread_down` may spend between the points where it
  returns from `recv()` or reads the counter. The counter is read before
  `jit_enqueue` takes the lock, so a slow `thread_down` admits a packet against
  an old time, possibly ahead of the one peeked, and `DequeuesPeeked` fails.
  With Class A downlinks alone that takes a delay above
  `2 * (TX_START_DELAY + TX_MARGIN_DELAY) + TX_JIT_DELAY` plus the time on air
  (in the instance tried, with a time on air of 1, TLC finds it at 13 ticks and
  not at 12). With beacons it takes less: a late `thread_down` queues a beacon
  for a slot already past, which sorts ahead of everything. The instance of
  `beacons`, restricted to one Class A downlink, fails at 6 ticks and not at 5; no
  general bound is claimed. The run `beacons` shows the property for 2 ticks.
  Without beacons it is proved for any `DOWN_LATENCY` up to
  `TX_JIT_DELAY + TX_MARGIN_DELAY - 2 * JIT_LATENCY`.

* `PULL_TIMEOUT`: ticks `thread_down` may wait in `recv()`, which is longer
  (`PULL_TIMEOUT_MS`, 200 ms in the code, against a few ms): no packet is in its hand
  meanwhile, but a beacon is queued only when it returns. In the instances it is above
  `TX_JIT_DELAY`, as in the code.

The run `late_jit` gives up the first.

### Schedule and TxSchedule

`Schedule` has a set of admitted packets, the one in the hand of `thread_jit`, the
one in the radio and the answer to the server; no array, order, index, counter,
lock or loop. A packet is admitted only if it is compatible with all others, and a
downlink is admitted exactly when the answer says so; it leaves the schedule once,
to be dropped or taken. `TxSchedule` maps the queue to the set of its nodes, and
the pair of index and array between `jit_peek` and `jit_dequeue` to nothing.
`Admit` is `JitEnqueue`, `Refuse` the TX_ACK with an error, `Drop` the purge of
`jit_peek`, `Take` `JitDequeue`, `Launch` and `GiveUp` the outcomes of `JitStatus`
and `JitSend`.

### PullProtocol

`thread_down` goes through `send -> listen -> send`: `PullSend` draws a token,
sends PULL_DATA and counts it; `RecvAck` and `RecvOther` are a return of `recv()`
with a PULL_ACK or without; `ListenEnd` is the end of the inner loop; `PullQuit`
the auto-quit; `PullStop` the end after a signal. `ServerAck` is a server that may
answer any PULL_DATA under way, in any order, late and more than once; a lost
datagram is one that is never delivered. Tokens may repeat. `MainReport` copies
and resets the two counters. `window` is history: for each of the latest
`autoquit_threshold` PULL_DATA whether it was acknowledged in time.

### PushProtocol

`thread_up` goes through `fetch -> check -> filter -> report -> send -> ack`, a
step per critical section: `report_ready` is read without its lock in `UpCheck`,
and the report copied in `UpReport`. It holds `mx_meas_up` from counting a
datagram to the end of both attempts to receive the acknowledgement (`UpSend` to
`UpRecv`, `UpTimeout` or `UpConnError`), which `main` waits for in `MainCopy`.
The socket is a FIFO; a PUSH_ACK that comes late stays in it and uses up an
attempt of the next datagram. Of the JSON text only the packets counted in it and
the report are kept.

### TimeRef

Time is counted in PPS pulses, and each time is kept as an age, so that the state
is finite. `gps_process_sync` pairs GPS time and UTC with the counter of the latest
pulse: if `thread_gps` is late that is the wrong pulse, and if the RMC sentence got
lost UTC is that of an earlier second. `lgw_gps_sync` compares the slope between
UTC and counter with the old reference, keeps the old one if it is aberrant, and
resets it after three in a row. `thread_valid` runs in two critical sections,
`ValidCheck` and `ValidCorrect`. Assumed: the crystal is exact, the system clock
is not stepped, and NAV-TIMEGPS starts the synchronisation, with RMC before or
after it.

### GpsSerial

A byte is the number of its frame and its position, so that the buffer can be cut
anywhere: frames arrive byte by byte, a byte of a frame may be lost, stray bytes come
in between and may look like the start of a frame with a length. `thread_gps` is one
iteration: read, `Scan` for frames, `MakeRoom`. `FrameSize` is what the two parsers
make of a sync char: a UBX frame has the size in its header and must be complete; an
NMEA frame extends to the next LF in the buffer, which may be that of another frame, or
a byte of a UBX frame, and its checksum covers all but CR and LF. Checksums are assumed
reliable. The two `memcpy` have overlapping operands, which is undefined; the model assumes
a copy upwards.

### RxPath, MergePackets and Reception

A 32-bit counter is a pair of wrap status and 27-bit counter. `Tick` and `Pulse`
are the concentrator; it is assumed that the counter is read successfully at least
once per roll-over (134 s; `thread_up` reads it in every cycle), that a packet is
fetched within one, and, if `PpsRegular`, that pulses come within one.
`lgw_receive` has a step for each access: `sx1302_fetch`, `sx1302_update`, `sx1302_parse` for each packet,
`lgw_receive_return`. `Fetched` is what `rx_buffer_fetch` makes of the FIFO: bad packets
in front of the first sync word are skipped, and a bad one, which includes one that
the fetch truncates, may make it discard everything. `lgw_get_cnt` is another thread reading the counter between
two calls. Any reading of the counter may fail, which the code does not notice;
`reading` is history: whether the one after the latest fetch did.

`MergePackets` starts from every array of packets and has a step per iteration of
the outer loop of `merge_packets`. It works on the caller's array alone, so
`Reception` lets a behaviour follow either the buffers and the counter (fine
timestamps off) or the merge of one array (on), instead of their product. So
`LostWithBad` speaks of `lgw_receive` without fine timestamps; with them the merge
then drops duplicates and sorts.

### SpectralScan

The state is the mode of the SX1261, what its memory holds, and the TX status of
each RF chain. `thread_spectral_scan` has a step per critical section: `SsStart` or
`SsSkip`, `SsPoll`, `SsResults`. `JitSend` aborts a scan, starts LBT if enabled and
programs the packet; with LBT it keeps `mx_concent` throughout `lgw_lbt`: the result
comes (`LbtResult`), or does not (`LbtTimeout`), and then the status of the AGC is
cleared (`LbtClear`), the packet aborted (`LbtAbort`), and last the radio stops to listen
(`LbtStop`). These are steps of their own, as the concentrator may start the packet
between any two. The AGC is taken to report on the packet programmed last. `lbt_enable` and `faults` are chosen at the start and stay. With
`faults` any access may fail or time out: a failed abort leaves the scan running,
an unreadable TX status starts one.

### Shutdown

Each thread loops over `work -> lock -> concent`, where `concent` is an access under
`mx_concent`, and ends if a flag is set at the end of an iteration. `main` creates the
threads, reports, joins `thread_up`, `thread_down`, `thread_jit` and the scan thread,
cancels `thread_gps` and `thread_valid` (`thread_gps` dies at a cancellation point, with
`mx_concent` if it holds it), stops the concentrator, which may fail, and resets it.
Signals come at any time; `thread_down` may auto-quit and `thread_up` exit.

Of `thread_down` the loop that queues beacons is kept (`BeaconLoop`, `BeaconQueued`,
`BeaconRefused`), as it tests no flag: it ends when the beacons are queued or the time
reference is not valid. Of the JIT queue the numbers of packets and of beacons are kept,
of `thread_jit` that it takes packets out, of `thread_valid` that it may clear
`gps_ref_valid`.

## Runs

The delays are scaled down to a few ticks with their order kept, and beacon
reservations fit into a period. `TX_MAX_ADVANCE_DELAY` is
`(JIT_NUM_BEACON_IN_QUEUE + 1) * 128 s` in the code: one period more than beacons are
queued ahead, if `beacon_period` is 128. In `outage`, `index_race` and `early_purge` it is
two periods, with one beacon in the queue; in `beacons` it is four, as with a
`beacon_period` of 64 s. The counter is small, so roll-over happens in every run of
`TxPath`; `thread_jit` and the beacons go on for ever, the number of downlinks is
bounded by `MaxRequests`. Deadlock is checked in every run but `push`, `gps_serial`
and `rx`: the first stops at its bounds and after `exit`, the others have finite
inputs.

| run | question | result |
|-----|----------|--------|
| `beacons` | beacons every period, two downlinks of any class around them: on a time within the reservation of a beacon, whose slot they may take, or as soon as possible | the index peeked stays valid; no overlap in the queue; no two packets of the queue meet at the radio but for the case below; programmed in time; no downlink expires; refinement of `Schedule` (2.7 M states) |
| `outage` | GPS lost and regained at any time, liveness | beacon count exact; beacons resume once GPS stays valid (0.32 M states) |
| `late_jit` | `thread_jit` later than `TX_JIT_DELAY`, three Class A downlinks, a queue of two, which gets full | types; array bound; missed packets are purged at the latest in the second scan (2.1 M states) |
| `pull` | PULL_ACKs lost, late, duplicated, with repeating tokens; liveness | auto-quit after exactly the threshold of unanswered PULL_DATA; acknowledgements counted once; no life without the server (0.62 M states) |
| `push` | `thread_up` and `main` interleaved, a network that may heal, liveness | counters of a report belong together; no report sent twice; every report is sent; acknowledgements are seen again after late ones piled up (0.39 M states) |
| `time_ref` | lost messages, late threads, bad points, outages beyond a roll-over, resets to a wrong reference, liveness | valid reference usable; correction fresh; a right reference stays right with up to two bad points in a row; it becomes right and valid for good once the receiver keeps time (0.63 M states) |
| `gps_serial` | all ways to cut three NMEA and UBX frames, with lost and stray bytes, into reads | no frame up to the safe length lost, but behind an NMEA frame without LF; once, in order (2.5 M states) |
| `rx` | packets and pulses around roll-overs, failed readings, packets that cannot be parsed; all arrays of up to four packets to merge | counters and timestamps exact; packets once, in order; lost only with a bad one; no duplicates left, the best of each group kept (1.6 M states) |
| `scan` | scans against downlinks, with and without LBT and failing accesses, liveness | no scan during TX; no failed packet left with the radio; LBT observed; no frequency skipped; all frequencies scanned again and again (0.33 M states) |
| `shutdown` | signals, auto-quit, failures at any time, liveness | joined threads out before the hardware is stopped; the process ends, but for the case below; hardware stopped after an exit signal, if `lgw_stop` does not fail (0.13 M states) |
| `index_race` | `DequeuesPeeked` with outages of the GPS | violated, see below |
| `early_purge` | `PurgedWasMissed` with `TX_MAX_ADVANCE_DELAY` as for a `beacon_period` of 128 s | violated, see below |

`FairSpec` (used in `outage`) assumes weak fairness of the counter and
of each thread: both threads loop for ever and block only in calls with a
timeout (`recv` with `SO_RCVTIMEO`, `wait_ms`) or on mutexes held for a short
time.

In the other modules: `thread_down` of `PullProtocol`, `thread_up` and `main` of
`PushProtocol`, the threads of `TimeRef`, `SpectralScan` and `Shutdown` are weakly
fair for the same reason; `Tick` and `Second` because time passes; a scan and a
transmission end by the hardware. `Shutdown` also assumes strong fairness of
`thread_jit`, which gets `mx_concent` at last although `thread_down` takes it over and
over in its loop, and of `BeaconQueued`: while the queue has room a beacon is not refused
for ever, as each retry is for a later slot and finitely many packets are queued. In
`SpectralScan` a packet with LBT need not be
sent. In `PushProtocol` what is under way arrives or is lost. Nothing is assumed of the server in
`PullProtocol`; `AcksCaught` and `RefRecovers` speak of behaviours in which network
or receiver keep their time from some point on.

Bounds of `TxPath`: `BEACON_HORIZON` keeps beacon distances finite. A distance up to
a period beyond it stands for all that differ from it by whole periods: its counter
may be any in the grid of the period, and as time passes it stays or gets below the
horizon. `retry` stops growing there. In the past the horizon bounds the length of
an outage.

The instance of `beacons` has one target time, five ticks ahead of a slot, the
nearest that criterion 3 admits in front of a beacon for Class A; the guard refuses
Class B there. Queued before the beacon, either class takes its slot. Class C
downlinks are asked for at any time. Retries of up to two slots, a beacon
more than three periods ahead, a downlink on each side of a beacon and a beacon that
finds a downlink on the air all occur. Two Class A downlinks on different timestamps
are queued together, and a packet finds the queue full, in `late_jit`, not in
`beacons`. Half the counter range exceeds `TX_MAX_ADVANCE_DELAY` by a tick.

Other bounds, each a constant:

* `MaxPulls`, `MaxRx`, `MaxDgrams` bound what is counted between two reports of
  `main`, which resets the counters, so that the behaviours themselves are not
  bounded. Two tokens are enough for an old acknowledgement to match by chance.
* `MaxSock`: acknowledgements waiting in the socket; three exceed what the two
  attempts take, so that backlog builds up and has to be worked off.
* `MaxBehind`, `MaxBad`, `MaxOutage`, `VALID_LATENCY` are assumptions about the
  receiver and the scheduler. Three bad points in a row reset the reference to a
  wrong one: `RefStaysRight` speaks of up to two, `RefRecovers` of any number.
* `BUFF_SIZE` 10 against 128 and `LGW_GPS_MIN_MSG_SIZE` 3 against 8: UBX frames at
  the minimum, with a byte that looks like LF, NMEA frames at the safe length, UBX frames
  one byte above it. `SAFE_LENGTH` (`BUFF_SIZE - 2 * LGW_GPS_MIN_MSG_SIZE + 2`, 114 bytes
  in the code) is tight: TLC finds a frame one byte longer lost.
* `CntMod` 3, `WrapMod` 3: both counters roll over several times among three
  packets.
* `Tolerance` 1, three times around the roll-over: two packets that are equal to a
  third but not to each other.
* `MaxSends` 4, two per chain.

### Disagreements with comments and documents

Two runs are refuted by TLC; `PROJECT.json` quotes the lines.

`index_race`: after an outage of the GPS a beacon for a past slot is queued between
`jit_peek` and `jit_dequeue`, shifts the index, and the wrong packet is dequeued. With
GPS always valid, `DOWN_LATENCY` of 2 ticks and a shorter `beacon_period` the index stays
valid (`beacons`); see the timing assumptions for a slower `thread_down`.

`early_purge`: with `beacon_period` 128, a beacon that skips a slot is purged before its
time. As soon as a beacon is taken out of the queue, shortly before its slot, the next
is tried `JIT_NUM_BEACON_IN_QUEUE` periods behind that slot. If a downlink has that slot
the beacon is queued one period later, a little more than `TX_MAX_ADVANCE_DELAY` ahead;
criterion 2 does not test beacons, and `jit_peek` takes what is so far ahead for missed.
The next beacon is tried a period later still, and is purged too: `thread_down` runs away
from the present, a period per turn, until the counter of a slot comes round to the
present (in the instance it then also gets in front of a packet peeked). A full queue,
to which every retry is answered `FULL`, has the same effect.

The code also differs from what its comments and documents say, or from what one
would expect, in the following. These are behaviours of the models, and the
properties are stated so that they do not deny them.

* A downlink is compared with the packets in the queue, not with the one already
  handed to the radio (`jitqueue.h`, "Once the packet is queued, it has to be sent
  over the air"). If it overlaps that one it is accepted and acknowledged, then
  given up. `NoRadioConflict` is about packets that were in the queue together.
* Ignoring the beacon guard for Class A and C also ignores `TX_JIT_DELAY`; the
  beacon is taken out while the downlink is on the air and is given up. It is the
  exception in `NoRadioConflict`.
* A timestamp in the past is answered `TOO_EARLY`, not `TOO_LATE`, and a beacon for
  a past slot is queued.
* A downlink accepted at `TX_MAX_ADVANCE_DELAY` ahead is purged if `thread_jit` read
  the counter before: criterion 2 has `>`, the purge `>=`.
* Acknowledgements that come after the next PULL_DATA do not count: with a round trip
  longer than the keep-alive interval the program quits, saying that the PULL_DATA
  "were not ACKed". `AutoquitJustified` speaks of acknowledgements in time.
* The counters are reset between a PULL_DATA and its PULL_ACK, and one more may be
  reported as acknowledged than was sent (`AcksBounded`). For PUSH_DATA this cannot
  happen, see `ReportConsistent`: `thread_up` keeps the lock.
* After pulses paused for more than a roll-over, the counter of the latest pulse
  lacks wraps: `PpsExact` has the premise `PpsRegular`.
* A failed reading of the counter goes unnoticed: packets are given a timestamp off by
  a roll-over (the premise of `PktExact`), and `lgw_get_instcnt` returns an
  uninitialised value as a success.
* A TX status that cannot be read counts as no downlink, and a scan starts beside
  one; `lgw_send` fails though the packet goes out, if only stopping LBT or aborting
  the packet fails. `NoScanDuringTx` and `FailedNotLeft` have the premise `~faults`.
* Without any fault, too, `lgw_send` may report an error with LBT ("TX aborted") for a
  packet that is on the air: one that starts between the timeout and the abort, which
  only clears the trigger. `FailedNotLeft` says that none is left to start later, and
  `ListenBeforeTalk` that the radio listened when it started.
* `main` joins the threads, "1 fetch cycle max". But the loop of `thread_down` that
  queues beacons tests neither flag, and when the queue is full every retry is refused.
  If `thread_jit`, which would take a packet out, and `thread_valid`, which would see the
  reference get old, have ended by then, it goes on for ever, and `main` waits for it.
  `Ends` and `ExitStops` have this state, `Hung`, as an exception; TLC reaches it.
* `lgw_stop` may fail, of which `main` only warns. With SPI the reset follows; a USB
  concentrator may be left running (`ExitStops`).
* An NMEA frame that lost its LF extends to the next LF; its checksum, up to the first
  `*`, is right, and the frame behind it is skipped with it. `NoFrameLost` excepts the
  frames that reach up to that LF (`Swallowed`), and no others.
* `thread_gps`, which is cancelled and not joined as it has "no access to concentrator
  board", does access it, and may do so while `main` stops it. `StopsAlone` is about
  the threads joined.

## Proofs

### The downlink path

All of it is for any constants that satisfy `JitConstants` and `TxPathConstants`
(positive delays whose sums fit the counter, an even counter range, more room in
the queue than beacons): any size of the queue, width of the counter, times on air,
timestamps and number of downlinks.

**Whatever the latencies**, with or without beacons (`TxPathProofs`):

* `TypeCorrect`: `Spec => []TypeOK`
* `QueueStaysBounded`: `Spec => []QueueBounded`
* `QueueNeverOverlaps`: `Spec => []NoOverlap`

All three follow from one inductive invariant, `QueueInv`. Neither bound nor
overlap is inductive alone. The array bound needs that there is room while
`thread_down` is between its two critical sections, which holds because only
`thread_down` adds packets. Absence of overlap needs that the packet about to be
inserted reserves at least `TX_START_DELAY`: a Class A or C downlink queued in
front of a beacon only respects that much, so for the pair to stay apart in both
directions (`NoCollisionApart`) the admission of a beacon behind a downlink must
imply it. Admission keeps a queue spread out (`AppendSpread`), and so do the
removal of a node and any permutation, sorted or not (`RemoveNodeProperties`,
`SortProperties`), so the proof does not depend on `qsort_r` or on the order of
timestamps.

**As long as `compare` orders the queue**, with beacons and whatever the latencies
(`TxScheduleProofs`):

* `BeaconsCounted`: `Spec /\ []QueueOrdered => []BeaconCount`
* `ScheduleImplemented`: `Spec /\ []QueueOrdered => ImplementsSchedule`

`QueueOrdered` is a premise because a beacon queued for a slot long past, or a queue
that spans half the counter range, leaves `qsort_r` without an order, and nothing
then excludes that `jit_peek` returns an index beyond the end of the queue. With an
order it does not. `PeekInv` says that the queue is sorted, that the nodes
scanned since the last purge are fresh, and hence that a purge, which restarts
the scan at the second node, removes a node behind the best one found so far
(`FrontStays`), so that its index stays below `num_pkt`. `BeaconInv` adds that
`num_beacon` is the number of beacon nodes and that those in the queue and those
still to be queued by the beacon loop are at most `JIT_NUM_BEACON_IN_QUEUE`. The
refinement is shown step by step: `TickSchedule`, `DownSchedule`, `EnqueueSchedule`
and `JitSchedule` map the steps of the concentrator, of `thread_down` and of
`thread_jit` to steps of `Schedule` or to none.

**For prompt threads and without beacons** (`Prompt` of `TxPath`, the theorems in
`TxPromptProofs`):

* `QueueStaysOrdered`: `Spec => []QueueOrdered`, which is the premise above
* `DownlinksNeverExpire`: `Spec => []NoDownlinkExpires`
* `PacketsProgrammedInTime`: `Spec => []ProgrammedInTime`
* `PeekedPacketDequeued`: `Spec => []DequeuesPeeked`
* `RadioNeverConflicts`: `Spec => []NoRadioConflict`

`Prompt` asks for `thread_jit` to read the counter twice between `TX_JIT_DELAY` and
`TX_START_DELAY` ahead of any timestamp, for `thread_down` to spend at most
`TX_JIT_DELAY + TX_MARGIN_DELAY - 2 * JIT_LATENCY` on a downlink, and for a full
queue of downlinks, one behind the other, to be short of half the counter range.
With the constants of the code: `thread_jit` at least every 19 ms (it sleeps 10 ms),
`thread_down` within 3 ms for that, or within 19 ms if `thread_jit` needs 11 ms; and
a queue of 32 packets, each less than 34 s on the air. Beacons are off unless
`beacon_period` is configured. The premise is satisfiable: `MCLateJit` has it as an
assumption for its constants with `JIT_LATENCY` 1, and TLC evaluates it.

The inductive invariant is `TimeInv`, the conjunction of `QueueInv`, `PeekInv` and

* `LeadInv`: how old the counts are that the two threads hold, and that every packet
  in the queue is due less than half the range from now, and not before `thread_jit`
  has read the counter once more. That is what makes `compare` an order
  (`LeadOrders`): the sort needs it, and it in turn needs the sort, as only a sorted
  queue is scanned in time;
* `ScanInv`: between two scans every packet in the queue has time for two more
  readings, but for the one peeked, which is the first, stays the first until it is
  dequeued, and is due within `TX_JIT_DELAY`;
* `RadioInv`: the packets that were in the queue together with the one in the hand of
  `thread_jit`, or on the radio, are behind it by all that it reserves, and the radio
  is done with it when they come.

That a packet accepted has time left for two readings (`AcceptedAhead`) is clear for
Class A, whose criterion 1 compares with the count `thread_down` read. An immediate
downlink gets a slot behind others, and that this is less than half the range ahead
takes an argument along the chain of nodes it was pushed behind (`AsapBound`), of
which each collides with the slot tried next, so is less than a slot further. The
argument is by the least node that violates the bound, which the library's theorem on
well-founded orders provides; it and the facts on cardinalities are premises
(`LeastNatural`, `Counting`) of the lemmas that use them, and are proved before the
theorems (`LeastNaturalHolds`, `CountingHolds`): the library in the context of every
lemma would slow the provers down.

So the race that `index_race` exhibits needs beacons: without them, and with prompt
threads, nothing can be queued in front of a packet that `jit_peek` has found.

### PullProtocol

For any tokens, keep-alive time and threshold:

* `QuitsOnlyJustified` (`AutoquitJustified`) and `QuitsPromptly` (`AutoquitPrompt`)
  from `AutoquitInv`: the latest `autoquit_cnt` entries of the window are
  unanswered and, if there are more, the one before is answered. The count alone
  does not say which PULL_DATA it is about; the window ties it to them.
* `AcksStayBounded` (`AcksBounded`) from `CountInv`: while the latest PULL_DATA is
  unacknowledged, not more acknowledgements than PULL_DATA are counted.

### PushProtocol

* `ReportsSentOnce` (`NoReportTwice`) from `ReportInv`: a raised flag, and a decision
  to send, stand for a report not sent yet.
* `ReportsConsistent` (`ReportConsistent`) from `CountersInv`: the counters that
  `thread_up` works on are consistent, too, and strictly fewer acknowledgements than
  datagrams are counted while it waits for one. That holds since it keeps
  `mx_meas_up` throughout.

### TimeRef

For any age limit, period of `thread_valid`, length of the average and roll-over
period:

* `RefAlwaysUsable` (`RefUsable`) from `UsableInv`: `lgw_gps_sync` leaves `xtal_err` at
  0 only as long as it has stored no reference, and a valid reference has aged since
  the last check by at most the pulses since then.
* `CorrectionAlwaysFresh` (`CorrectionFresh`) from `FreshInv`: `init_cpt` and
  `xtal_correct_ok` follow the reference in the second critical section of
  `thread_valid`, and lag behind by at most one check in between.
* `RefAlwaysRight` (`RefStaysRight`) from `SettledInv`: once settled, the three parts
  of the reference belong to one second, aberrant points in a row are as many bad
  ones, and the pulse of the reference is not used for another point.

### Reception

For any widths of the counters (at least three wraps) and number of packets, under
the assumptions on time above, which are guards of `Tick`:

* `InstStaysExact` (`InstExact`) from `CounterInv`: less than a roll-over has passed
  since the last reading.
* `PpsStaysExact` (`PpsExact`, with regular pulses) from `PulseInv`: the last pulse
  read, the latest pulse and now lie within a roll-over.
* `PktStaysExact` (`PktExact`, if the reading after the fetch succeeded) from
  `PacketInv`: every packet fetched is younger than a roll-over, at parsing also with
  respect to the last reading.
* `PacketsLostWithBad` (`LostWithBad`) from `StreamInv`: what was delivered, the packets
  parsed, the RX buffer and the FIFO, one behind the other, are numbered in ascending
  order.

For arrays of any length and any tolerance:

* `NoDuplicatesLeft` (`NoDuplicateLeft`) and `BestAlwaysKept` (`BestKept`) from
  `MergeInv`: the packets before the index of the outer loop equal none behind them,
  and for every packet of the input, in every set of packets closed under equality,
  one as good is left. Removal moves the last packet into the gap, which is behind
  the index, so the first part is kept although equality is not transitive.

The first four are theorems about `RxPath`, the others about `Reception`.

### Shutdown

`AlwaysStopsAlone` (`StopsAlone`), with and without scan and GPS threads, from
`StopInv`: the threads joined so far have ended, one not created has not begun, and
a joined thread that owns `mx_concent` is in its access.

### SpectralScan

For any chains and number of frequencies:

* `FrequenciesKept` (`NoFrequencySkipped`), whatever fails, from `FrequencyInv`: if the
  status says completed, the memory holds the results of the current frequency.
* `ScansAlone` (`NoScanDuringTx`), inductive with the types of the chains.
* `FailedNeverLeft` (`FailedNotLeft`) and `ListensBeforeTalk` (`ListenBeforeTalk`)
  from `LbtInv`, which holds while no access fails: with LBT a packet is scheduled only
  while `lgw_send` waits for its result or is about to abort it, with the radio
  listening, and what it reports as failed is no longer scheduled.

### Only model-checked

* `ExpiredPurged` of `TxPath`. It speaks of packets missed by a late `thread_jit`;
  they lie in the past, where `compare` need not order the queue, and which of them are
  scanned then depends on the instance.
* `DequeuesPeeked` and `NoRadioConflict` with beacons: `index_race` shows that the first
  does not follow from prompt threads, and no general bound is claimed.
* `NoFrameLost` and `OnceInOrder` of `GpsSerial`: they are about what the scan of the
  buffer, a recursive function over bytes, computes for every input, which would take
  an induction over data that the prover does not support.
* `Shutdown` with the scan thread: `StopsAlone` is proved with it, the liveness is
  checked without, as that thread does no more than `thread_up` does.
* All liveness (`BeaconsResume`, `AckedOrQuits`, `ReportSent`, `AcksCaught`,
  `RefRecovers`, `AllScanned`, `Ends`, `ExitStops`): fairness is out of the reach of the
  prover.

## Not modelled

* The full queue under beacons with outages of the GPS and liveness: the actions are in
  `TxPath`, but an instance that reaches the case is too large for a liveness check.
* Configuration: `parse_*_configuration` read JSON files one value after the other,
  before any thread exists. The composition and parsing of JSON in `thread_up` and
  `thread_down` is reduced to what it decides.
* RF chain 1 in `TxPath`: a queue and a radio of its own. `SpectralScan` has both
  chains, as they share the second radio.
* `gps_process_coords`, which copies the position for the report, and crystal error
  values (floating point).
* Precise timestamps, corrections of timestamps by modulation, RSSI: arithmetic on
  tables of hardware delays.
* Register-level I/O, calibration, firmware loading, the USB connection with its bulk
  writes and the frames of the MCU protocol in the HAL: their effect is defined by hardware that is not in the
  repository.
* `libtools` (JSON, base64, random numbers), the stand-alone utilities, which are
  test programs, and the SDK around the packet forwarder: build system, boot loader,
  kernel patches and third-party packages, by far the largest part of the
  repository, and none of it part of the gateway program.
