# WiTracker: specifications, model checking and proofs

WiTracker is a tracker built on an ESP32. It samples its sensors when it is
moved, sleeps in between, is switched into and out of deep sleep with a button,
shows its mode with two LEDs, and sends packets over MQTT to a collector on a
PC. The firmware is `src/src/mc-esp32`, the collector `src/src/pc`. This
directory holds TLA+ models of both, the TLC configurations that check them, and
TLAPS proofs of their main invariants.

    tlc -workers 2 -config DeviceMode.cfg DeviceMode.tla
    tlapm DeviceModeProofs.tla

`PROJECT.json` lists the runs, the source lines every definition stands for, the
mutated definition that breaks each property, the hazards and the findings.
Paths below are relative to `src/src/mc-esp32`, or to its `src/main` when they
have no directory and are not `mqtt_client.c`.

## 1. Inventory

| Part | State it keeps | Operations | Interacts through |
|---|---|---|---|
| Main loop (`app_main.c`) | sleep length, data of one sample | boot, preprocess, collect, handle, sleep | calls everything below; the task of `app_main` |
| Mode (`state.c`) | `mode` (static, no lock) | init, set, get, toggle deep, apply | called by main and gpio tasks; calls the LEDs |
| Button (`gpio.c`) | event queue, last trigger tick | interrupt handler, task, init | interrupt to task by queue; task to mode by call |
| LEDs (`led.c`) | four binary semaphores, one flag per blink task | set state, init, two blink tasks | semaphores |
| Packet queue (`queue.c`) | head, tail, size, heap nodes | init, enqueue, enqueue at head, dequeue, peek, print | called by the network part, main task only |
| Network (`network.c`) | packet number | construct, transmit, upload | packet queue, MQTT wrapper |
| MQTT wrapper (`mqtt.c`) | `CONNECTED_BIT` | publish, check connected, event handler | handler runs in the MQTT client's task |
| MQTT client (`mqtt_client.c`) | state, run flag, transport, buffers, pending message | init, start, stop, destroy, publish, subscribe, unsubscribe, task loop | application's task and client's task share all of it |
| Outbox (`lib/mqtt_outbox.c`) | list of unacknowledged messages | enqueue, delete by id/type, expire, trim | both tasks of the client |
| Message coding (`lib/mqtt_msg.c`) | connection buffer, message id | encode and parse | client |
| Transports (`lib/transport*.c`) | socket, TLS contexts | connect, read, write, poll, close | client; both tasks write |
| Wi-Fi (`wifi.c`) | `scanArray`, `nScans`, `CONNECTED_BIT` | event handler, connect, scan | event loop's task and main task |
| Sensors (`accelerometer.c`, `uv.c`, `temphumid.c`, ...) | configuration registers, copies of readings | init, poll, power mode, read | main task only; the bus may fail |
| Collector (`src/src/pc/TP2.py`) | packet list, skipped list, collecting flag | message callback, parse, start/pause, KML and CSV export | callback in the MQTT thread, the rest in the GUI thread |
| Prototype (`src/src/mc`), Energia sketch, build output, documents | - | - | superseded or generated |

What is hard, and what makes each part correct:

* **Mode, button, LEDs.** Six actors share one variable and four semaphores
  without a lock. Correct means: only the button enters and leaves deep sleep,
  no press is lost, the LEDs end up showing the mode, deep sleep is entered
  soon after the press with the sensors powered down, an awake device goes
  on sampling, and the debounce works across the wrap of the tick count.
* **Packet queue.** Sequential, but a long history of calls over malloc'ed nodes
  with a tail pointer that is allowed to dangle. Correct means: a deque, no
  leak, no use after free.
* **Upload.** A batch taken out, published or put back, and freed. Correct
  means: in order, once, nothing lost, memory owned by the queue stays
  allocated, and the PC reads what the device wrote.
* **MQTT client.** Two threads, a flag, a state and an event bit. Correct means:
  one task per client, stop ends it and returns, destroy frees a client nobody
  uses, connections do not outlive the task, the wrapper's bit follows. Within
  a connection: every acknowledgement finds its message, nothing is written twice
  or out of order.
* **Transports.** Eight ways to fail while a TLS connection is set up, two
  writers, partial writes, and a websocket layer over either kind. Correct
  means: nothing leaks, no operation on a socket that is not there, frames stay
  whole, a connection begins with CONNECT.
* **Wi-Fi.** A handler in one task fills what another task reads. Correct means:
  a scan reports the networks of this scan, the bit follows the link, and a lost
  link comes back.
* **Sensors.** Any transfer on the bus can fail, and registers keep what an
  earlier round left. Correct means: no movement gets lost, sensors are on when
  sampled and off in deep sleep, a read that failed does not turn "outside" on.
* **Collector.** Callbacks of one thread changing what another reads.

The hazards, each at its line with the property that covers it, are in
`PROJECT.json`.

## 2. Plan

| # | Modules | Models | Status |
|---|---|---|---|
| 1 | `DeviceMode`, `DeviceModeProofs` | mode, main loop, button, LEDs | done, invariants proved |
| 2 | `PacketDeque` (abstract), `PacketQueue`, `PacketProofs` | packet queue, refinement | done, refinement proved |
| 3 | `PacketUpload`, `PacketProofs` | transmit and upload over the queue | done, invariants proved |
| 4 | `MqttLifecycle`, `MqttClientProofs` | start, stop, destroy, reconnect | done, invariants proved |
| 5 | `MqttOutbox`, `MqttSession`, `MqttClientProofs` | the outbox's list; publish, acknowledgement, ping, expiry over it | done, invariants proved |
| 6 | `Transport`, `TransportProofs`, `WsFrame` | connecting, writing and reading for the four schemes | done, invariants proved |
| 7 | `WifiStation`, `WifiStationProofs` | events, connected bit, scan | done, invariants proved |
| 8 | `Sampling`, `MCSampling`, `SamplingProofs` | accelerometer, UV and temperature sensors over a failing bus | done, invariants proved |
| 9 | `MqttMsg`, `Debounce`, `Algorithms`, `AlgorithmsProofs`; `PacketText`, `Gps`, `MCAlgorithms` | sequential algorithms against references | done, proved but for `PacketText` and `Gps` |
| 10 | `Collector`, `MCCollector`, `CollectorProofs` | PC program: MQTT thread against GUI thread | done, invariants proved |

Open: proofs about the packet's text and the GPS sentence; a composition of
`PacketUpload` with `MqttSession`, once the firmware calls the upload.

## 3. The modules

### DeviceMode and Debounce

One step is one access to shared memory or one kernel call. `mode`, `sem` and
`evtQueue` are the program's; `pc`, `arg` (the mode a task holds in a register)
and `ledPc` are program counters and locals; `lit` holds the blink tasks' two
flags. `powered` is the power state of the UV sensor and the accelerometer.
`stale` and `samples` are ghosts: which task stands between a read of the mode and
the write that follows it (`HoldsRead`), while the mode has entered or left DEEP since that
read; and how many samples were taken since the mode became DEEP. `BootWrite` is the
write of `mc_state_init`, which no read precedes.

* Boot: `StartBlinkTasks`, `CreateSemaphores`, `InitGpio`, then `mc_state_init`
  through `WriteMode`, `ApplyMode`, `GiveGreen`, `GiveRed`. `AfterBoot` is the
  order of the calls in `program_init`. The interrupt works after `InitGpio`.
* Loop: `Preprocess`, `HighPower`, `Collect`, `EnterSleep`, then `LowPower` and
  the poll `WakeFromDeep`, or `WakeFromLight`. Calls of `mc_state_set_state` go
  through the four shared steps and return to `ret`.
* `ApplyMode` passes on either the mode read again or the value just stored: a
  non-volatile static allows the compiler both.
* `Collect` stands for the whole of sampling, handling and
  `collection_postprocessor`; none of it touches the mode.

The firmware is built for both cores, so steps interleave freely.

`Debounce` is the test of the interrupt handler (`IsPress`) and what it makes of
`xLastTrigger` (`Handle`), over a history of edges at any times since boot. The tick
count wraps and is read twice. `Debounced` is what it is for.

### PacketDeque and PacketQueue

`PacketDeque` is what `queue.h` promises. `PacketQueue` is the list: `heap` maps
allocated addresses to nodes, so touching an address outside its domain is a use
after free; `chain` is a ghost that names the nodes in order. The refinement
mapping reads the items along `chain`. `tail` is left dangling by `Dequeue`
exactly as in the code.

### PacketUpload and PacketText

The queue is a sequence here (justified by the refinement above) of packet
numbers. A packet is a pointer to a block of the heap: `place` is the block malloc gave
it, and `memory` what each block holds by now, `Garbage` when it is free. malloc gives
any free block (`Make`), whoever still points to it; what an upload publishes for a packet is
what its block holds at that moment (`Texts`). So a packet that is freed while it is
put back can be overwritten by a newer one, which is then published under both. A block
that is freed twice ends the behaviour (`broken`). Ghosts: `stored`, `sent`, `texts` and
`dropped`, and `spoiled` for the packets this has happened to. In the firmware as
it is, `mc_network_transmit` returns before it enqueues and nothing calls
`mc_network_upload`; `StorePacket` is a caller that does what the statements after the
return would do, so that the upload can be checked.

`PacketText` is the text of a packet on both sides: `construct_packet` with its
budget of characters per field and the cut at its end, the concatenation of a
batch, the text of a scan, and `Parser` of `TP2.py`. A character whose value no rule asks
for stands for itself. The text of a single network is not terminated
(`wifi.c:198` copies as many characters as it has), so `ScanText` is given what memory
holds behind it, up to the next zero byte; bytes of it that Python cannot decode, and
a block that has no zero byte for long, are left out.

### MqttLifecycle

The application's thread (`appPc`) and any number of tasks (`taskPc`) share
`state`, `run`, `stopped`, `open`; each access is a step. `phase` is a ghost: what
a patient application knows. With `AppWaits` the application, after a start
that succeeds, calls the client again only when it has seen
`MQTT_EVENT_CONNECTED`, and stops or destroys only what it has started.
`seen` by the application means that the event handler has run. The transport
for the URI's scheme is assumed to be registered (the firmware's is `mqtt://`).

### MqttOutbox and MqttSession

`MqttOutbox` is the list as operators on sequences, with what its two loops are for
(`DropsOldest`, `TakesFirst`). `MqttSession` is one client
with its broker: the application's call goes through `Call`, `TestPending`,
`EnqueuePending`, `Build`, `Pend`, `StoreCount`, `Write`; the task reads, answers,
pings, loses its connection, reconnects and trims. An acknowledgement is handled in the steps of
`is_valid_mqtt_msg`: the test of the count (`ReceiveAck`), the look into the outbox
(`MatchOutbox`), the comparison with the pending message (`ComparePending`), and `--`
(`LoadCount`, `Decrement`); `held` is the acknowledgement meanwhile. The `++` and `--` of the
pending count are a load and a store. `owed` is what the broker will still answer, each
message at most once and in any order. A write that succeeds has reached the transport,
not the broker: the broker may owe its answer from then on, or never get the message
(`WriteOk`). `written` and `again` record what was written. A publish has length 2 and
other messages 1, so that the size limit of the outbox is reached; ticks are numbers of
calls.

Read from the code and kept in the model:

* The outbox takes a message only when the next one is sent, and takes what the
  shared buffer holds by then. So a message is pending, in the outbox, or both.
* A QoS 2 publish never completes: PUBCOMP looks for a message of type PUBREL,
  and the pending type stays PUBLISH (`Awaited`). `AckAwaited` leaves PUBCOMP
  out.
* A read may return several messages; only the first is handled
  (`ReceiveStep` may drop what follows).
* Expired and trimmed messages and failed writes do not decrement the count, so
  it can only be too high: without a race its test against 0 never refuses an
  acknowledgement.
* Nothing is sent again: the outbox keeps messages and no one reads them back. So a
  message that is lost with its connection, or of which only the first bytes were
  written (`mqtt_client.c:428` takes that for success), is lost for good.
* There are three races (`raced`): a message built by one thread while the other is
  between building and writing; a count that both threads change; and a pending
  message that the application replaces while the task, which has not found it in the outbox,
  is about to compare it (lines 509 and 513): its message has moved into the outbox
  behind the task's look. The first two leave what the instructions happen to
  leave, the last an acknowledgement that is refused. The
  properties are about behaviours up to the first race, and the run does not go on
  after one (`NotRaced`).

### MqttMsg

Every message that is built (`CONNECT`, publish, subscriptions,
acknowledgements, ping), with the buffer's limits and the two-byte remaining
length, the accessors the client reads with, and `deliver_publish`, which hands
a message over in chunks and counts them in 16 bits (`UInt16`).

Read from the code and kept in the model: `append_message_id` draws an id when it
gets 0 (`Identified`). A received publish with a quality of service above 0 and no
data reads back with the id 0, because `mqtt_get_id` wants a byte behind the id;
so it is acknowledged under a drawn id (`PublishReadBack`, `AckReadBack`).

### Algorithms

The inputs of the message coding, the outbox's list, the websocket frames and
the debounce (`Valid` says which ones each can get) and, for each of them, what it
is for. A behaviour takes one input after the other. The set of inputs is a
constant: `MCAlgorithms` gives a finite one to TLC and adds the packet's text and
the GPS sentence, `AlgorithmsProofs` speaks of any. Where a property compares with
a reader (a broker's, a server's), the reader is written down beside it:
`ServerReads`, `Holds`, `Slice`.

### Transport and WsFrame

One transport with all four schemes, used by the client's task and by a publish
of the application. `SslConnect` may fail at each of its eight places and leaves
behind what was set up by then. `wire` keeps what was sent on the present
connection as chunks, each whole or cut; `began` is the connection a writer saw
when it began.

Read from the code and kept in the model:

* `ws_connect` logs that its parent failed and goes on, with a descriptor of -1.
* A read that times out returns 0, which `esp_mqtt_connect` does not take for a
  failure: it looks for a CONNACK in what the buffer holds from before
  (`mqtt_client.c:222-230`). `AnsweredOrStale` bounds the effect.
* Two tasks write header and body of frames without a lock; a body that is
  written only partly counts as written; a failed write of the application
  closes nothing; `publish` looks at the state once, before it writes.
* mbedtls leaves the number of a closed socket in place; a close resets it.

At `MaxChunks` the outcomes are forced to be failures or timeouts, so that
behaviours go on after the bound. `WsFrame` is the coding of frames, byte by byte.

### WifiStation

The driver (external) posts events; the event task takes one after the other and
fills `scanArray` entry by entry; the main task scans and copies, reading
`nScans` anew at each use. A network is told apart only by its scan. With more
networks than `scanStrings` has room for, `mc_wifi_scan` writes behind that array on its
stack (`wifi.c:193`): the model stops following the main task there ("overrun"). The
text of a single network has no end of its own (`wifi.c:198`), so `Join` may leave
"garbage" behind it. Assumptions about the driver: a scan's event is
posted before the blocking call returns, connecting while connected is a
no-op, and the event task has caught up with a scan by the time a sleep ends
(`WakeUp`).

### Sampling

The main loop's rounds with the sensors' registers (external). Each transfer is
ok, lost before the sensor saw it, or cut after it did. `config` and `raw_*` of
`uv.c` persist. Movement may come at any moment; `unreported` is a history of
what has not been reported. `wrote` says which sensor's last power command
worked. A poll is one step; what the UV sensor's five registers hold then is any member of
`Lights` (the theorems hold for every set of them, and `MCSampling` gives five to TLC), and any
of the five reads may fail. `Uva` and `Uvb` are the code's formulas, in hundredths,
with what they add for the infrared.
A failed read of temperature or humidity is the value 0, as in the code, and a
failed initialisation of the accelerometer is never tried again.

### Gps

The sentence reader of the prototype, the only part of it that was not carried
over. It computes a checksum and does not compare it, so the checksum is left
out.

### Collector

`mq` is the MQTT thread's place and `gui` the GUI thread's. The callback goes
through `Receive` (lines 89-110 of `TP2.py`), `AppendData`, `SortBegin`,
`SortEnd`, `Draw`; the list is empty to others between `SortBegin` and `SortEnd`,
as CPython documents, and `Draw` needs the GUI thread in its main loop, because
Tk executes a call of another thread there. An export is `Save`, then three
loops over the list with the callback in between: counting skipped packets
(`CountOne`), points (`PointOne`), rows (`RowOne`). A disconnect is `Disconnect`,
the end of the thread (`LoopEnd`), `Disconnected`; the loop of paho-mqtt looks at
its flag between messages. `packets` numbers the packets in order of arrival, so
that two equal ones stay apart; `cleared`, `want`, `calm`, `outcome` are ghosts.
`Sorted` is the stable order as such and `Picked` the elements at some places, so
that the proofs can say what `list.sort` and the reader of a file return.
`client.connect` may fail. The user is assumed to import files only while no MQTT
thread runs: `self.data` is shared otherwise (a hazard without a property). The
two files can always be written.

The list box and the label of the pause button are left out, and so is exit.

## 4. What TLC checks

| Run | Bounds | States | Shows |
|---|---|---|---|
| `mode` | event queue of 1, bus works | 0.52 million | semaphores are created before they are given; at most one sample after the mode becomes DEEP; a press is lost only between a task's read and its write of the mode, or at boot; left in DEEP the device powers down and stays there; left awake it samples for ever; its red LED recovers |
| `queue` | 4 addresses, 2 items | 1 909 | well-formed list, refinement of the deque |
| `upload_retry` | 4 blocks, 6 packets, batches of 3 | 1.6 million | order, uniqueness, each packet's own text unless it was spoiled after a failure, nothing dropped but the last packet of a full batch; until a publish fails, memory is freed exactly for what left the queue |
| `upload_stale` (violation) | 3 blocks, 4 packets, batches of 3 | | queued packets that are freed |
| `mqtt_patient` | 2 task ids | 572 | one task, none after stop, no socket left, the wrapper's bit is right, stop returns |
| `session` | 2 calls, 2 ids, 1 message of the broker, 1 lost connection | 0.8 million | up to the first race: every acknowledgement to come or just arrived finds its message; nothing is written twice or out of order, and what a call reports as written is its own message |
| `transport` | 2 connections, 6 chunks | 3.7 million | no leak on any way of failing, the task uses an open socket, frames and the first message are right outside the stated windows |
| `wifi` | array of 2, 3 networks, 3 events | 55 thousand | the bit catches up with the link, scans report their own networks, with old memory behind a single one at most, the station reconnects |
| `sampling` (`MCSampling`) | 3 raw readings, 5 lights | 1.0 million | power states, movements and "outside" survive failing transfers, but for the read of visible light |
| `algorithms` | inputs around the limits | 24 thousand | what is built is read back, or refused where it does not fit; reference results for the outbox, frames, the GPS reader, the debounce |
| `strongest` (violation) | the packets of `algorithms` | | of two networks the PC keeps the first, which is the weaker one |
| `collector` | 3 packets, 2 exports, 3 files | 0.24 million | the list has every packet once and sorted, whatever the buttons do meanwhile; nothing is added after a disconnect; an undisturbed export is complete; a disconnect hangs only while a packet is being shown |

Why the bounds are enough. The mode has three values and each task holds one
copy of it, so the races need two presses at most; a queue of 1 is empty
or full, with the task's current event besides it, and the device's 10 adds only what is
between. The bus works in that run, because `EventuallyAsleep` and `KeepsSampling` need it;
`BusMayFail` changes nothing but `powered`, and the three safety properties are
proved for both values of it and every length of the queue.
`samples` is counted up to 2 because the claim is about the second one. Four
addresses allow lists of 0 to 4 nodes with every order of allocation, a reused
address, and a dangling tail; `SizeMod` is small but never reached, as on the
device. Batches of 3 have the cases empty, partial and full, and 6 packets make
two full batches, or one and a retry mixed with newer packets; in 4 blocks, a freed
one is soon given again. (`Transmit` makes packets that are never stored and keep their
block.) Two task ids are enough to see a second task.

Two calls with two ids make the pending message and one in the outbox, with equal
or different ids; one message of the broker's own is enough to be between the
steps of a call, and one lost connection leaves messages of the old one behind.
`OutboxMax` is 1, so that trimming happens. The ids are interchangeable, so their
symmetry is used (no liveness is checked in that run). Two connections show what
the first leaves to the second; six chunks hold an upgrade, two frames and a cut
header. An array of two entries with up to three networks has the cases none,
some, full and too many, and three events in the queue have a stale scan
behind link events. The readings 0, 3 and 26000 are a failed one, one of status
bits only, and a real one. The lights are the sun, two lamps of which one has so much infrared
that the formula takes it for daylight, shade just below the threshold with a large dark
count, and darkness.

The inputs of `algorithms` lie around the limits: payloads around 127 bytes,
buffers that just hold a message or not, lengths up to 65535, frames around 126
bytes, ticks around the threshold, the wrap and a whole turn (`TickRange` 256), texts around
their budget.

Three packets allow one in the list, one on its way and a skipped one, in and
out of order, from two networks; two exports show what the first leaves behind.

`OneSampleAfterDeep` counts samples, not presses: a press that is lost, or undone
by line 200 of `app_main.c`, is the subject of `PressLostOnlyWhenStale`.

Fairness. FreeRTOS runs every ready task: `app_main`'s delays and the blink
tasks' delays end, the gpio task returns from its receive when there is an
event, every transport call has a timeout. So each task is weakly fair; the
button, the application's decision to call the client, and the outcome of
network calls are not. `StopReturns` is stated for a reconnecting client, which is the
firmware's configuration. In `WifiStation` the event task and the driver's two
answers are weakly fair (a station that tries to connect to an access point in
reach gets there, a lost link is noticed); the main task and the access point
are not, so `Reconnects` holds even if the main task sleeps for ever. In the
collector both threads are weakly fair, and
`Draw` is strongly fair: Tk executes the calls that wait in its event queue in
turn with the presses of buttons.

Deadlock checking is off where the system really stops: a destroyed client,
packets, calls and connections bounded by constants, and the hang of a
disconnect.

The type invariants `TypeOK` of the modules with a proof module are theorems
(`TypeCorrect`, section 5) and are not run again, but for the collector's.

Each property of a passing run is broken by a mutated definition, defined in
the module next to the original (`...Mutant`).

## 5. What is proved

All proofs are for every value of the constants.

* `DeviceModeProofs`: `TypeCorrect`; `SemaphoresCreated`, from the invariant
  that ties the boot program counter to the semaphores and to the gpio task
  being off; `PressLost`, from `WindowInv`: between its read and its write, a task that is not stale holds a
  mode on the side of DEEP that its write is meant for, and only there is a task
  stale, so that the exceptions of the property are the windows themselves and the write at
  boot;
  `OneSample`, from a bound on `samples` by the program counter of main: after
  the mode becomes DEEP, main passes its check in `enter_sleep` before it can
  sample twice.
* `PacketProofs`, over `PacketQueue`: `ListInvariant` (types and `WellLinked`, which is inductive
  once types are added), `TypeCorrect`, `AlwaysWellLinked`, and `Refinement`: each
  operation maps to the same operation of `PacketDeque`, or to a stutter for a NULL
  item. `WellLinked` is needed because the contents are read through the links,
  and because `size = 0` must mean an empty chain for the dangling tail to be
  harmless. Assumption: `HeapAssumption` (fewer addresses than `size` can count).
* `PacketProofs`, over `PacketUpload`: `UploadTypeCorrect`, and `InOrderAndOnce` for `SentOnceInOrder`. The
  invariant takes the order apart (what was sent increases, the queue
  increases, the one is below the other) and adds that no packet is newer than
  `made`, or a stored packet could repeat. `Split`, `Parts` and `PutBack` say what
  the loops of `mc_network_upload` take out and put back. The texts need `TextInv`: a packet
  in the queue that is not spoiled is in its block, and no other packet in the queue points
  there (`OwnBlocks`), through every block that malloc gives again. `LossIsBounded` is an exact
  account of the stored packets (`LossInv`: queue, sent and dropped, with the packets not
  yet made kept out). `FreesWhatLeaves` needs all three. Assumptions: `BatchMaxAssumption`
  (a batch is more than one packet), `MaxPacketsAssumption`.
* `MqttClientProofs`, over `MqttLifecycle`: `TypeCorrect` without conditions;
  `OnlyOneTask`, `StopIsFinal`, `NoSocketLeft`, `BitIsRight` under `AppWaits`,
  without which two starts in a row make two tasks. The inductive invariant `IInv`
  adds to them where the phases of the application put state and tasks (`Phased`,
  `AppPhase`), that `STOPPED_BIT` is clear while a task works (`BitClear`), and that
  a transport is open only in the middle of a task's life. `BitInv` says, place by
  place, which of the state and the wrapper's bit is ahead of the other.
* `MqttClientProofs`, over `MqttSession`: `MessagesWrittenOnce` and `AcksRecognised`,
  for any numbers of calls, ids, answers and losses. The inductive invariant
  `SessionInv` has four parts beside the types: `Buffer` (what the shared buffer
  holds between building and writing, and that nothing was written again),
  `Counted` (the acknowledgements to come, with the one a thread has in hand, are no
  more than the count of pending messages, and a thread between the load and the
  store of `++` or `--` has loaded the present count), `Recognised` (for each type
  and id there are no more acknowledgements to come or in hand than messages in the outbox
  and as the latest one, unless one expired) and `Compared` (an acknowledgement that was not in
  the outbox belongs to the pending message). They need that the outbox holds
  messages of past calls only (`Ticks`), that nothing was sent of calls to come
  (`Numbers`), and that without a connection nothing is owed (`Offline`). `SessionInv`
  claims them until the first race (`raced`), and the rest for ever. Of the
  outbox's operations the lemmas say that they only thin the list, keep its order,
  and drop no message before its time (`CleanupThins`, `DeleteExpiredThins`,
  `DeletePlaces`): these follow the loops round by round, with an induction over
  the rounds (`Induction`) that is drawn from the library's theorem that strict
  inclusion of finite sets is well-founded.
* `AlgorithmsProofs`, for any set of inputs. That each input is valid is
  `InputsOnly`; the rest of each proof is about the operators.
  * Outbox (`OutboxRight`): `CleanupDropsOldest` and `DeleteTakesFirst` hold of every list,
    limit, id and type. `Left` is what stays of a list when some places go;
    `LeftRemoved` says that what `RemoveAt` makes of it is of that kind. The loop's
    invariant `Dropping` counts the rounds: as long as the rest is over the limit and
    has an item that may go, each round has taken one, so as many rounds as the
    list had items are enough, whatever the sizes are.
  * Debounce (`DebounceRight`): `ButtonDebounced` says that `Debounced` holds of every
    history: by induction over the edges, `xLastTrigger` is the tick of the time at
    which the last press was handled (`Remembers`), and the difference of two ticks is
    the remainder of the difference of the times (`Difference`), which is never
    more than that difference, and is equal to it for less than one turn (`Small`).
    The history that the property makes of the gaps exists by `RecursionExists`.
  * Frames (`FramesRight`): a frame in either form of the length is taken apart into
    header, mask, masked payload and what follows (`FrameIs`); masking twice gives the
    byte back (`XorTwice`, bit by bit). A masked frame that the client reads comes out
    right as far as the property says, because the first four bytes are unmasked
    before the mask is overwritten (`UnmaskedStart`).
  * Messages (`MessagesRight`): a message under construction is either failed or all
    that was appended so far, and which of the two depends only on the length of all
    of it (`Fit`, `AppendedFits`); so a message is refused exactly when it is too long as a
    whole (`FinishedIs`). `MessageIs` says what the readers make of the fixed header in
    both lengths, and the lemmas about bodies (`PublishBody`, `SubscribeBody`, `Written`)
    where the fields stand. For a connecting message `Written` is kept by one more string
    (`WrittenMore`). A delivery keeps `Ordered` with each read: either all reads were
    served and the chunks make up what came, or a read failed or the message was
    complete. This is for a first read that ends with the message or before it, and later ones
    that do not make the 16-bit count wrap (`Room`); a first read that holds more than the
    message gives one event with a wrong total.
  * Assumptions: `InputsAssumption` (valid inputs: bytes, 16-bit ids and lengths, ids from
    the platform's random source, a buffer of at most 16386 bytes for the messages
    with a text, since two bytes of length reach no further; the firmware's buffer has
    1024) and `TickAssumption`.
* `TransportProofs`: `TypeCorrect`, `NoResourceLeaks`, `OpenSocketUsed`,
  `OnlyStaleAnswers`. `Resource` relates the TLS flag, its contexts and the
  sockets for every way of failing; `Control` says where in the task a transport
  must be connected; `Begun` and `Answers` bound what the buffer can hold by the
  number of connections. `OwnMessageFirst` (for `ConnectComesFirst`) and
  `FramesArePaired` (for `FramesPaired`) speak of all that was sent on a connection,
  so their invariant `History` does: the wire does not begin with a message of the application
  unless it was begun on an earlier connection or a CONNACK was stale (`First`), a chunk is of a writer's present
  connection (`Bounds`), and while a writer stands between header and body, its
  last chunk is a whole header (`Framed`).
* `WifiStationProofs`: `TypeCorrect`; `BitCatchesUp`, from `BitInv`: the last link
  event in the queue decides what the bit becomes, which is why the order of the
  handler's two statements is harmless (both as long as no scan has overrun its array); `ScanTextsExact`, from what the array holds
  at each stage of handler and scan, and from the prefix already copied.
* `SamplingProofs`: `TypeCorrect`; `MovementsWait`, from `LatchedFirst` and
  `KeepInv`: the interrupt is never armed before it was latched, because a write
  that fails ends the initialisation; `ModeReachesSensors`, from what the last
  command that worked left in each register; `LightPassesToo`, from
  `FailedReadsLower`: every count but that of the visible light enters the formulas with a
  positive sign, or, the dark one, with a small negative one, so a read that fails and
  counts as 0 can only lower them, up to that share of the dark count. It holds of every
  set of lights.

* `CollectorProofs`: `TypeCorrect`; `CollectsOnce` for `CollectsEachOnce`, from
  `Once`: at each step of the callback, the current list and what is set aside
  while it is sorted hold the packets due, each once, and the list is in order
  outside the sort. It rests on `SortedIs`: what `Sorted` gives is in order and has
  the elements of the list, for every list (`InOrderIs` says so of any total order
  on a finite set). `QuietAfterDisconnect`, from `Quiet`: only a user who is
  connected, or waits for the thread to end, has one. The bound on a packet's
  count of skipped packets in `TypeOK` needs `Skips`: an export adds at most one
  for each place it has passed, and a list is no longer than the packets added,
  because it holds none twice. `UndisturbedSaveSucceeds`, from `Undisturbed`: while
  no packet comes, each loop has treated exactly the places before `i` (`Progress`),
  and the first loop has met all the networks before the second one asks for them.
  `UndisturbedSave` (for `UndisturbedSaveIsComplete`) adds `FirstCounts`: the count of a
  measurement is the number of skipped packets that follow it up to `i`
  (`Following`). For that the search of `TP2.py:199-202`, which compares packets by value,
  must find the place it was meant for (`SkipperFollows`); it does so if no
  packet without data has the number of one with data. This is the hypothesis
  `NumbersTell`: it holds of one device until it restarts and counts from 0 again.
  Assumptions: `FeedAssumption`, `FilesAssumption`, `BoundsAssumption` (what the inputs
  and the bounds are).

Only model-checked: all liveness (TLAPS does not reason about fairness and
ENABLED); `TextReadBack` and `GpsKeepsLast`, whose texts are split, joined and read as numbers
with `SelectSeq` and the folds, so that what they say of every text needs an
induction over the text; the findings of `upload_stale` and `strongest`, which are counterexamples.

## 6. Findings

1. `network.c:86`: packets put back after a failed publish are freed
   (`upload_stale`). What follows from it is in `PacketUpload` too: malloc gives such a block to a
   newer packet, which is then published for the older one, and the block is
   freed twice. The return at `network.c:49` keeps the firmware from getting there.
2. `TP2.py:584` compares `rssi` with itself: of the networks in a packet the PC keeps the
   first one it can read, where the comment at line 566 says the strongest (`strongest`).

Other defects are where a property had to be given a condition, or is itself
the exact extent of one:

* `PressLostOnlyWhenStale`: the check and the assignment of the mode at
  `app_main.c:98` are two steps; a press between them is lost. So is a press
  between `mc_gpio_init` and the write of `mc_state_init` (`app_main.c:273-276`).
* `RedRecoversAwake`: the red LED takes Off after On in the same round
  (`led.c:98`) and can be wrong for a whole deep sleep; awake it recovers.
* `LostOnlyFromFullBatch`: the last packet of a full batch (`network.c:71-72`) is
  freed without having been published. And `mc_network_transmit`
  (`network.c:49`) returns before it stores its packet, which `network.h:37` says it does.
* `OneTask` (under `AppWaits`): two starts in a row create two tasks
  (`mqtt_client.c:733`), and a task that gives up leaves a state that refuses the
  next start (`mqtt_client.c:710`). Three hangs of `esp_mqtt_client_stop` are
  excluded by the same condition: stopping before the task first runs, stopping
  a client that was never started, and a task that ends before `start` clears the
  bit.
* `TextReadBack` (`PacketReadBack`, `BatchReadsFirst`, `SeparatorInName`): a packet
  longer than its budget loses its end; of a batch the PC reads the first packet at most; a
  separator in the name of a network makes the parser raise or refuse the packet (a `;`
  next to a second network costs only that network); what memory holds behind the text of
  a single network can make the packet refused, or lengthen the network's strength.
* `AckAwaited`: between `mqtt_client.c:509` and 513 the application can replace the pending
  message, whose acknowledgement is then refused. `WrittenOnce`: a call that succeeds has
  written its message, or the first bytes of it; nothing tells whether the broker got it.
* `MessagesReadBack`: a first read that holds more than one published message is
  delivered with a wrong total, because `mqtt_client.c:468` wraps.
* `AnsweredOrStale`, `FramesPaired`, `ConnectComesFirst`: the windows described
  under Transport.
* `ScanIsExact`: a scan read before its handler is done reports others; the text of a single
  network is not terminated (`wifi.c:198`); more networks than the array has entries
  are written behind it (`wifi.c:193`).
* `OutsideRight`: when the read of visible light fails, its 0 can make the light
  of a lamp pass for daylight. So does a lamp with enough infrared, with every read working:
  the formula adds it (`uv.c:110`, 121). Whether that is meant is not said, so the property compares
  with the formula and not with the place.
* `UndisturbedSaveIsComplete`, second part: the counts of skipped packets grow with every export
  (`TP2.py:244`), and when numbers repeat, as after a restart of the device, skipped
  packets are counted at the wrong measurement. `HangsOnlyWhileDrawing`: pressing Disconnect while a packet is
  being shown stops the collector for good.

## 7. Not modelled

* The Energia sketch (`src/src/Energia`): straight-line polling and printing for
  another board, made of copies of vendor drivers; superseded by the firmware.
* The rest of the prototype (`src/src/mc`), but for its GPS reader.
* URI parsing, the copies of the configuration's strings, the list of
  transports: set up once from constants.
* Tone detection (floating point), the voltage, the real-time clock, and the
  heater and id commands of the temperature sensor, which nothing calls. `i2c.c`
  is a vendor's example of which only the initialisation is used.
* `mc_queue_print`, which only prints and counts; `mc_wifi_start`, `mc_wifi_stop`,
  `mc_wifi_disconnect`, `free_data_struct`, which nothing calls.
* Time: a timeout may come at any moment. So the 30 ms the sensors get to wake up
  against the 100 ms the UV sensor integrates (`app_main.c:229`), and
  milliseconds put into a field for seconds (`lib/transport_ssl.c:101`), are hazards
  without a property.
* Failure of `malloc` and of `ESP_ERROR_CHECK`, which end in a fault or a
  reboot; logging; build output and documents.
