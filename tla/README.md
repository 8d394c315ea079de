# A TLA+ model of the toucan_stm32f407 controller

The firmware sits between a car battery (CAN1) and a home inverter (CAN2): it
reads the battery's data, passes it to the inverter in the inverter's own
protocol, and closes or opens the battery contactors. Beside that it publishes the
data over MQTT, bridges Modbus, and keeps the time. This directory holds TLA+
modules of these parts, TLC configurations that check them on small
instances, and TLAPS proofs of the main properties for every value of the
constants. Paths below are relative to `stm32f407_controller/src/bin/` unless
they start with another top-level directory.

## Inventory

| Part | State | Operations | Talks to | Hard because |
|---|---|---|---|---|
| Contactor task (`tasks/mod.rs`) | `active`, PWM channel and duty, pre-charge pin | take a command, close (pre-charge 500 ms, full duty 100 ms, hold), open | reads the one-slot signal `CONTACTOR_STATE` | commands overwrite each other; an open may arrive while closing |
| CAN tasks (`tasks/can_interfaces.rs`) | the frame in hand, start-up state | read a frame and send it to a channel, back off after an error, take a frame and write it | channels `BMS_CHANNEL_*`, `INVERTER_CHANNEL_*`, signal `CAN_READY` | full channels block; the two tasks share filter banks |
| Battery processors (`tasks/can_processors_{ze40,ze50,tesla_m3}.rs`) | counters, request code, reported contactor state | decode a frame and update `BMS`, stamp `LAST_BMS_MESSAGE`, poll periodically | CAN1's channels, `BMS`, `LAST_BMS_MESSAGE` | partial updates, blocking sends, silent batteries |
| Inverter processors (`tasks/can_processors_{solax,pylontech,pylontech_forceh2}.rs`) | `initalised`, the answer being sent | check freshness and validity, answer, command the contactor | CAN2's channels, `BMS`, `LAST_BMS_MESSAGE`, `CONTACTOR_STATE`, `GLOBALSTATE` | checks made before a blocking send and used after it |
| Shared statics (`statics/mod.rs`, `types/mod.rs`) | channels of 10 frames, signals of one slot, mutexes | send, try_send, receive, signal, wait, lock | every task | limits and overwriting |
| Configuration (`config/mod.rs`) | `Config`, `NetConfig`, `MqttConfig`, `GlobalState` | import from the BMS, decode from JSON, set fault | main, web, UART, inverter task | partial decoding |
| LEDs (`tasks/leds.rs`) | three pins | on, off, toggle, blink | signal `LED_COMMAND` | one slot for three LEDs |
| MQTT task (`tasks/mqtt.rs`) and client (`rust-mqtt/`) | connection, buffers, packet identifiers | connect, ping, publish, subscribe, reconnect, encode, decode | TCP stack, `MQTTFMT` | partial reads, lost connections, length arithmetic |
| Modbus gateway (`tasks/modbus/`) | transaction id, RS485 direction pin, buffers | TCP to RTU and back | TCP stack, UART | cancellation by a time-out between two awaits |
| NTP (`tasks/ntp/`, `sntpc/`) | RTC | request, check the answer, compute the offset | UDP stack | lost datagrams, clock arithmetic |
| Web server (`web/http.rs`, `utils/bytes_writer.rs`) | request buffer | parse, answer, change the configuration | TCP stack, `CONFIG` | requests in several reads |
| TCP debug, display, syslog, watchdog, hardware set-up | - | development aids, output, peripherals | - | tcp_debug takes frames from the processors' channels |

What makes each part correct: the contactor task must follow the last command,
in bounded time, through safe output combinations. A CAN task must not lose,
repeat or reorder frames, and must go on as long as its neighbours do. A battery
processor must not present data as valid and fresh that it did not receive. An
inverter processor must close only on fresh battery data and open when the
battery falls silent. The MQTT client must keep packet boundaries however the
stream is split, must not take one answer for another, and the task must go on
publishing. The Modbus gateway must give each requester the answer to its own
request, must not hold the RS485 line for good, and must never hang. The RTC must
follow the time server, the wrap of NTP time in 2036 included.

## How the code runs, and what one action is

All tasks share one cooperative executor: a task runs from one await that is
really pending to the next without interruption. So an action of the model is
what a task does between two pending awaits, its lock operations included (no
mutex of the control path is held across an await that can be pending for
anything but another lock, and all take `ZE50_DATA`, `BMS`, `LAST_BMS_MESSAGE`
in this order). The CAN interrupt handler, the bus, the network and the peers are
the environment.

External crates (embassy, the BMS and protocol crates, chrono) are modelled by the
results the tasks tell apart; which result comes back is a free choice. The
control path is that of a build without feature `mqtt`, whose effect on these
tasks is one more signal to another task. `WDT` has no reader (the watchdog task
is never spawned) and the LED toggles have no effect on control, so both are left
out.

## Modules

### Control path

| Module | Models | Correspondence |
|---|---|---|
| `Contactor` | both contactor tasks | `contactorPc` is the await the task is at, `timer` the rest of its delay in ticks of 100 ms; one action per match arm and per expired delay |
| `RelaySwitch` | abstract | a relay that follows the latest command |
| `ContactorUnit` | contactor task under any commander | adds the last command and the time since it became "open" |
| `CanTask` | `can_routine` and its channels | one action per select branch and per resumed await |
| `CanFifo` | one CAN task with numbered frames | counters for accepted, taken, queued and written frames |
| `CanInterfaces` | `bms_task` and `inverter_task` from reset | extends `CanFifo` (the loop of CAN2) with the start-up handshake of both |
| `BmsFeed` | abstract | age of `LAST_BMS_MESSAGE`, `BMS.valid`: updated with a stamp, spoilt, or growing older |
| `Ze40`, `Ze50`, `Tesla` | `bms_rx`, `bms_tx_periodic` of one battery with `bms_task` | one action per outcome of the receive loop and per timer branch |
| `Ze40Keys` | `x445_signal` and the key choice of `bms_tx_periodic` | counters as in the code; `try_send` may find the channel full at any preamble, and history variables count what was queued and dropped |
| `BatterySide` | the battery side of any build | instances of the four above; `build`, fixed in the initial state, is the Cargo feature |
| `InverterLink` | what the three `inverter_rx` share | receiving, `CONTACTOR_STATE.signal`, blocking sends of several frames |
| `InverterSolax`, `InverterForceH2`, `InverterPylontech` | `inverter_rx` of one protocol | one action per path through the loop body |
| `Toucan` | feed, inverter task, CAN2 task and contactor task together | `inverter`, fixed in the initial state, is the build |

A battery and an inverter side meet only in `LAST_BMS_MESSAGE` and `BMS`. Every
battery build is shown to implement `BmsFeed` (`ImplementsFeed`), and `Toucan`
uses `BmsFeed` as its battery, so what is shown of `Toucan` holds with each
battery.

### MQTT

| Module | Models | Correspondence |
|---|---|---|
| `Varint` | `encoding/variable_byte_integer.rs` | encoder, decoder and `len` on arrays of four bytes |
| `MqttBuffer` | `buffer_writer.rs`, `buffer_reader.rs`, `property.rs` | a writer is the bytes it writes, a reader a record of position, value and error; properties by their representation |
| `MqttPackets` | `packet/v5/*_packet.rs` | a packet is a record, its `encode` and `decode` a layout of fields, its remaining length the sum the code computes |
| `MqttCodec` | a packet built, encoded, perhaps cut, decoded | sample values at the edges of every representation |
| `MqttReceive` | `receive_packet` | one action per `read` that returns; a zero read in the body loop takes the last slice again and leads to `spin`, an index out of range to `panic` |
| `MqttClient` | `client.rs` over `raw_client.rs`, with a broker | one operation at a time: wait for room in the socket (`Room`), send a packet, poll for one packet, judge it |
| `MqttTask` | `mqtt_net_task` | `tpc` is the await it is at; `app = "library"` runs the same client under an arbitrary application, which uses the operations the task does not |

### Modbus and NTP

`Modbus` is `modbus_task` with `process_flow` of both builds ("bridge": TCP client
asks, RTU device answers; "client": RTU master asks, TCP server answers). `pc` is
the await the pass is at; `Timeout` may drop it at any of them, with `tx_en` as it
is. A frame has the class of its length (whole, short, long) and the request it
answers; CRC and header fields are abstracted to what the conversions check.
RS485 is half duplex: a client build whose driver was left on hears nothing.

`Ntp` is `ntp_task` with sntpc's `get_time`: one request, the checks of the answer
in their order, the arithmetic of `offset_calculate` and `roundtrip_calculate`
with its wrap-around, `UnixSeconds`, setting the RTC, a tick per second. `gen`
selects the time stamp generator: sntpc's own ("std") or the one of
`ntp_process.rs` ("rtc"), `checks` a build with overflow checks, and `zone` the zone it is
built for, ahead of UTC or behind. `DelayAndOffset` is about sntpc's own generator: with the
firmware's the result is meaningless, and unused.

A definition named in a comment as a mutant is not part of any specification: it
is a plausible mistake that the property named in `PROJECT.json` detects.

## Runs

| Run | Shows |
|---|---|
| `contactor` | outputs only in the intended combinations; no final command lost; an open that stands takes effect within pre-charge plus pull-in time; main contactor energised only under pre-charge; the task implements `RelaySwitch`, fairness included |
| `can` | CAN2 starts only, and always, after CAN1 has set the filters; then no loss, repetition or reordering under back-pressure; everything gets through when bus traffic pauses |
| `battery` | every build implements the feed, and times out on silence (ze50 excepted with reading 0x1 outstanding); bms_task stops serving CAN1 only if the bus takes no frame or, in a ze40 build, if it and `bms_rx` wait for each other, which is permanent; counters of `x445_signal` never exceed 3; the preambles queued carry the two keys by turns of five, but for those that a full channel drops |
| `toucan` | with each inverter: never energised before the battery is heard (force H2 does not test for an unseen battery); a reported fault means open; a close is given on fresh data or at the end of a blocked answer; opens for good when the battery falls silent; closes when all is well; CAN2 stops being served only when wedged |
| `mqtt_codec` | the length every packet announces is what it writes; what is decoded is what was encoded; a packet cut short is refused |
| `mqtt_task` | `receive_packet` keeps packet boundaries and panics only on a malformed length or a body over half its buffer; an acknowledgement means that this message was delivered; a successful ping means the two ends are in step; no packet of the task is ever cut by a full socket; publishing goes on unless the broker hangs or closes within a packet |
| `modbus` | an answer goes to its request, but for two cases named in `AnswerIsToRequest`; no pass hangs; a driver left on by a transmission cut short is switched off by the next one (`DriverReleased`), but a client build has no next one: it is deaf for good (`DeafIsForever`) |
| `ntp` | the RTC follows the server and sntpc's delay and offset are right, across the wrap of NTP time |
| `solax_two_positives`, `ze50_push`, `mqtt_silence`, `ntp_stamp` | expected violations, below |

Reachability of the wedge: `WedgeIsForever` and the properties about stalling do
not say the mutual wait is excluded. TLC reaches it in `battery` and `toucan`: a
full receive channel with the CAN task holding one more frame, while the processor
is blocked on a full transmit channel. It takes ten frames each way in the real
code.

### Where the code and its words differ

- `can_processors_solax.rs:104`: "waits for 2 positive results before activating
  contactor". The time-out path (lines 36-40) opens the contactor and keeps
  `initalised`, so after a time-out one positive result closes it
  (`TwoPositivesToClose` is violated).
- `can_processors_ze50.rs:17`: "push vals to ZE50_BMS struct when reading loop
  has finished". `update` runs on every 225 ms tick while `req_code` is 0x1 and
  renews `LAST_BMS_MESSAGE` each time, so a battery that falls silent at that
  reading never times out (`PushEndsReadingLoop`).
- `mqtt.rs:133`: "No response from MQTT server" is logged when a ping fails. Without
  a response no ping fails: nothing has a time-out, and a connection closed within
  a packet makes `receive_packet` spin without suspending (`PingComesBack`).
- `sntpc/src/types.rs:264`: the generator "Returns the fractional part of the
  timestamp in whole micro seconds." The one of `ntp_process.rs` returns all
  microseconds since 1970 cut to 32 bits, so the stamp of a request is up to 4294 s
  off the RTC (`StampIsClock`). The server echoes it, so the time set is right.

### Observed, with nothing in the repository to check against

- `buffer_reader.rs:143`: `read_binary` does not advance, so a packet with a binary
  property is not read back; `RoundTrip` and `CutIsRefused` except such packets. No
  packet the firmware receives or sends needs one.
- A PUBREL made by `new()` has no packet type (`RoundTrip` excepts it).
- `modbus_tcp_gateway.rs:99`: `ModbusError::Tcp` does not leave the inner loop; a
  client build keeps a dead connection while its RTU master polls.
- `modbus/models.rs:198`: a client build whose answer is dropped between `set_high`
  and `set_low` keeps its driver on and hears its master no more (`DeafIsForever`).
- `can_processors_pylontech.rs:39`: `inverter_comms_valid` is set to false and never to
  true, so a pylontech, byd or goodwe build never orders the contactors closed.
- `can_processors_ze50.rs:164`: the identifier is compared with `== !0x18DAF1DB`, the
  complement, which no 29-bit identifier equals: the check never fires, and a frame with
  any extended identifier is decoded (the model takes it so).
- `can_interfaces.rs:80`: the `TransmitStatus` of a write is discarded. The driver may hand
  back a pending frame of lower priority, which is then lost; "written" in `CanFifo` means
  handed to the controller.
- `buffer_reader.rs:166`: a PUBLISH whose remaining length is not in its shortest form is
  sliced backwards and panics (`ReadMessage` has it as an error of that name); no broker in
  the model writes one.
- `modbus/models.rs:396`: `payload_length` adds 2 to a `u8` before widening it; an
  announced length of 254 or more wraps to a short read, or panics with overflow
  checks (the model has it as a frame longer than what is read).
- `can_processors_ze40.rs:158`: a failed diagnostic update is masked by the next
  successful rapid update, which sets `valid`.
- `can_processors_pylontech_forceh2.rs:43`: invalid but recent data leaves the
  contactor as it is.
- `tasks/leds.rs:12`: one command slot for three LEDs.
- `sntpc/src/lib.rs:455`: the answer is awaited for ever; a lost datagram suspends
  `ntp_task` before its first tick. The address check never fires, since
  `recv_from` returns the configured address.
- `ntp_process.rs:52`: UTC is taken for local time, so `UTC_NOW` is UTC less the
  zone's offset (`RtcFollowsServer` says so). The round trip time is meaningless
  with a generator whose `init` does nothing; `ntp_task` does not use it.
- In a build with overflow checks `ntp_task` panics from 2036 on.
- `can_processors_solax.rs:54`: the log says "Inverter request ignored, BMS data not
  yet valid", and the request is answered all the same.

### Bounds

`FRAME_BUFFER` is 1 or 2 instead of 10, `HwQueue` 1 or 2: enough for a channel to
be empty, full, and full with a blocked sender. Answers have up to
`FRAME_BUFFER + 1` frames so that a send blocks with some frames sent and some
not. `Timeout` is 1 second instead of 10: unseen, fresh, about to time out and
timed out are then all different. The contactor run uses the code's delays (5 and
1 ticks) with pre-charge; the composed runs use one tick and the main contactor
only, since there only the order matters.
`MaxFrames = 6` in `can` exceeds what the queues hold together; it ends the
traffic, hence its `CHECK_DEADLOCK FALSE`. Ages are capped one past the time-out,
`positives` at 2 and `sinceOpen` one past its bound: comparisons see no difference
beyond.

MQTT: in `mqtt_codec` strings of 0 to 130 bytes cross the one-byte length and the
buffer of 140 makes some packets not fit; cuts fall within the first 12 bytes, where
the headers and first fields are, and before the last byte. In `mqtt_task`
`BUF = 9` holds every packet the task receives and lets a pushed one exceed half of
it; `TX = 14` holds one message and not two; `ID_MAX = 3` makes packet identifiers
come round; two faults of the broker allow a failure during recovery from another.
A library client makes `MaxOps = 4` calls per connection. A broker that hangs or a
receiver that spins ends the behaviour, hence `CHECK_DEADLOCK FALSE`.

Modbus: three transaction ids and three requests told apart, one request waiting,
two late RTU answers, two faults. NTP: 16 instead of 2^32 fractions per second and
seconds per era, 4 microseconds per second; the task starts before or after the
wrap at 256, in a zone at, five seconds ahead of or five behind UTC, with clocks apart by up to a quarter of an era less one second (beyond
it the offset's `i64` arithmetic is wrong, 34 years in reality); `Horizon` ends the time
and a panic the task, hence `CHECK_DEADLOCK FALSE`.

### Fairness

Weak fairness of every task step (the executor polls a woken task), of the timers
and of the clock. Nothing is assumed of battery, inverter or bus except in
`can`, where the liveness property is about what happens if the bus takes
frames, the processor receives, and reads do not fail for ever (strong fairness
of a successful read). `FailSafe` and `ClosesWhenHealthy` state what they need of
the environment as premises: the inverter's requests keep being handled; the feed
stays fresh and valid and the parser stops reporting critical errors.

In `MqttTask` the network delivers what was sent and a broker that has not hung
answers; when it hangs is up to it. A write waits for room in the socket, and is
fair once there is some. Two of the weak fairness conditions are written
out (`[]<>~P \/ []<><<A>>_v` with `P` the guard of `A`), which is the same formula
and much cheaper to evaluate. In `Modbus` the timer of each await is fair by itself
(`\A p \in Flow : WF(pc = p /\ Timeout)`): a pass stuck at one await is dropped by its
timer, while a pass that moves on may always be in time. Nothing is assumed of
Modbus peers except that an RTU master goes on polling. `Ntp` has no liveness
property: without a time-out in the code there is none to state.

## Proofs

- `ContactorProofs`, for all delays and both builds: `UnitInvariant` is the
  inductive invariant. Besides the types it says, for every await of the task,
  which outputs are on (the properties alone do not know what will happen when a
  delay ends), and, for the time bound, that the time since "open" plus what is
  left of the closing sequence is within `ReactionTime`. From it follow
  `TypeCorrect`, `OutputsAlwaysSafe`, `FinalCommandObeyed`, `OpensInTime`,
  `EnergisedInOrder`, and `RefinesSwitchSafety` (every step is a step of
  `RelaySwitch` or a stutter).
- `BatteryProofs`, for all channel sizes, time-outs and payload counts:
  `BatteryImplementsFeed` (one lemma per battery: each of its steps is a step of the
  feed or leaves it alone), `Ze40WedgeIsForever`, `KeyCountersStayBounded` and
  `KeysAlwaysAlternate`. The last needs the invariant `KeyRound`, which ties the
  history (the run of equal keys queued, and what was dropped before, during and after
  it) to `counter`: while the key due is the one last queued, everything offered in its
  turn is in the history, and otherwise the whole turn so far was dropped.
- `ToucanProofs`, for all three inverters and all constants: the inductive
  invariant `ControlInv` says that an age is in range, that an unseen battery has
  invalid data, an idle contactor, and no answer under way, that a fault
  means open, and that only the solax task reports one. From it follow `NotEnergisedUnseen`, `FaultKeepsOpen`
  and `ClosesOnFreshData`. `ToucanTypeCorrect`
  (`ToucanTypeOK`) is inductive by itself; it is proved with one lemma per part
  (contactor, CAN2, the order of an answer, each inverter), which any action of
  that part cites.
- `CanProofs`, for every channel size, controller queue and number of frames: the
  order properties are inductive together (`FifoInv`): what is queued, in hand and
  in the controller is always a run of consecutive numbers between two counters.
  `StartInv` adds that CAN2 has moved no frame before it runs, and that it runs
  only after CAN1. From both follow `ChannelsBounded`, `ReceivesInOrder`,
  `TransmitsInOrder` and `FiltersAlwaysFirst`.
- `ModbusProofs`, for any number of requests, transaction ids, late frames and
  failures: `DeafStaysDeaf` (`DeafIsForever`), and `AnswersMatch`
  (`AnswerIsToRequest`). The second is about history that the gateway does not keep: an answer of the TCP server is
  recognised by its transaction id alone, and ids come round. The invariant
  (`GatewayInv`) therefore names the request each answer under way belongs to: what
  the server has sent and the gateway has not read, together with the part it has
  read, is a row of whole answers to requests `u` (`Whole`), the server still
  holds the requests `v` (`Queued`), and each of them is at most as old as there
  are answers behind it (`Recent`), of which there are no more than the server
  has repeated and the one awaited (`Repeated`). An answer that passes the check of its id
  is then less than `ID_MAX + 1` requests old, hence the awaited one. This needs
  `MaxFaults <= ID_MAX`, the hypothesis of the theorem: after 2^16 repeated
  answers on one connection an old id would match. For a bridge the invariant is
  that all frames to come of the device are for this request, or `late`.
- `NtpProofs`, for every length of a second and of an era, every zone ahead of UTC or
  behind, and every delay:
  `RtcAlwaysFollows` (`RtcFollowsServer`). `NtpInv` says that the instants of the time
  stamps lie between the start and now, that a datagram under way is the server's answer
  with the stamps of those instants or one that is refused (`StraysRefused`), and
  that the RTC is set once. The lemma `StampParts` splits a stamp that wrapped
  around into seconds and fraction, `AcceptedSeconds` shows that subtracting
  1970 modulo 2^32 undoes the wrap, and that a fraction of `u32::MAX`, and no other,
  carries. `EpochAssumption` keeps the time between 1970, plus the hours a zone is ahead,
  and the end of a `u32` of seconds in 2106. `DelayAndOffsetRight` (`DelayAndOffset`) adds `DelayInv`: the stamp
  of the request is behind the clock by at most a `Lag`, and the instants of an exchange
  are in order. Its arithmetic is one lemma per rounding (`StampRounding` for the
  stamp, `ConvertRounding` and `SignedRounding` for microseconds, `HalfOf`), one for each
  wrap (`ModShift`, `SignedOf`), and `RoundtripRight` and `OffsetRight`, which add
  the errors up. `ClockAssumption` is what they need: a microsecond is at least four
  fractions long, and the clocks differ by less than a quarter era.
- `MqttReceiveProofs`. For every number up to 268,435,455: the elements of an encoding
  are bytes (`VarintBytes`), decoding gives the number back (`VarintRoundTrip`), and
  the encoding is the shortest (`VarintShortest`). The lemma `FourDigits`
  writes a number by its digits base 128; each theorem is then a case split on how
  many of them are needed. For every buffer size, stream and split: `ReceiveInv` adds to
  the two properties of `receive_packet` the types and that at most four bytes are there
  while the length is not complete. From it follow `SplitReadsAreSafe`
  (`PanicOnlyOnExcess`) and `FramingIsKept` (`NeverOverreads`), of the receiver with an
  arbitrary stream.
- `MqttTaskProofs`, for every buffer, identifier range, packet size and number of
  operations, failures and messages, of the client with its broker, under
  `mqtt_net_task` and under any other application. Nothing in the code says which
  packet answers which operation; what makes it right is what can be in flight, and
  that is what the inductive invariant `MqttInv` says:
  - `Framing`: the bytes taken for the packet under way followed by those still in the
    stream are packet after packet, at positions `P`, the last one possibly cut off by
    a peer that closed. `Phase` ties `receive_packet`'s counters to the first one. This is
    claimed while the receiver is `Aligned`: an operation starts at the start of a
    packet unless the connection is reset, after which none is sent.
  - `TaskOK`, `TaskFlight`: before a ping no PINGREQ and no PINGRESP is under way in
    either direction and at most one packet is unread; before a CONNECT or PUBLISH
    nothing is under way but a goodbye; while a ping waits a PINGRESP is the last packet
    and means that the broker has read everything.
  - `LibraryOK`, `LibraryFlight`: no identifier in flight is one that a later operation
    on the connection will take (`Unused`).
  - `AckOK`, `AckFlight`: a good PUBACK for the message under way means that this
    message is the last the broker got, and that nothing is unread.

  The lemmas about the stream (`FrameAppended`, `StreamCut`, `FirstTaken`, `BytesMoved`)
  say what a packet sent, a stream cut off, a packet taken and a read do to a framing;
  those about the codec (`EventKinds`, `PubackDecoded`, `SuccessIs`) say which bytes
  make an operation succeed; then there is one lemma per action. It follows that
  `PingsInStep` (`PingMeansInStep`) and `TaskAcksMeanDelivered` hold unconditionally:
  the ping before each message keeps a stale answer from being taken for a new one
  however often the identifiers come round. For any other client
  `AcksMeanDelivered` (`AckMeansDelivered`) has the hypothesis
  `MaxOps <= ID_MAX + 1`: identifiers are `u16`, and a client that leaves an
  acknowledgement unread over 65,535 further operations on its connection may take it
  for that of a new message (TLC finds this with `ID_MAX = 3` and `MaxOps = 6`, so the
  hypothesis is needed). `NoShortWrites` (`NoShortWrite`) has the hypothesis
  `BUF + 2 <= TX`, which `mqtt.rs` satisfies (`BUF_SIZE` is 1500, the transmit buffer of
  `TcpClientState<1, 2048, 2048>` 2048): the largest packet and one PINGREQ fit.
  `MqttTask.cfg` satisfies both, with `MaxOps = ID_MAX + 1` at the limit.
  `ClientPanicsOnlyOnExcess` and `ClientNeverOverreads` state the two results about
  `receive_packet` of the client, where operations start and end it.

The assumptions are the named ones of the modules (`ContactorAssumption`,
`BatteryAssumption`, `LinkAssumption`, `InverterAssumption`, `BufAssumption`,
`ClientAssumption`, `TaskAssumption`, `FifoAssumption`, `ModbusAssumption`,
`NtpAssumption`, `EpochAssumption`, `ClockAssumption`): delays and sizes are positive,
classes are as listed, a buffer holds at least a fixed header, there is a packet
identifier and the counter starts within their range, a second has more fractions than microseconds, the
clocks are as just said, and the year is one a `u32` of seconds can hold. TLC evaluates them in the runs.

Only model-checked:

- every liveness property (and the fairness half of `RefinesSwitch`), which is
  beyond this prover;
- the codec for every packet (`RemLenExact`, `RoundTrip`, `CutIsRefused`): its readers
  and lengths are recursive over bytes, fields and properties, and what they compute
  needs induction over data. For the one packet on which `AckMeansDelivered` turns, the
  PUBACK, what decoding it yields is proved (`PubackDecoded`).

## Not modelled, and why

- Web server (`web/http.rs`) and configuration decoding: string parsing and page
  rendering; the state they change is read at start-up. The hazard of a request in
  several reads is listed in `PROJECT.json`.
- LED task, display, syslog encoder, byte writer: output and formatting.
- TCP debug: a development aid; when it is spawned it competes with the processors
  for frames, so nothing said here of them holds in such a build.
- Watchdog and `uart_task`: `main.rs` does not spawn them.
- Hardware set-up: register access without control state.
- Frame contents and lengths on CAN (so not the unchecked `data[2]` of
  `can_processors_ze40.rs:193`), and which of several values of `BMS` an update
  sets; the OB737 filters of the Modbus gateway (floating point); reason code tables
  and subscriptions to several topics of rust-mqtt; the calendar.
- Limits that small payloads do not reach: a short write of the Modbus TCP socket
  (`models.rs:326`), a Modbus answer of more bytes than its vector holds
  (`models.rs:343`), and MQTT lengths over 64 KB: `AsU16` has the width of
  `encoded_len` and of the sum of the filters, but the samples stay below it, as
  does a buffer of 1500 bytes. CONNECT samples have an empty will payload.
- The origin time stamp of a request whose RTC is not set yet (`ntp_process.rs:74`
  takes `NaiveDateTime::MIN`) or that overflows a `u64` (`sntpc/src/lib.rs:685`, a
  panic in a build with overflow checks): `Skews` has clocks that are wrong by less
  than a quarter era, and the server only echoes the stamp.

`PROJECT.json` lists every part, and the hazards with the properties about them.

## Possible extensions

`Http` (requests in several reads) and `TcpDebug` as a second consumer of CAN1's channels.
