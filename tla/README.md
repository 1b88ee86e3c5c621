# Verification of the ESP32 UDS gateway

TLA+ models of the concurrent core of `src/main`, TLC runs that check them on
small instances, and TLAPS proofs of the main safety properties for every value
of the constants. Paths below are relative to the repository root; the
models follow the C code, and where a document or comment says something else the
difference is in *Findings* below; the ones a run shows are also the "findings" of
`PROJECT.json`.

## The system

A browser talks JSON over a WebSocket to the gateway; the gateway talks UDS over
ISO-TP over CAN to the ECUs of a vehicle.

| Part | Task (priority, core) | State | Talks to |
|---|---|---|---|
| `twai_driver.c` | `twai` (10, 1) | TWAI driver, `EVT_BUS_ERROR` | `q_twai_tx` (32) -> bus -> `q_twai_rx` (32), `q_can_monitor` |
| `isotp_layer.c`, receive | `isotp` (9, 1) | `rx_state` | `q_twai_rx` -> `q_isotp_rx` (2); Flow Controls -> `q_twai_tx` |
| `isotp_layer.c`, transmit | callers of `isotp_send`, and `isotp` | `tx_state`, `tx_mutex`, `done_sem` | `q_twai_tx`; Flow Controls from `q_twai_rx` |
| `uds_service.c`, requests | `uds` (8, 1) | `g_uds_bus_lock`, deadline | `q_uds_request`, `isotp_send`, `q_isotp_rx`, `q_uds_response` |
| `uds_service.c`, `uds_flash_sequence` | `flash` (7, 1), made by `ws_proto.c` | offset, block counter, `EVT_FLASH_IN_PROGRESS` | bus lock, `isotp_send`, `q_isotp_rx`, progress to the client |
| `tester_present.c` | `tp` (6, 1) | `tp_active`, ids | `isotp_send` |
| `ws_proto.c`, handlers | `httpd` (5, either) | firmware buffer, flash parameters, `s_flash_task` | `q_uds_request`, the flash task, `arm_button_is_armed` |
| `ws_proto.c`, pump | `wspump` (5, 0) | - | `q_uds_response`, `q_can_monitor` -> client |
| `arm_button.c` | `arm` (4, 0) | `g_state`, `g_armed_at` | read by `httpd`, reset by `flash` |
| `http_server.c` | `httpd` | client fd and server under `g_ws_mtx` | client |
| `http_server.c`, REST | `httpd` | NVS namespace `gw_cfg` | `esp_wifi_*`, `esp_restart` |
| `main.c`, `gw_nvs.c` | `app_main`, event task | `EVT_WIFI_CONNECTED` | NVS, WiFi driver, `http_server_start` |
| `status_led.c` | `led` (3, 0) | queue of 8, error override | everybody sets it |
| `seed_to_key.c`, `webui`, `tools` | - | - | - |

What is hard in it:

- `tx_state` is written by the caller of `isotp_send` and by `isotp_task` with no
  lock between them; `tx_mutex` only separates callers.
- Almost every wait has a timeout, and what arrives late (a Flow Control, a semaphore,
  an answer) must not be taken for the next message's.
- Frames are lost when a queue is full or the bus fails; other nodes share the bus.
- The firmware buffer, `s_flash_task` and the arming are shared by three tasks on
  two cores without a lock, and so is the LED's error override by two.
- Sockets are numbers that are reused, and three tasks send on one they copied.
- Saving the configuration is several commits, and power may fail in between.

For each part, what makes it correct:

| Part | Properties |
|---|---|
| ISO-TP receive | a delivered message is whole, in order and of one sender; copies stay in the buffer; a Flow Control reaches the sender of the First Frame; a reassembly ends |
| ISO-TP transmit | `true` means sent; the ECU never joins pieces of two messages nor is overrun; a call gets its own result; a call returns |
| Upload and flash start | one flash at a time; the file verified is the file flashed; one press, one flash; every flash ends |
| UDS service | an answer belongs to its request; the lock and the waits end; every request is answered |
| Flash sequence | blocks in order, exactly the image; lock and event bit restored on every path; no other traffic meanwhile |
| WebSocket session | a message goes to the client that is connected; a leaving client does not clear its successor |
| TWAI and LED | a frame that is lost is flagged; recovery ends in a running driver; the LED shows the last state set and loses no error |
| Settings, boot, WiFi | the next boot uses what was saved; a lost link is always being rejoined |

The hazards behind these properties, each at its line, are in `PROJECT.json`.

## Modules

| Module | Contents |
|---|---|
| `IsoTpRx` | receive half of `isotp_layer.c`, with the ECUs and other nodes of the bus |
| `IsoTpRxProofs` | its inductive invariant and theorems |
| `IsoTpTx` | transmit half, with the receiving ECUs |
| `IsoTpTxProofs` | its inductive invariants and theorems |
| `FlashControl` | upload handlers, `flash_start`, the flash task, the arm button |
| `FlashControlProofs` | its inductive invariant and theorems |
| `UdsService` | `uds_task`, `uds_request_blocking`, `wait_uds_response`, the bus lock and the queues |
| `UdsServiceProofs` | its inductive invariants and theorems |
| `FlashProcedure` | what a flash promises an ECU, abstractly |
| `FlashSequence` | `uds_flash_sequence`, Tester Present and `uds_task`'s use of the lock; implements `FlashProcedure` |
| `FlashSequenceProofs` | its inductive invariants, its theorems and the refinement |
| `StatusLed` | the LED's queue, `led_task` and the error override |
| `TwaiDriver` | `twai_task`, the driver and the bus; extends `StatusLed` |
| `TwaiDriverProofs` | inductive invariant and theorems of both |
| `WsSession` | the `/ws` slot, `http_server_ws_send_text` and its writers, `ws_proto_pump_task` |
| `WsSessionProofs` | its inductive invariant and theorems |
| `Settings` | REST handlers that store the configuration, boot, WiFi events |
| `SettingsProofs` | its inductive invariant and theorems |
| `MCIsoTpRx`, `MCIsoTpTx`, `MCFlashControl`, `MCUdsService`, `MCFlashSequence`, `MCTwaiDriver`, `MCWsSession`, `MCSettings` | constants for TLC |

Definitions named `...Mutant` stand beside the definition they distort: each is a
plausible bug of that code, and the property it is paired with in `PROJECT.json`
fails under it.

### IsoTpRx

`rx` is `rx_state` (with the age of `last_rx`), `tx` the three fields of
`tx_state` that `handle_rx_frame` reads, `call` the `isotp_send` in progress. A
payload is the sequence of frame parts `<<message, part>>` it was copied from.
One iteration of `isotp_task` (receive a frame or time out after 2 ms, handle it,
check N_Cr) is one action, since it preempts every reader and writer of its state.
The stores of `tx_id` and `rx_id` in `isotp_send` are separate actions, so that a
First Frame can come between them. Frames are dropped when `q_twai_rx` is full,
messages when `q_isotp_rx` is, Flow Controls when `q_twai_tx` is. A Flow Control waits in
`q_twai_tx` for any time (`SendFcCts`, `TwaiTransmit`; the driver's own queue is taken
together with it) and may then be lost.

Environment: an ECU sends its messages in order, a First Frame first, and waits
for a Flow Control on its own id. It gives a message up at any moment, also while its
First Frame is still in `q_twai_rx` or the Flow Control in `q_twai_tx`: a Flow Control
names no message, so whichever ECU listens on its id and waits for one takes it
(`Released`). `crossed` records the ECUs that took one not meant for the First Frame they
had just sent; `WholeUnlessForeign` exempts them (see *Findings*). Other nodes send any of the
frames in `Noise`.

### IsoTpTx

`tx` is `tx_state`, `call` the `isotp_send` that owns `tx_mutex`, by the store it
is at, and `itask` the Consecutive Frame on which `send_cf` is blocked.
A caller moves only while `isotp_task` is blocked (`IsotpBlocked`): both are
pinned to core 1 and `isotp_task` has the higher priority. One iteration is one
action, split where it blocks on `q_twai_tx`. The ids, the data pointer and the
length are stored in program order by separate actions; the stores after them,
which no step of `isotp_task` can separate meaningfully, are one (`StoreRest`).

Environment: an ECU answers a First Frame, or a full block, with any of CTS, WAIT
(at most `MaxEcuWaits` in a row) and OVFL after any delay; a frame may be lost
on the bus (`hist.lost`). `hist.raced` records that `isotp_task` wrote `tx_state`
while a caller was filling it, `hist.late` that a Flow Control meant for one
message was taken by another to the same ECU. The properties name these causes
as the only exceptions: without the first, `isotp_send` returns true for a message it
has not sent (see *Findings*).

### FlashControl

`fw` is `fw_buffer` and the statics beside it, `httpd` the handler in progress,
`runner` the `flash_runner_task`s, `arm` and `button` the two halves of
`arm_button.c`. A handler is one action except where another task reads or writes
in between: `flash_upload_begin` is free, malloc, and the resets;
`arm_button_is_armed` is its two reads of `g_state` and the store that disarms;
`flash_start` is that, then its check of `s_flash_task`. The initializer of the
flash parameters reads `fw_received` twice and `fw_buffer` once in an order C
leaves open, so in any order here. A press stores `g_state`, then `g_armed_at`.

Firmware is a sequence of cells holding the file they came from: a chunk may be of
the wrong file, at the wrong place, oversized, repeated or empty. CRCs of different
contents differ. `uds_flash_sequence` appears as its parameter check and its reads
of the firmware; it may fail after any of them, or hang in a request for good
(`SequenceHangs`, for the two reasons under *Fairness*). Allocation and task creation
may fail. A file whose CRC32 is 0 counts as one without CRC, as in the code.
The ages saturate: the wrap of the tick counter is not modelled there.

### UdsService

`user` is what the two callers of `uds_request_blocking`, `uds_task` and the flash task,
are doing: `pc` is the place in the code, `deadline` and `remaining` are the locals
of `wait_uds_response`. Each look at the clock (`Test`, `Remaining`) is an action of
its own, since the tick may advance in between; `now` wraps at `TickMod`. One tick past
the deadline what is left of it is `TickMod - 1`, which is `portMAX_DELAY` (`Forever`): that
wait does not count down, and only a message ends it. A ready
task is kept from running for at most `MaxHeld` ticks. `isotp_send` is one action with
any result, as `IsoTpTx` shows it to have; the flash is a fixed list of requests,
and `FlashSequence` has its real one. An answer carries, as history, the call it
answers (`of`) and the one in progress when it came (`during`). The third byte of
an answer of two bytes is any: it was left in the static buffer by an earlier one.
Clients and flashes together make `MaxRequests` requests; an ECU sends at most
`MaxPending` Response Pendings for each (with no limit `RequestEnds` would be false,
of the code too). A request that finds `q_uds_request` full is dropped, which
changes nothing here.

### FlashProcedure and FlashSequence

`FlashProcedure` says which requests a flash may have sent: a prefix of session,
seed, key, erase, download, the image in blocks numbered 1 to 255 in a circle, exit,
check, reset; and that `FLASH_OK` comes only after all of them. `FlashSequence` has
one action per request of `uds_flash_sequence` (`flash.pc` is the one it is at), with
the lock and the event bit, every failure (`RequestFails`), the loop over the image
with its offset and counter, and beside it `uds_task` (lock, request, start or stop of
Tester Present) and `tester_present_task`, whose check of the bit and whose send are
two actions. The refinement mapping takes `hist.sent` for the requests. An
answer to an earlier request for the same service may be taken for that of the
current one (`hist.stale`), as `UdsService` shows. Requests that cannot be used
(no seed, a block size below 3) fail the flash after they were performed.

### StatusLed and TwaiDriver

`StatusLed` is half a specification: the state and the steps of `status_led.c`, which
`TwaiDriver` extends with the task that calls most of them. `led.current` is
`g_current_state`, `led.override` says that `g_override` holds an error, `led.live`
that `g_override_until_us` lies ahead. `led_flash_error` is its two stores and
`led_task` its two reads and its reset, since they run on two cores; where they meet
between their stores an error may be lost, which `asked.raced` records. Every other
`led_set_state` of the program is `OthersSetLed`.

In `TwaiDriver` an iteration of `twai_task` is five actions: take a frame, transmit it
or fail to, flag the error, receive a frame, look at the alerts. The driver of ESP-IDF
is its state, the frames it accepted and received and the bus-off alert; it goes
bus-off at any moment, and recovery empties its queue and ends in `stopped`, as the
driver documents. `bus` records our frames in the order they went out. Frames
received, and copies for the monitor, are only counted.

### WsSession

`slot` is `g_ws_fd`, `g_ws_server` and `EVT_WS_CONNECTED`, which change together under
`g_ws_mtx`. `sess` is the session table of httpd: it gives the lowest free socket to
the next connection, so a socket number soon means another browser. The handlers, the
close callback (slot first, then socket) and the answers of `ws_proto_handle_json` are
httpd's steps, one at a time. `http_server_ws_send_text` is copy, send and, after a
failure, clear, for each of its three writers; the frame goes to whoever has the socket by
then. The pump is the loop of `ws_proto_pump_task` with the two queues counted.

`last` is history: the connection that opened `/ws` last, and whether the slot may have
left it: it sent CLOSE, a send to it failed (`gone`), or a send to an earlier user of its
socket failed after it had connected (`hit`). The last is a defect the code accepts:
`ws_clear_client` compares socket numbers only. That a frame is written by two tasks
at once, header and payload interleaved, is not modelled.

### Settings

`nvs` is the namespace `gw_cfg` reduced to the keys that boot reads, `wifi` the
configuration and link of the WiFi driver, `events` the event loop that calls
`wifi_event_handler`, `httpd` the save of credentials in progress. A string is a name
and a length, enough for what the buffers do to it: `gw_nvs_get_str` takes one that does not fit
for absent, `strncpy` cuts it at 31 or 63 characters. The two commits and the three
calls to the driver are an action each, every write may fail, as no result is looked at,
and `Restart` (power, crash, `/api/reboot`, the end of a factory reset) may come
between any two. The driver may refuse a configuration while it is connecting.
`Boot` may find NVS without a free page or in another format, and then erases all of it
first (`main.c:61-64`); power may fail while it does (`EraseCutShort`).

`saved` records the last complete save and `torn` the keys whose last save failed or was
cut short; what boots then is whatever was written. An erase takes from `saved` what it takes
from NVS. `BootUsesSaved` says of every boot that it uses what is saved, or, when boot
itself erased NVS, the defaults alone.

That `esp_wifi_connect` works is taken for granted where the link is down: both calls
ignore its result (`main.c:143`, `http_server.c:294`), and if it failed without an event
nobody would try again, which `LinkWatched` could not hold against.

## Runs

| Run | Shows | Instance |
|---|---|---|
| `rx` (pass) | `CopyInBounds`, `NoStaleBytes`, `WholeUnlessForeign`, `FcToPeer`, `ReassemblyEnds` | two ECUs, one with ids 8 apart and one without, a broadcasting node |
| `tx` (pass) | `SendTrueUnlessRaced`, `EcuIntegrity`, `EcuNotOverrun`, `OwnResult`, `SendReturns` | two callers, an ECU each, messages of one and three frames, queues of one frame |
| `flash` (pass) | `OneRunner`, `UploadInBlock`, `FlashesVerifiedImage`, `OnePressOneFlash`, `FlashEnds` | files of two cells and one, one announced with its CRC and one without |
| `uds` (pass) | `OneUserInside`, `AnswerOfRequest`, `StatusTrue`, `TimeoutNotEarly`, `RequestEnds` | two ECUs, two requests of clients (one too long), a flash of two requests; queues of one; ticks modulo 4 |
| `flash_sequence` (pass) | `LockAndBit`, `OkMeansDone`, `OneTpPerFlash`, `ImplementsProcedure`, `TpGoesOn` | images of one byte and five, blocks of one to three, a counter that wraps at 2, two flashes, two client requests |
| `bus` (pass) | `FramesAccounted`, `LedTells` | three frames, queues of one or two, three LED states |
| `ws` (pass) | `SlotIsOpen`, `LastBrowserKept`, `PumpReturns` | three connections on two sockets, queues of one |
| `settings` (pass) | `LinkWatched`, `BootUsesSaved` | three networks with names of 4, 32 and 33 characters, two passwords, two bitrates, two events |
| `uds_one_byte` | `PositiveHeard` fails: a positive answer of one byte is ignored | as `uds` |
| `flash_shared` | `FirmwareNotShared` fails: an upload frees the firmware being flashed | as `flash` |
| `flash_press` | `PressArms` fails: a press is disarmed at once | as `flash` |
| `bus_recovery` | `BusRecovers` fails: after bus-off the driver stays stopped | as `bus`, two frames |

Bounds. In `IsoTpRx` messages per ECU (`MaxMsgs`), requests (`MaxCalls`) and
foreign frames (`MaxNoise`) are counted; in `IsoTpTx` calls (`MaxCalls`) and FC
WAIT per Flow Control (`MaxEcuWaits`). Two messages, or two calls, are what it takes for
something of the first to leak into the second. Sequence numbers are taken modulo
`SnMod` (16 in the code), small enough to wrap within a message. Queues hold one or
two frames, so that they fill (the Flow Control queue of `IsoTpRx` one, `TxQueueCap`). Times are ages cut off one above the limit they
are compared with; a limit of 0 or 1 ticks still has a before and an after.
`FlashControl` counts nothing: presses, uploads, starts and flashes go on for
ever, and only the number of starts remembered per press is cut off, at two.
`UdsService` has three requests in all, so that a late answer can meet the next request
for its service and the flash a request in progress; timeouts of 1 tick, 2 for
Response Pending and a wrap at 4 put a deadline on either side of the wrap, and a task held
for two ticks (`MaxHeld`) can miss its deadline by one. A negative answer of two bytes gives
any NRC, 0xFF and 0xFE included. In `TwaiDriver` only the
frames made are counted (`MaxFrames`), enough for one at each place on the way; in
`WsSession` the connections (`MaxConns`): the third can get the socket of the first
while the second has the slot or has had it. `Settings` counts nothing but the queued events. In
`FlashSequence` the deadlock check is off: after the last flash and request all tasks wait.

Fairness. `isotp_task` is the highest-priority task of core 1 but for `twai_task`,
and none of its waits is unbounded, so it always takes its next step; time passes;
a caller of `isotp_send` and a waiter for `tx_mutex` run because `isotp_task`
blocks in every iteration. No fairness is assumed of the bus, the ECUs or
`twai_task`: `SendReturns` and `ReassemblyEnds` hold however silent they are.

In `UdsService` the two tasks are fair, as those above them block in every iteration,
and time passes; nothing is assumed of the ECUs, the clients or the pump. A request ends but for
two things: an ECU that announces Response
Pending for ever extends its deadline for ever (`uds_service.c:54`; `MaxPending` bounds it in
the model), and a task kept from the processor for just two ticks between `uds_service.c:45` and
`:46` waits without end (`Hangs`, the exception of `RequestEnds`). A flash holds the lock for
ever then, and `uds_task` behind it; `uds_task` cannot hold up a flash, which waits 5 s for the lock.

In `FlashControl` only the flash task is fair, and `FlashEnds` needs nothing of `httpd` or
the button; its exception is a request of the flash that hangs (`SequenceHangs`). In
`FlashSequence` only `tester_present_task` is, which wakes up every 2.5 s; `TpGoesOn` excepts a
flash that stays in a request for good, and needs the flashes to be finitely many, as `MaxFlashes`
makes them: flashes that follow each other at the wrong moments could keep it off.
In `WsSession` the pump and the writers are fair: a send ends within `send_wait_timeout`
(15 s), and the tasks above the pump on its core block; nothing is assumed of httpd, of the
browsers or of the bus, and `PumpReturns` speaks only of a bus that became quiet. In
`TwaiDriver` `twai_task` is fair, as the highest task of its core whose waits are
bounded, and so is the end of a recovery, which needs a bus that is idle at last:
`BusRecovers` fails all the same. `Settings` assumes nothing.

## Findings

Four runs show the code doing other than what a document of the
repository says; `PROJECT.json` quotes each:

- a one-byte positive answer is never heard, so a flash whose ECU answers
  RequestTransferExit without parameters fails at its end (`uds_one_byte`);
- an upload frees the firmware that is being flashed (`flash_shared`), and a press can
  be lost (`flash_press`);
- after bus-off the TWAI driver stays stopped until a reboot (`bus_recovery`).

Seen while modelling, without a run of their own; properties that hold are qualified by
them:

- `isotp_send` can return true for a message it has not sent, when `isotp_task` handles a
  Flow Control while the caller fills `tx_state` (`isotp_layer.c:196`; `SendTrueUnlessRaced`,
  `hist.raced`), and `isotp_task` may look at `wait_fc_start` before it is stored;
- the Flow Control for the answer to a request goes to `rx_id - 8` whatever the request
  said, although the comment at `isotp_layer.c:351` says otherwise (`FcToPeer` allows it);
- Consecutive Frames are taken from any id (`isotp_layer.c:366`; `WholeUnlessForeign`);
- a Flow Control that waited in `q_twai_tx` (`isotp_layer.c:173`) may find that its ECU has given
  up and sent the First Frame of its next message; if that one was dropped, as `q_twai_rx` was
  full, the Consecutive Frames it releases complete the reassembly of the first message
  (`crossed`; `WholeUnlessForeign` exempts it);
- two ticks between the two looks at the clock of `wait_uds_response` (`uds_service.c:45-46`) make
  the wait endless, with the bus lock held, and Response Pending extends it without limit
  (line 54): in either case `s_flash_task` stays set if the request is a flash's, and no flash
  starts until a reboot (`RequestEnds`, `FlashEnds`);
- the comment at `uds_service.c:311-312` says that `tester_present_task` sends nothing
  ("non invia nulla") during the programming session; one that was past its check of the bit
  when the flash set it is still sent (`OneTpPerFlash` allows that one);
- `status_led.h:23-24` says that of two active states the one of higher priority wins
  ("vince quello con priorità più alta"); `led_task` shows the last one set, so that a WiFi event
  during a flash or after a bus-off replaces it on the LED (`LedTells` says what the code does);
- boot erases NVS, with the saved network and bitrate, when it has no free page or another format
  (`main.c:61-64`), and tells nobody (`BootUsesSaved` allows it);
- FC WAIT of different blocks add up (`isotp_layer.c:247`, where line 17 says consecutive ones);
- `flash_start` does not ask for the CRC check (`ws_proto.c:337`, `README.md:84`), and two
  flashes can start on one press when the first ends between the two checks of the second
  (`ws_proto.c:342`; `OnePressOneFlash` exempts it, `hist.raced`);
- after a failed send the slot is cleared but the socket stays open: the browser, which
  reconnects only when its socket closes (`webui/app.js:107`), hears nothing more
  (`last.gone`);
- `EVT_BUS_ERROR` is set and never cleared (`twai_driver.c:76`);
- boot asks for at least WPA2 even if no password is stored (`main.c:185`), where the save asked
  for an open network (`http_server.c:290`): an open network is joined until the next restart;
- an SSID of 32 characters loses its last one (`main.c:188`, `http_server.c:288`), and a longer one
  is stored but boots the default network (`BootUsesSaved` stops at 31);
- without an SSID there is no way to set one: `Kconfig.projbuild:10` speaks of an AP mode
  that the code does not have, and the server starts only on `GOT_IP`.

## Proofs

Every invariant that a passing run checks is also a theorem, and so are the two
properties of steps and the refinement; what is left to TLC is liveness.

`IsoTpRxProofs` proves, for every number of ECUs, ids, message lengths, queue
depths and bounds, that `TypeOK`, `CopyInBounds`, `NoStaleBytes` and `WholeUnlessForeign`
are invariants and that `FcToPeer` holds of every step. The inductive invariant is
`TypeOK`, the shape of an active reassembly (sequence number and bytes received
follow from the number of parts copied, `CoversLength`), `NoStaleBytes` for what
is queued, and `Pairs`: outside the two stores of the ids, `tx_id` and `rx_id` are
those of one ECU. `CopyInBounds` needs the shape because `remaining` is a `uint16_t`
subtraction that stays meaningful only while received < expected; `FcToPeer` needs
`Pairs` because the code compares one of the two ids and answers on the other.
`WholeUnlessForeign` needs a second invariant, `Apart`. For an ECU that no Flow Control released
by mistake (`crossed`): no Consecutive Frame in the queue comes after a First Frame, and after that
of the message the ECU waits with nothing does; the Consecutive Frames go on with the reassembly
(`Lines`); and a Flow Control for that message finds none of its frames queued, and no more than
its First Frame taken (`FcLines`). Then the parts in a reassembly lie at
least as far apart as their places. Sequence numbers alone would not do: they repeat, so that a
message with `SnMod` parts missing fits. It is counting that excludes it: a
message as long as announced has as many parts as there are places.

`IsoTpTxProofs` proves all five invariants of `IsoTpTx`, for any callers, ECUs, payloads,
queues, timeouts and Flow Controls, in four layers, each an invariant with the ones before it:

- `Base`, for `TypeOK`: the caller stores in program order (`Filled`), and `wait_fc_count` and
  `offset`, which the caller resets only after isotp_task may have used them, stay below their
  widths all the same (`Counted`, `Room`). Its clause on the frame `send_cf` is blocked on
  (`BlockedOn`) bounds what that frame, perhaps of a call that has ended, adds to `call.sent`.
- `Own`, for `SendTrueUnlessRaced` and `OwnResult`, until a race: for each place in
  `isotp_send` what `tx_state` holds. `done_sem` must be empty from the drain on, or the
  result of the last call would be taken for this one's; a blocked frame of this call must be
  the one `tx_pump` would make now, as the code goes on with whatever `tx_state` holds.
- `Whole`, for `EcuIntegrity`, until a race or a lost frame: in the queue each Consecutive
  Frame continues the frame before it, the first of them is what its ECU expects, and the end of
  the queue is where `offset` is. It spans every message: an aborted one may leave frames in the queue.
- `Pace`, for `EcuNotOverrun`, until a race, a lost frame or a late Flow Control: the sender's
  `bs - bs_counter` and the ECU's own count of its block name the same byte (`PausesAt`), and
  while the sender waits, a Clear To Send in `q_twai_rx` is the last thing said, by an ECU that
  waits for just that block (`Answers`). It needs message numbers to be new (`Numbered`), and
  only the last Consecutive Frame of the queue to be short (`Train`).

`FlashControlProofs` proves that `TypeOK`, `OneRunner`, `UploadInBlock`,
`FlashesVerifiedImage` and `OnePressOneFlash` are invariants, for any files, any
announced sizes and CRCs and any timeouts. The strengthening says what a verified
image means for the buffer (`Verified`: as long as `hist.verified` names a file
the buffer holds exactly it, and httpd is not replacing it), that a flash started
on it still finds it there (`Undisturbed`), and what the last press still
authorises (`Authorised`: after a start either the flash has not consumed the
arming yet, and then `s_flash_task` refuses another, or g_state is disarmed and
no start is past its armed check).

`UdsServiceProofs` proves all five invariants of `UdsService`, for any clients, ECUs, flashes,
queue depths, timeouts and tick counts. `TypeOK` needs `Budget`: the calls begun and those
still to begin, in the queue, in the hands of `uds_task` and in the rest of a flash, are
never more than were asked for. `OneUserInside` is inductive on top of it. `StatusTrue` and
`TimeoutNotEarly` need `Sound`: until it has wrapped, the deadline is as far ahead as the time
still due to the ECU, also after a Response Pending moved both, and the wait that is about to
begin is at least as long, though the tick may advance between the two looks at the clock. `AnswerOfRequest` needs
`Traffic`: of the final answers to a call one exists at most, with the ECU or in
`q_isotp_rx` (`Ordered`); one that may yet come belongs to a call that is open or ended
without it (`Owing`); and what is in the queue came during the present call (`Fresh`), since
the queue is emptied before each request.

`FlashSequenceProofs` proves `TypeOK`, `LockAndBit`, `OneTpPerFlash` and `OkMeansDone` and
that `FlashSequence` implements `FlashProcedure`, for any images,
block sizes, counters and numbers of flashes and requests. The type invariant carries
the bound on the offset, without which the length of the next block could be
negative. `OneTpPerFlash` needs `OneInFlight`: a Tester Present counted during a flash
is one that was past its check, and once it is sent the bit holds the task at its check.
The refinement rests on `Progress`: what was sent is the beginning of the plan for this job and
block size, its length is determined by the place in the code, and in the loop offset and
block counter are both functions of one number of blocks. Every step then maps to the next request of the plan
or to a stutter; the block size, which the plan depends on, is agreed while only requests
before the blocks have been sent, so that learning it changes none of them.

`WsSessionProofs` proves `TypeOK`, `SlotIsOpen` and `LastBrowserKept` for any number of
sockets, connections and waiting messages. The strengthening says that connections on
different sockets are different (`ConnsDistinct`), so that a socket that was closed and
given out again is never mistaken for its earlier user; what a writer that copied the slot
may still send to (`Copied`); and that the last browser, unless it is excused, is the one in the slot.

`TwaiDriverProofs` proves `TypeOK`, `FramesAccounted` and `LedTells` for queues of any depth.
`FramesAccounted` is nearly inductive: a step moves a border in the one sequence
bus, driver, `tx_frame`, `q_twai_tx`, adds a frame at its end, or drops some from its middle (`Dropped`)
and tells; what it needs is that `tx_frame` is held exactly while the task is about to transmit.
`LedTells` needs that the last command queued is the last one set, and, while `led_flash_error` is
between its stores, that `led_task` either sees the error or has been recorded as racing.

`SettingsProofs` proves `TypeOK`, `LinkWatched` and, as a property of every step,
`BootUsesSaved`, for strings of any length and any event queue. `LinkWatched` needs that the last
event waiting tells the link (`LastTells`) and that a gateway that is off has none waiting;
`BootUsesSaved` needs that a key that is not torn holds what was saved under it, the two
credentials together (`WifiSaved`), that between the two commits they count as torn
(`Saving`), and that an erase keeps all this (`EraseSaved`).

The assumptions are those named in the modules: `RxConstants`, `DistinctIds` (two nodes of
the bus do not send on the same id, as CAN requires), `TxConstants` (`ISOTP_FC_WAIT_MAX` leaves room in a
`uint8_t`), `UdsConstants` (the three NRCs with a meaning of their own differ),
`FlashConstants`, `SequenceConstants`, `NoRawIsNone`, `WsConstants`, `LedConstants`, `TwaiConstants`
and `SettingsConstants`, all evaluated by TLC on its instances. Liveness under fairness
and ENABLED are outside the prover's reach, as is induction over data; `ReassemblyEnds`,
`SendReturns`, `RequestEnds`, `TpGoesOn`, `PumpReturns` and `FlashEnds` are model-checked only.

## Not modelled

JSON text, hexadecimal and base64 coding (a chunk is the cells it writes), logging, LED
colours, animation and traffic blink, static pages, `/api/status` and `/api/scan`, the keys
`tx_id`, `rx_id` and `dev_name` (only `GET /api/config` reads them), the
seed-to-key placeholder, the web UI and the Python tools: I/O or stateless code. The
creation of queues and tasks in `app_main` is the initial states. The wrap of the
FreeRTOS tick is modelled in `UdsService` only. A restart is modelled in `Settings`, the
only part whose state outlives one; the others begin again from `Init`.

## Plan

In order of importance; all are modelled and checked.

1. `IsoTpRx` - reassembly and Flow Control. Proved: all its invariants and `FcToPeer`.
2. `IsoTpTx` - the transmit state machine against its callers. Proved: all its
   invariants.
3. `FlashControl` - upload, start and arming. Proved: all its invariants.
4. `UdsService` - requests, answers and deadlines. Proved: all its invariants.
5. `FlashProcedure`, `FlashSequence` - the flash. Proved: all its invariants,
   and that `FlashSequence` implements `FlashProcedure`.
6. `WsSession` - the client slot, a replaced client, sends from three tasks. Proved: its invariants.
7. `StatusLed`, `TwaiDriver` - bus-off and recovery, and the LED. Proved: their invariants.
8. `Settings` - saves, boot and the WiFi link. Proved: its invariants and `BootUsesSaved`.
