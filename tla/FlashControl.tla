---------------------------- MODULE FlashControl ----------------------------
(***************************************************************************)
(* How a flash is prepared, authorised and started: the firmware upload and *)
(* flash_start handlers of main/ws_proto.c, the task they create, and the   *)
(* arm button of main/arm_button.c.                                         *)
(*                                                                          *)
(* Three tasks share memory without a lock. httpd handles one message at a  *)
(* time (WebSocket or /api/status); flash_runner_task, on the other core,   *)
(* reads the buffer httpd fills; arm_button_task samples the button. A      *)
(* handler is one action, except where another task reads or writes in      *)
(* between. Stores are taken in program order. Of uds_flash_sequence only   *)
(* what touches this state is here: its checks, and its reads of the        *)
(* firmware, after any of which it may fail.                                *)
(***************************************************************************)
EXTENDS Integers, Sequences

CONSTANTS
  Images,      \* firmware files a client may upload
  Size,        \* the length of each, in cells of one flash block
  Announced,   \* <<file, CRC>> of the flash_upload_begin messages: the size is the file's
  Junk,        \* content of a cell nobody wrote
  NoImage,     \* no file; no CRC given
  Runners,     \* the tasks xTaskCreate can have made
  NoTask,      \* s_flash_task is NULL
  ArmTimeout,  \* ARM_TIMEOUT_MS, in ticks
  LongPress    \* LONG_PRESS_MS, in ticks

ASSUME FlashConstants ==
  /\ Size \in [Images -> Nat \ {0}]
  /\ Junk \notin Images /\ NoImage \notin Images \cup {Junk}
  /\ Announced \subseteq Images \X (Images \cup {NoImage})
  /\ NoTask \notin Runners
  /\ ArmTimeout \in Nat /\ LongPress \in Nat

VARIABLES
  fw,            \* fw_buffer and the statics beside it; cells is its block
  httpd,         \* the handler the httpd task is in, and its message
  runner,        \* the flash_runner_tasks: p, how far the transfer is; history: image
                 \* (verified when it started and untouched since) and wrong (a
                 \* cell was read that is not of that image)
  s_flash_task,
  arm,           \* g_state, and the age of g_armed_at
  button,        \* the pin (TRUE: released), arm_button_task, the age of press_start
  hist           \* history: verified (the image upload_end accepted against its CRC,
                 \* not touched since), of the last press: flashes (starts it
                 \* authorised), held (it armed again after one), raced (it was
                 \* consumed between the armed check of a start and its next check)

vars == <<fw, httpd, runner, s_flash_task, arm, button, hist>>

-----------------------------------------------------------------------------
(* Data *)

Content == Images \cup {Junk}
MaxAge  == (IF ArmTimeout > LongPress THEN ArmTimeout ELSE LongPress) + 1

Contents(i) == [k \in 1..Size[i] |-> i]
Crc(cells) == IF \E i \in Images : cells = Contents(i)
              THEN CHOOSE i \in Images : cells = Contents(i) ELSE Junk

HttpdIdle == [pc |-> "idle", image |-> NoImage, crc |-> NoImage, status |-> FALSE]

\* A parameter of uds_flash_params_t not copied yet; a firmware pointer is NULL, to
\* the live block or to a freed one.
Unread == -1
FlashTask(pc, image) ==
  [pc |-> pc, memory_size |-> Unread, firmware |-> "unread", firmware_len |-> Unread,
   offset |-> 0, image |-> image, wrong |-> FALSE]
NoRunner == FlashTask("none", NoImage)

Running(r) == runner[r].pc # "none"
FreeRunner == CHOOSE r \in Runners : ~Running(r)

\* The block goes back to the heap: whoever holds a pointer to it holds a stale one.
FreeBlock ==
  runner' = [r \in Runners |->
              [runner[r] EXCEPT !.firmware = IF @ = "live" THEN "freed" ELSE @, !.image = NoImage]]

-----------------------------------------------------------------------------
(* httpd: the upload handlers *)

\* handle_flash_upload_begin up to the malloc. Another message may be malformed (no
\* size, no offset): it is refused and changes nothing.
UploadBegin(i, crc) ==
  /\ httpd.pc = "idle"
  /\ fw' = [fw EXCEPT !.buffer = FALSE, !.cells = <<>>]
  /\ httpd' = [HttpdIdle EXCEPT !.pc = "alloc", !.image = i, !.crc = crc]
  /\ hist' = [hist EXCEPT !.verified = NoImage]
  /\ FreeBlock
  /\ UNCHANGED <<s_flash_task, arm, button>>

UploadAlloc ==
  /\ httpd.pc = "alloc"
  /\ \/ /\ fw' = [fw EXCEPT !.buffer = TRUE, !.cells = [k \in 1..Size[httpd.image] |-> Junk]]
        /\ httpd' = [httpd EXCEPT !.pc = "set"]
     \/ httpd' = HttpdIdle /\ UNCHANGED fw
  /\ UNCHANGED <<runner, s_flash_task, arm, button, hist>>

UploadSetMutant ==     \* mutant: fw_received is not reset
  /\ httpd.pc = "set"
  /\ fw' = [fw EXCEPT !.capacity = Size[httpd.image], !.crc = httpd.crc]
  /\ httpd' = HttpdIdle
  /\ UNCHANGED <<runner, s_flash_task, arm, button, hist>>
UploadSet ==
  /\ httpd.pc = "set"
  /\ fw' = [fw EXCEPT !.capacity = Size[httpd.image], !.received = 0, !.crc = httpd.crc]
  /\ httpd' = HttpdIdle
  /\ UNCHANGED <<runner, s_flash_task, arm, button, hist>>

\* b64_decode stores what fits and fails when there is more.
Decoded(i, off, n) ==
  [k \in 1..Len(fw.cells) |-> IF k > off /\ k <= off + n THEN i ELSE fw.cells[k]]

ReceivedAfterMutant(off, n) == fw.received + n   \* mutant: chunks are summed up
ReceivedAfter(off, n) == IF n > fw.capacity - off THEN fw.received ELSE off + n

\* Cells off + 1 .. off + n of a file.
UploadChunk(i, off, n) ==
  /\ httpd.pc = "idle"
  /\ fw.buffer /\ off < fw.capacity
  /\ fw' = [fw EXCEPT !.cells = Decoded(i, off, n),
                      !.received = ReceivedAfter(off, n)]
  /\ hist' = [hist EXCEPT !.verified = NoImage]
  /\ runner' = [r \in Runners |-> [runner[r] EXCEPT !.image = NoImage]]
  /\ UNCHANGED <<httpd, s_flash_task, arm, button>>

\* handle_flash_upload_end accepts; a refusal changes nothing.
UploadEndMutant ==     \* mutant: a partial upload is accepted
  /\ httpd.pc = "idle"
  /\ fw.buffer
  /\ fw.crc # NoImage
  /\ hist' = [hist EXCEPT !.verified = fw.crc]
  /\ UNCHANGED <<fw, httpd, runner, s_flash_task, arm, button>>
UploadEnd ==
  /\ httpd.pc = "idle"
  /\ fw.buffer /\ fw.received = fw.capacity
  /\ fw.crc # NoImage => Crc(fw.cells) = fw.crc
  /\ hist' = [hist EXCEPT !.verified = fw.crc]
  /\ UNCHANGED <<fw, httpd, runner, s_flash_task, arm, button>>

-----------------------------------------------------------------------------
(* httpd: flash_start, /api/status and the arm_button_is_armed both call *)

\* The handler goes on to the first read of g_state.
IsArmedCall(status) ==
  /\ httpd.pc = "idle"
  /\ status \/ (fw.buffer /\ fw.received # 0)
  /\ arm.g_state # "DISARMED"
  /\ httpd' = [HttpdIdle EXCEPT !.pc = "timed", !.status = status]
  /\ UNCHANGED <<fw, runner, s_flash_task, arm, button, hist>>

Expired == arm.g_state = "TIMED" /\ arm.armed_at > ArmTimeout

\* The second read of g_state, and of g_armed_at.
IsArmedTimed ==
  /\ httpd.pc = "timed"
  /\ httpd' = IF Expired THEN [httpd EXCEPT !.pc = "disarm"]
              ELSE IF httpd.status THEN HttpdIdle ELSE [httpd EXCEPT !.pc = "task"]
  /\ UNCHANGED <<fw, runner, s_flash_task, arm, button, hist>>

IsArmedDisarm ==
  /\ httpd.pc = "disarm"
  /\ arm' = [arm EXCEPT !.g_state = "DISARMED"]
  /\ httpd' = HttpdIdle
  /\ UNCHANGED <<fw, runner, s_flash_task, button, hist>>

\* The rest of handle_flash_start. xTaskCreate stores the handle before the task can
\* run; when it fails s_flash_task stays NULL, though "flash started" was sent.
StartTaskMutant ==     \* mutant: a start during a flash is not refused
  /\ httpd.pc = "task"
  /\ \E r \in Runners : ~Running(r)
  /\ s_flash_task' = FreeRunner
  /\ runner' = [runner EXCEPT ![FreeRunner] = FlashTask("params", hist.verified)]
  /\ hist' = [hist EXCEPT !.flashes = IF @ < 2 THEN @ + 1 ELSE @]
  /\ httpd' = HttpdIdle
  /\ UNCHANGED <<fw, arm, button>>
StartTask ==
  /\ httpd.pc = "task"
  /\ \/ /\ s_flash_task = NoTask
        /\ \E r \in Runners : ~Running(r)
        /\ s_flash_task' = FreeRunner
        /\ runner' = [runner EXCEPT ![FreeRunner] = FlashTask("params", hist.verified)]
        /\ hist' = [hist EXCEPT !.flashes = IF @ < 2 THEN @ + 1 ELSE @]
     \/ UNCHANGED <<s_flash_task, runner, hist>>     \* in progress, or no memory
  /\ httpd' = HttpdIdle
  /\ UNCHANGED <<fw, arm, button>>

-----------------------------------------------------------------------------
(* flash_runner_task *)

RunnerStep(r) ==
  /\ Running(r)
  /\ UNCHANGED <<fw, httpd, button>>

\* The initializer of p reads fw_received twice and fw_buffer once, in any order.
LoadParam(r) ==
  /\ RunnerStep(r) /\ runner[r].pc = "params"
  /\ \/ /\ runner[r].memory_size = Unread
        /\ runner' = [runner EXCEPT ![r].memory_size = fw.received]
     \/ /\ runner[r].firmware = "unread"
        /\ runner' = [runner EXCEPT ![r].firmware = IF fw.buffer THEN "live" ELSE "NULL"]
     \/ /\ runner[r].firmware_len = Unread
        /\ runner' = [runner EXCEPT ![r].firmware_len = fw.received]
  /\ UNCHANGED <<s_flash_task, arm, hist>>

Loaded(p) == p.memory_size # Unread /\ p.firmware # "unread" /\ p.firmware_len # Unread

ParamsOK(p) == p.firmware # "NULL" /\ p.firmware_len # 0 /\ p.firmware_len = p.memory_size

\* uds_flash_sequence returns, and with it the life of p ends.
Returned == FlashTask("consume", NoImage)

\* uds_flash_sequence checks p, and returns at once or goes on.
CheckParams(r) ==
  /\ RunnerStep(r) /\ runner[r].pc = "params" /\ Loaded(runner[r])
  /\ runner' = [runner EXCEPT ![r] = IF ParamsOK(@) THEN [@ EXCEPT !.pc = "sequence"]
                                     ELSE Returned]
  /\ UNCHANGED <<s_flash_task, arm, hist>>

CellRead(p, c) ==
  [p EXCEPT !.offset = @ + 1, !.wrong = IF p.image \in {NoImage, c} THEN @ ELSE TRUE]

\* One uds_transfer_data reads &p->firmware[offset]; out of a freed or shorter block
\* it gets anything.
Transfer(r) ==
  /\ RunnerStep(r) /\ runner[r].pc = "sequence" /\ runner[r].offset < runner[r].firmware_len
  /\ \E c \in Content :
       /\ runner[r].firmware = "live" /\ runner[r].offset < Len(fw.cells)
            => c = fw.cells[runner[r].offset + 1]
       /\ runner' = [runner EXCEPT ![r] = CellRead(@, c)]
  /\ UNCHANGED <<s_flash_task, arm, hist>>

\* All is transferred, or any step of the sequence failed.
SequenceReturns(r) ==
  /\ RunnerStep(r) /\ runner[r].pc = "sequence"
  /\ runner' = [runner EXCEPT ![r] = Returned]
  /\ UNCHANGED <<s_flash_task, arm, hist>>

\* A request of the sequence waits for ever: its ECU announces Response Pending again and
\* again, or wait_uds_response got an unlimited wait (Forever in UdsService).
SequenceHangs(r) ==
  /\ RunnerStep(r) /\ runner[r].pc = "sequence"
  /\ runner' = [runner EXCEPT ![r].pc = "hung"]
  /\ UNCHANGED <<s_flash_task, arm, hist>>

\* arm_button_consume.
ConsumeMutant(r) ==    \* mutant: the arming survives the flash
  /\ RunnerStep(r) /\ runner[r].pc = "consume"
  /\ runner' = [runner EXCEPT ![r].pc = "report"]
  /\ UNCHANGED <<s_flash_task, arm, hist>>
Consume(r) ==
  /\ RunnerStep(r) /\ runner[r].pc = "consume"
  /\ arm' = [arm EXCEPT !.g_state = "DISARMED"]
  /\ runner' = [runner EXCEPT ![r].pc = "report"]
  /\ hist' = [hist EXCEPT !.raced = @ \/ (httpd.pc \in {"timed", "task"} /\ ~httpd.status)]
  /\ UNCHANGED s_flash_task

\* flash_result is sent, s_flash_task cleared and the task deleted.
ReportMutant(r) ==     \* mutant: the handle is kept
  /\ RunnerStep(r) /\ runner[r].pc = "report"
  /\ runner' = [runner EXCEPT ![r] = NoRunner]
  /\ UNCHANGED <<s_flash_task, arm, hist>>
Report(r) ==
  /\ RunnerStep(r) /\ runner[r].pc = "report"
  /\ s_flash_task' = NoTask
  /\ runner' = [runner EXCEPT ![r] = NoRunner]
  /\ UNCHANGED <<arm, hist>>

FlashRunner(r) ==
  \/ LoadParam(r) \/ CheckParams(r) \/ Transfer(r) \/ SequenceReturns(r) \/ SequenceHangs(r)
  \/ Consume(r) \/ Report(r)

-----------------------------------------------------------------------------
(* arm_button_task, the button and time *)

Poll == button.pc = "poll" /\ UNCHANGED <<fw, httpd, runner, s_flash_task>>

\* The button stays down: g_state becomes ARM_EXTENDED.
Extend ==
  /\ Poll
  /\ ~button.level /\ ~button.last_level /\ button.tracked
  /\ button.press_start > LongPress /\ arm.g_state # "EXTENDED"
  /\ arm' = [arm EXCEPT !.g_state = "EXTENDED"]
  /\ hist' = [hist EXCEPT !.held = @ \/ (hist.flashes > 0 /\ arm.g_state = "DISARMED")]
  /\ UNCHANGED button

\* The button went down: g_state is stored, then g_armed_at.
Press ==
  /\ Poll
  /\ ~button.level /\ button.last_level
  /\ button' = [button EXCEPT !.last_level = FALSE, !.press_start = 0, !.tracked = TRUE,
                              !.pc = "armed_at"]
  /\ arm' = [arm EXCEPT !.g_state = "TIMED"]
  /\ hist' = [hist EXCEPT !.flashes = 0, !.held = FALSE, !.raced = FALSE]

StoreArmedAt ==
  /\ button.pc = "armed_at"
  /\ arm' = [arm EXCEPT !.armed_at = button.press_start]
  /\ button' = [button EXCEPT !.pc = "poll"]
  /\ UNCHANGED <<fw, httpd, runner, s_flash_task, hist>>

Release ==
  /\ Poll
  /\ button.level /\ ~button.last_level
  /\ button' = [button EXCEPT !.last_level = TRUE, !.tracked = FALSE]
  /\ UNCHANGED <<arm, hist>>

\* Somebody presses the button or lets go of it.
Finger ==
  /\ button' = [button EXCEPT !.level = ~@]
  /\ UNCHANGED <<fw, httpd, runner, s_flash_task, arm, hist>>

Older(age) == IF age < MaxAge THEN age + 1 ELSE age

Tick ==
  /\ arm' = [arm EXCEPT !.armed_at = Older(@)]
  /\ button' = [button EXCEPT !.press_start = Older(@)]
  /\ UNCHANGED <<fw, httpd, runner, s_flash_task, hist>>

-----------------------------------------------------------------------------

\* Booted long ago: the zero of g_armed_at and press_start is past both limits.
Init ==
  /\ fw = [buffer |-> FALSE, cells |-> <<>>, capacity |-> 0, received |-> 0, crc |-> NoImage]
  /\ httpd = HttpdIdle
  /\ runner = [r \in Runners |-> NoRunner]
  /\ s_flash_task = NoTask
  /\ arm = [g_state |-> "DISARMED", armed_at |-> MaxAge]
  /\ button = [level |-> TRUE, last_level |-> TRUE, press_start |-> MaxAge, tracked |-> FALSE,
               pc |-> "poll"]
  /\ hist = [verified |-> NoImage, flashes |-> 0, held |-> FALSE, raced |-> FALSE]

\* The chunks may be of another file than the one announced, overlap, or be empty.
Upload ==
  \/ \E a \in Announced : UploadBegin(a[1], a[2])
  \/ \E i \in Images : \E off \in 0..(Size[i] - 1) : \E n \in 0..(Size[i] - off) :
       UploadChunk(i, off, n)

Httpd ==
  \/ Upload \/ UploadAlloc \/ UploadSet \/ UploadEnd
  \/ \E status \in BOOLEAN : IsArmedCall(status)
  \/ IsArmedTimed \/ IsArmedDisarm \/ StartTask

ArmTask == Extend \/ Press \/ StoreArmedAt \/ Release

Next == Httpd \/ (\E r \in Runners : FlashRunner(r)) \/ ArmTask \/ Finger \/ Tick

\* The runner is a ready task of a high priority; its steps end, or it has hung.
Fairness == \A r \in Runners : WF_vars(FlashRunner(r))

Spec == Init /\ [][Next]_vars /\ Fairness

-----------------------------------------------------------------------------
(* Properties *)

\* Numbers of cells that some file has, or more.
Lengths == {0} \cup UNION {0..Size[i] : i \in Images}

FwType ==
  fw \in [buffer : BOOLEAN, cells : Seq(Content), capacity : Lengths, received : Lengths,
          crc : Images \cup {NoImage}]
HttpdType ==
  httpd \in [pc : {"idle", "alloc", "set", "timed", "disarm", "task"},
             image : Images \cup {NoImage}, crc : Images \cup {NoImage}, status : BOOLEAN]
RunnerType ==
  runner \in [Runners ->
    [pc : {"none", "params", "sequence", "hung", "consume", "report"},
     memory_size : {Unread} \cup Lengths, firmware_len : {Unread} \cup Lengths,
     firmware : {"unread", "NULL", "live", "freed"}, offset : Lengths,
     image : Images \cup {NoImage}, wrong : BOOLEAN]]
ArmType == arm \in [g_state : {"DISARMED", "TIMED", "EXTENDED"}, armed_at : 0..MaxAge]
ButtonType ==
  button \in [level : BOOLEAN, last_level : BOOLEAN, press_start : 0..MaxAge,
              tracked : BOOLEAN, pc : {"poll", "armed_at"}]
HistType ==
  hist \in [verified : Images \cup {NoImage}, flashes : 0..2, held : BOOLEAN, raced : BOOLEAN]

\* The types of the state; no upload makes fw_received exceed every file.
TypeOK ==
  /\ FwType /\ HttpdType /\ RunnerType
  /\ s_flash_task \in Runners \cup {NoTask}
  /\ ArmType /\ ButtonType /\ HistType

\* Only one flash at a time: every task that runs is the one s_flash_task names, so
\* a task's clearing of s_flash_task never hides another one.
OneRunner == \A r \in Runners : Running(r) <=> s_flash_task = r

\* Outside the handler that replaces the buffer, the bounds later chunks are checked
\* against are those of the block they are written to, whatever allocation failed and
\* whatever was received before.
UploadInBlock ==
  fw.buffer /\ httpd.pc # "set" => Len(fw.cells) = fw.capacity /\ fw.received <= fw.capacity

\* A flash started on a file that upload_end accepted against its CRC takes that file,
\* all of it and nothing else, as long as no upload message comes in between: through
\* refused, repeated, overlapping and oversized chunks and aborted uploads before it.
FlashesVerifiedImage ==
  \A r \in Runners : LET p == runner[r] IN
    p.image # NoImage =>
      /\ Loaded(p) => p.firmware = "live" /\ p.firmware_len = p.memory_size
                      /\ p.firmware_len = Size[p.image]
      /\ ~p.wrong

\* One press authorises one flash: a second start needs a second press - unless the
\* button was held down past the first flash, or the first flash consumed the arming
\* in the middle of the checks of the second start.
OnePressOneFlash == hist.flashes > 1 => hist.held \/ hist.raced

\* Every flash that is started ends with s_flash_task cleared, so that another one can
\* be started: with bad parameters, after a failure, and whatever httpd does meanwhile -
\* unless a request of it waits for ever; then no flash starts until a reboot.
FlashEnds ==
  s_flash_task # NoTask ~> s_flash_task = NoTask \/ \E r \in Runners : runner[r].pc = "hung"

\* What main.c:12 says, "Nessun accesso condiviso diretto a buffer". The firmware is
\* shared, and flash_upload_begin frees it without looking at s_flash_task.
FirmwareNotShared ==
  \A r \in Runners : runner[r].pc = "sequence" => runner[r].firmware # "freed"

\* What README.md:189 says, "arm per 30 secondi": until then only a flash disarms.
\* A press between the steps of arm_button_is_armed is disarmed at once.
PressArms ==
  [][arm.g_state # "DISARMED" /\ arm'.g_state = "DISARMED"
       => button.press_start > ArmTimeout
          \/ \E r \in Runners : runner[r].pc = "consume" /\ runner'[r].pc = "report"]_vars

=============================================================================
