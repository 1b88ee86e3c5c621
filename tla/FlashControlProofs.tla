------------------------- MODULE FlashControlProofs -------------------------
(***************************************************************************)
(* Theorems about FlashControl, for every value of its constants: TypeOK,  *)
(* OneRunner, UploadInBlock, FlashesVerifiedImage and OnePressOneFlash.     *)
(*                                                                         *)
(* They follow from one inductive invariant. Beside TypeOK, OneRunner and  *)
(* UploadInBlock it says what is in the buffer while an image counts as     *)
(* verified (Verified, Undisturbed), what httpd has done to the buffer it is *)
(* replacing (Uploading), and what the last press still authorises          *)
(* (Authorised).                                                           *)
(***************************************************************************)
EXTENDS FlashControl, TLAPS

\* The buffer holds file i, all of it, and httpd is not replacing it.
Holds(i) ==
  /\ httpd.pc \notin {"alloc", "set"}
  /\ fw.buffer /\ fw.cells = Contents(i)
  /\ fw.received = Size[i] /\ fw.capacity = Size[i]

\* What upload_end has accepted against its CRC is in the buffer.
Verified == hist.verified # NoImage => Holds(hist.verified)

\* What a flash that started on a verified image has copied and read.
GoesWell(p) ==
  /\ p.pc \in {"params", "sequence", "hung"}
  /\ p.memory_size \in {Unread, Size[p.image]}
  /\ p.firmware_len \in {Unread, Size[p.image]}
  /\ p.firmware \in {"unread", "live"}
  /\ p.pc \in {"sequence", "hung"} => Loaded(p)
  /\ ~p.wrong

Undisturbed ==
  \A r \in Runners : runner[r].image # NoImage => Holds(runner[r].image) /\ GoesWell(runner[r])

\* flash_upload_begin between its steps.
Uploading ==
  /\ httpd.pc = "alloc" => httpd.image \in Images /\ ~fw.buffer
  /\ httpd.pc = "set" => httpd.image \in Images /\ Len(fw.cells) = Size[httpd.image]

\* A start past its armed check.
Starting == httpd.pc \in {"timed", "task"} /\ ~httpd.status

\* A flash has not consumed the arming yet.
Flashing == \E r \in Runners : runner[r].pc \in {"params", "sequence", "hung", "consume"}

\* After the one start a press authorises, either its flash has not consumed the
\* arming yet, or nothing is left of it.
Authorised ==
  /\ httpd.pc = "task" => ~httpd.status
  /\ hist.flashes > 0 /\ ~hist.held /\ ~hist.raced =>
       /\ hist.flashes = 1
       /\ Flashing \/ (arm.g_state = "DISARMED" /\ ~Starting)

Inv ==
  /\ TypeOK /\ OneRunner /\ UploadInBlock
  /\ Verified /\ Undisturbed /\ Uploading /\ Authorised

-----------------------------------------------------------------------------
(* Lemmas about the data *)

\* Numbers of cells.
LEMMA LengthFacts ==
  /\ Lengths \subseteq Nat
  /\ 0 \in Lengths
  /\ \A i \in Images : Size[i] \in Lengths /\ Size[i] \in Nat /\ Size[i] > 0
  /\ \A n \in Lengths : \A k \in 0..n : k \in Lengths
<1>1. \A i \in Images : Size[i] \in Nat /\ Size[i] > 0
  BY FlashConstants
<1>2. \A i \in Images : 0..Size[i] \subseteq Lengths
  BY DEF Lengths
<1>3. \A n \in Lengths : n = 0 \/ \E i \in Images : n \in 0..Size[i]
  BY DEF Lengths
<1>4. Lengths \subseteq Nat
  BY <1>1, <1>3
<1>5. \A n \in Lengths : \A k \in 0..n : k \in Lengths
  <2> SUFFICES ASSUME NEW n \in Lengths, NEW k \in 0..n  PROVE k \in Lengths
    OBVIOUS
  <2>1. CASE n = 0
    BY <2>1 DEF Lengths
  <2>2. CASE \E i \in Images : n \in 0..Size[i]
    BY <2>2, <1>1, <1>2
  <2> QED BY <2>1, <2>2, <1>3
<1> QED BY <1>1, <1>2, <1>4, <1>5 DEF Lengths

\* A CRC that is a file's is that of a block with its contents.
LEMMA CrcIsContent ==
  ASSUME NEW cells, NEW i \in Images, Crc(cells) = i
  PROVE  cells = Contents(i)
<1>1. Junk # i
  BY FlashConstants
<1>2. \E j \in Images : cells = Contents(j)
  BY <1>1 DEF Crc
<1> QED BY <1>2 DEF Crc

\* A file's content is a block of its size.
LEMMA ContentsFacts ==
  ASSUME NEW i \in Images
  PROVE  /\ Contents(i) \in Seq(Content)
         /\ Len(Contents(i)) = Size[i]
         /\ \A k \in 1..Size[i] : Contents(i)[k] = i
<1>1. Size[i] \in Nat
  BY LengthFacts
<1>2. i \in Content
  BY DEF Content
<1> QED BY <1>1, <1>2 DEF Contents

\* A free task is picked when there is one.
LEMMA FreeIsFree ==
  ASSUME \E r \in Runners : ~Running(r)
  PROVE  FreeRunner \in Runners /\ ~Running(FreeRunner)
BY DEF FreeRunner

-----------------------------------------------------------------------------
(* Types *)

RunnerRecord ==
  [pc : {"none", "params", "sequence", "hung", "consume", "report"},
   memory_size : {Unread} \cup Lengths, firmware_len : {Unread} \cup Lengths,
   firmware : {"unread", "NULL", "live", "freed"}, offset : Lengths,
   image : Images \cup {NoImage}, wrong : BOOLEAN]

\* Reading a cell changes the offset and perhaps wrong.
LEMMA CellReadType ==
  ASSUME NEW p \in RunnerRecord, p.offset + 1 \in Lengths, NEW c
  PROVE  CellRead(p, c) \in RunnerRecord
<1>1. CASE p.image \in {NoImage, c}
  <2>1. CellRead(p, c) = [p EXCEPT !.offset = p.offset + 1, !.wrong = p.wrong]
    BY <1>1 DEF CellRead
  <2> QED BY <2>1 DEF RunnerRecord
<1>2. CASE p.image \notin {NoImage, c}
  <2>1. CellRead(p, c) = [p EXCEPT !.offset = p.offset + 1, !.wrong = TRUE]
    BY <1>2 DEF CellRead
  <2> QED BY <2>1 DEF RunnerRecord
<1> QED BY <1>1, <1>2

\* No step leaves the types.
LEMMA TypeStep ==
  ASSUME TypeOK, OneRunner, UploadInBlock, Uploading, [Next]_vars
  PROVE  TypeOK'
<1>1. ASSUME NEW a \in Announced, UploadBegin(a[1], a[2])  PROVE TypeOK'
  <2>0. a[1] \in Images /\ a[2] \in Images \cup {NoImage}
    BY FlashConstants
  <2>1. FwType'
    <3>1. fw' = [buffer |-> FALSE, cells |-> <<>>, capacity |-> fw.capacity,
                 received |-> fw.received, crc |-> fw.crc]
      BY <1>1 DEF TypeOK, FwType, UploadBegin
    <3>2. <<>> \in Seq(Content)
      OBVIOUS
    <3> QED BY <3>1, <3>2 DEF TypeOK, FwType
  <2>2. HttpdType'
    BY <1>1, <2>0 DEF TypeOK, HttpdType, UploadBegin, HttpdIdle
  <2>3. RunnerType'
    BY <1>1 DEF TypeOK, RunnerType, UploadBegin, FreeBlock
  <2>4. HistType'
    BY <1>1 DEF TypeOK, HistType, UploadBegin
  <2>5. UNCHANGED <<s_flash_task, arm, button>>
    BY <1>1 DEF UploadBegin
  <2> QED BY <2>1, <2>2, <2>3, <2>4, <2>5 DEF TypeOK, ArmType, ButtonType
<1>2. CASE UploadAlloc
  <2>0. /\ httpd.image \in Images
        /\ [k \in 1..Size[httpd.image] |-> Junk] \in Seq(Content)
    BY <1>2, LengthFacts DEF Uploading, UploadAlloc, Content
  <2>1. FwType'
    BY <1>2, <2>0 DEF TypeOK, FwType, UploadAlloc
  <2>2. HttpdType'
    <3>1. CASE httpd' = HttpdIdle
      BY <3>1 DEF TypeOK, HttpdType, HttpdIdle
    <3>2. CASE httpd' = [httpd EXCEPT !.pc = "set"]
      BY <3>2 DEF TypeOK, HttpdType
    <3> QED BY <1>2, <3>1, <3>2 DEF UploadAlloc
  <2>3. UNCHANGED <<runner, s_flash_task, arm, button, hist>>
    BY <1>2 DEF UploadAlloc
  <2> QED BY <2>1, <2>2, <2>3 DEF TypeOK, RunnerType, ArmType, ButtonType, HistType
<1>3. CASE UploadSet
  <2>1. FwType'
    BY <1>3, LengthFacts DEF TypeOK, FwType, UploadSet, HttpdType, Uploading
  <2>2. HttpdType'
    BY <1>3 DEF TypeOK, HttpdType, UploadSet, HttpdIdle
  <2>3. UNCHANGED <<runner, s_flash_task, arm, button, hist>>
    BY <1>3 DEF UploadSet
  <2> QED BY <2>1, <2>2, <2>3 DEF TypeOK, RunnerType, ArmType, ButtonType, HistType
<1>4. ASSUME NEW i \in Images, NEW off \in 0..(Size[i] - 1), NEW n \in 0..(Size[i] - off),
             UploadChunk(i, off, n)
      PROVE TypeOK'
  <2>01. Size[i] \in Nat /\ off \in Nat /\ n \in Nat
    BY LengthFacts
  <2>02. Decoded(i, off, n) \in Seq(Content)
    <3>1. fw.cells \in Seq(Content) /\ i \in Content
      BY DEF TypeOK, FwType, Content
    <3> QED BY <3>1, <2>01 DEF Decoded
  <2>03. fw.capacity \in Lengths /\ fw.received \in Lengths /\ fw.capacity \in Nat
    BY LengthFacts DEF TypeOK, FwType
  <2>04. ReceivedAfter(off, n) \in Lengths
    <3>1. CASE n > fw.capacity - off
      BY <3>1, <2>03 DEF ReceivedAfter
    <3>2. CASE ~(n > fw.capacity - off)
      <4>1. off + n \in 0..fw.capacity
        BY <3>2, <2>01, <2>03
      <4> QED BY <3>2, <4>1, <2>03, LengthFacts DEF ReceivedAfter
    <3> QED BY <3>1, <3>2
  <2>1. FwType'
    BY <1>4, <2>02, <2>04 DEF TypeOK, FwType, UploadChunk
  <2>2. RunnerType'
    BY <1>4 DEF TypeOK, RunnerType, UploadChunk
  <2>3. HistType'
    BY <1>4 DEF TypeOK, HistType, UploadChunk
  <2>4. UNCHANGED <<httpd, s_flash_task, arm, button>>
    BY <1>4 DEF UploadChunk
  <2> QED BY <2>1, <2>2, <2>3, <2>4 DEF TypeOK, HttpdType, ArmType, ButtonType
<1>5. CASE UploadEnd
  <2>1. HistType'
    BY <1>5 DEF TypeOK, HistType, UploadEnd, FwType
  <2>2. UNCHANGED <<fw, httpd, runner, s_flash_task, arm, button>>
    BY <1>5 DEF UploadEnd
  <2> QED BY <2>1, <2>2 DEF TypeOK, FwType, HttpdType, RunnerType, ArmType, ButtonType
<1>6. ASSUME NEW status \in BOOLEAN, IsArmedCall(status)  PROVE TypeOK'
  <2>1. HttpdType'
    BY <1>6 DEF TypeOK, HttpdType, IsArmedCall, HttpdIdle
  <2>2. UNCHANGED <<fw, runner, s_flash_task, arm, button, hist>>
    BY <1>6 DEF IsArmedCall
  <2> QED BY <2>1, <2>2 DEF TypeOK, FwType, RunnerType, ArmType, ButtonType, HistType
<1>7. CASE IsArmedTimed
  <2>1. HttpdType'
    BY <1>7 DEF TypeOK, HttpdType, IsArmedTimed, HttpdIdle
  <2>2. UNCHANGED <<fw, runner, s_flash_task, arm, button, hist>>
    BY <1>7 DEF IsArmedTimed
  <2> QED BY <2>1, <2>2 DEF TypeOK, FwType, RunnerType, ArmType, ButtonType, HistType
<1>8. CASE IsArmedDisarm
  <2>1. HttpdType'
    BY <1>8 DEF TypeOK, HttpdType, IsArmedDisarm, HttpdIdle
  <2>2. ArmType'
    BY <1>8 DEF TypeOK, ArmType, IsArmedDisarm
  <2>3. UNCHANGED <<fw, runner, s_flash_task, button, hist>>
    BY <1>8 DEF IsArmedDisarm
  <2> QED BY <2>1, <2>2, <2>3 DEF TypeOK, FwType, RunnerType, ButtonType, HistType
<1>9. CASE StartTask
  <2>0. (\E r \in Runners : ~Running(r)) => FreeRunner \in Runners
    BY FreeIsFree
  <2>1. HttpdType'
    BY <1>9 DEF TypeOK, HttpdType, StartTask, HttpdIdle
  <2>2. RunnerType'
    <3>1. CASE UNCHANGED runner
      BY <3>1 DEF TypeOK, RunnerType
    <3>2. CASE /\ \E r \in Runners : ~Running(r)
               /\ runner' = [runner EXCEPT ![FreeRunner] = FlashTask("params", hist.verified)]
      BY <2>0, <3>2, LengthFacts DEF TypeOK, RunnerType, HistType, FlashTask
    <3> QED BY <1>9, <3>1, <3>2 DEF StartTask
  <2>3. s_flash_task' \in Runners \cup {NoTask}
    BY <1>9, <2>0 DEF TypeOK, StartTask
  <2>4. HistType'
    BY <1>9 DEF TypeOK, HistType, StartTask
  <2>5. UNCHANGED <<fw, arm, button>>
    BY <1>9 DEF StartTask
  <2> QED BY <2>1, <2>2, <2>3, <2>4, <2>5 DEF TypeOK, FwType, ArmType, ButtonType
<1>10. ASSUME NEW r \in Runners, FlashRunner(r)  PROVE TypeOK'
  <2>1. CASE LoadParam(r)
    <3>1. RunnerType'
      <4>1. CASE runner' = [runner EXCEPT ![r].memory_size = fw.received]
        BY <4>1 DEF TypeOK, RunnerType, FwType
      <4>2. CASE runner' = [runner EXCEPT ![r].firmware = IF fw.buffer THEN "live" ELSE "NULL"]
        BY <4>2 DEF TypeOK, RunnerType
      <4>3. CASE runner' = [runner EXCEPT ![r].firmware_len = fw.received]
        BY <4>3 DEF TypeOK, RunnerType, FwType
      <4> QED BY <2>1, <4>1, <4>2, <4>3 DEF LoadParam
    <3>2. UNCHANGED <<fw, httpd, s_flash_task, arm, button, hist>>
      BY <2>1 DEF LoadParam, RunnerStep
    <3> QED BY <3>1, <3>2 DEF TypeOK, FwType, HttpdType, ArmType, ButtonType, HistType
  <2>2. CASE CheckParams(r)
    <3>1. RunnerType'
      <4>1. CASE runner' = [runner EXCEPT ![r] = [@ EXCEPT !.pc = "sequence"]]
        BY <4>1 DEF TypeOK, RunnerType
      <4>2. CASE runner' = [runner EXCEPT ![r] = Returned]
        BY <4>2, LengthFacts DEF TypeOK, RunnerType, Returned, FlashTask
      <4> QED BY <2>2, <4>1, <4>2 DEF CheckParams
    <3>2. UNCHANGED <<fw, httpd, s_flash_task, arm, button, hist>>
      BY <2>2 DEF CheckParams, RunnerStep
    <3> QED BY <3>1, <3>2 DEF TypeOK, FwType, HttpdType, ArmType, ButtonType, HistType
  <2>3. CASE Transfer(r)
    <3>0. runner[r].offset + 1 \in Lengths
      <4>1. runner[r].offset \in Lengths /\ runner[r].firmware_len \in {Unread} \cup Lengths
        BY DEF TypeOK, RunnerType
      <4>2. runner[r].offset < runner[r].firmware_len
        BY <2>3 DEF Transfer
      <4>3. runner[r].offset \in Nat
        BY <4>1, LengthFacts
      <4>30. runner[r].firmware_len \in Lengths
        BY <4>1, <4>2, <4>3 DEF Unread
      <4>4. runner[r].firmware_len \in Nat
        BY <4>30, LengthFacts
      <4>5. runner[r].offset + 1 \in 0..runner[r].firmware_len
        BY <4>2, <4>3, <4>4
      <4> QED BY <4>30, <4>5, LengthFacts
    <3>1. RunnerType'
      <4>1. runner \in [Runners -> RunnerRecord]
        BY DEF TypeOK, RunnerType, RunnerRecord
      <4>2. PICK c \in Content : runner' = [runner EXCEPT ![r] = CellRead(@, c)]
        BY <2>3 DEF Transfer
      <4>3. CellRead(runner[r], c) \in RunnerRecord
        BY <3>0, <4>1, CellReadType
      <4>4. runner' \in [Runners -> RunnerRecord]
        BY <4>1, <4>2, <4>3
      <4> QED BY <4>4 DEF RunnerType, RunnerRecord
    <3>2. UNCHANGED <<fw, httpd, s_flash_task, arm, button, hist>>
      BY <2>3 DEF Transfer, RunnerStep
    <3> QED BY <3>1, <3>2 DEF TypeOK, FwType, HttpdType, ArmType, ButtonType, HistType
  <2>4. CASE SequenceReturns(r) \/ SequenceHangs(r)
    <3>1. RunnerType'
      <4>1. CASE runner' = [runner EXCEPT ![r].pc = "hung"]
        BY <4>1 DEF TypeOK, RunnerType
      <4>2. CASE runner' = [runner EXCEPT ![r] = Returned]
        BY <4>2, LengthFacts DEF TypeOK, RunnerType, Returned, FlashTask
      <4> QED BY <2>4, <4>1, <4>2 DEF SequenceReturns, SequenceHangs
    <3>2. UNCHANGED <<fw, httpd, s_flash_task, arm, button, hist>>
      BY <2>4 DEF SequenceReturns, SequenceHangs, RunnerStep
    <3> QED BY <3>1, <3>2 DEF TypeOK, FwType, HttpdType, ArmType, ButtonType, HistType
  <2>5. CASE Consume(r)
    <3>1. RunnerType'
      BY <2>5 DEF TypeOK, RunnerType, Consume
    <3>2. ArmType'
      BY <2>5 DEF TypeOK, ArmType, Consume
    <3>3. HistType'
      BY <2>5 DEF TypeOK, HistType, Consume
    <3>4. UNCHANGED <<fw, httpd, s_flash_task, button>>
      BY <2>5 DEF Consume, RunnerStep
    <3> QED BY <3>1, <3>2, <3>3, <3>4 DEF TypeOK, FwType, HttpdType, ButtonType
  <2>6. CASE Report(r)
    <3>1. RunnerType'
      BY <2>6, LengthFacts DEF TypeOK, RunnerType, Report, NoRunner, FlashTask
    <3>2. s_flash_task' \in Runners \cup {NoTask}
      BY <2>6 DEF TypeOK, Report
    <3>3. UNCHANGED <<fw, httpd, arm, button, hist>>
      BY <2>6 DEF Report, RunnerStep
    <3> QED BY <3>1, <3>2, <3>3 DEF TypeOK, FwType, HttpdType, ArmType, ButtonType, HistType
  <2> QED BY <1>10, <2>1, <2>2, <2>3, <2>4, <2>5, <2>6 DEF FlashRunner
<1>11. MaxAge \in Nat
  BY FlashConstants DEF MaxAge
<1>12. CASE Extend
  <2>1. ArmType'
    BY <1>12 DEF TypeOK, ArmType, Extend
  <2>2. HistType'
    BY <1>12 DEF TypeOK, HistType, Extend
  <2>3. UNCHANGED <<fw, httpd, runner, s_flash_task, button>>
    BY <1>12 DEF Extend, Poll
  <2> QED BY <2>1, <2>2, <2>3 DEF TypeOK, FwType, HttpdType, RunnerType, ButtonType
<1>13. CASE Press
  <2>1. ArmType'
    BY <1>13 DEF TypeOK, ArmType, Press
  <2>2. HistType'
    <3>1. hist' = [verified |-> hist.verified, flashes |-> 0, held |-> FALSE, raced |-> FALSE]
      BY <1>13 DEF TypeOK, HistType, Press
    <3> QED BY <3>1 DEF TypeOK, HistType
  <2>3. ButtonType'
    <3>1. button' = [level |-> button.level, last_level |-> FALSE, press_start |-> 0,
                     tracked |-> TRUE, pc |-> "armed_at"]
      BY <1>13 DEF TypeOK, ButtonType, Press
    <3> QED BY <1>11, <3>1 DEF TypeOK, ButtonType
  <2>4. UNCHANGED <<fw, httpd, runner, s_flash_task>>
    BY <1>13 DEF Press, Poll
  <2> QED BY <2>1, <2>2, <2>3, <2>4 DEF TypeOK, FwType, HttpdType, RunnerType
<1>14. CASE StoreArmedAt
  <2>1. ArmType'
    BY <1>14 DEF TypeOK, ArmType, StoreArmedAt, ButtonType
  <2>2. ButtonType'
    BY <1>14 DEF TypeOK, ButtonType, StoreArmedAt
  <2>3. UNCHANGED <<fw, httpd, runner, s_flash_task, hist>>
    BY <1>14 DEF StoreArmedAt
  <2> QED BY <2>1, <2>2, <2>3 DEF TypeOK, FwType, HttpdType, RunnerType, HistType
<1>15. CASE Release
  <2>1. ButtonType'
    BY <1>15 DEF TypeOK, ButtonType, Release
  <2>2. UNCHANGED <<fw, httpd, runner, s_flash_task, arm, hist>>
    BY <1>15 DEF Release, Poll
  <2> QED BY <2>1, <2>2 DEF TypeOK, FwType, HttpdType, RunnerType, ArmType, HistType
<1>16. CASE Finger
  <2>1. ButtonType'
    BY <1>16 DEF TypeOK, ButtonType, Finger
  <2>2. UNCHANGED <<fw, httpd, runner, s_flash_task, arm, hist>>
    BY <1>16 DEF Finger
  <2> QED BY <2>1, <2>2 DEF TypeOK, FwType, HttpdType, RunnerType, ArmType, HistType
<1>17. CASE Tick
  <2>1. ArmType'
    BY <1>17, <1>11 DEF TypeOK, ArmType, Tick, Older
  <2>2. ButtonType'
    BY <1>17, <1>11 DEF TypeOK, ButtonType, Tick, Older
  <2>3. UNCHANGED <<fw, httpd, runner, s_flash_task, hist>>
    BY <1>17 DEF Tick
  <2> QED BY <2>1, <2>2, <2>3 DEF TypeOK, FwType, HttpdType, RunnerType, HistType
<1>18. CASE UNCHANGED vars
  BY <1>18 DEF TypeOK, FwType, HttpdType, RunnerType, ArmType, ButtonType, HistType, vars
<1> QED BY <1>1, <1>2, <1>3, <1>4, <1>5, <1>6, <1>7, <1>8, <1>9, <1>10, <1>12, <1>13, <1>14,
           <1>15, <1>16, <1>17, <1>18 DEF Next, Httpd, Upload, ArmTask
-----------------------------------------------------------------------------
(* The buffer *)

\* Only the upload handlers touch the buffer.
LEMMA BufferSteps ==
  ASSUME TypeOK, [Next]_vars
  PROVE  \/ \E a \in Announced : UploadBegin(a[1], a[2])
         \/ UploadAlloc
         \/ UploadSet
         \/ \E i \in Images : \E off \in 0..(Size[i] - 1) : \E n \in 0..(Size[i] - off) :
              UploadChunk(i, off, n)
         \/ /\ UNCHANGED fw
            /\ UNCHANGED httpd \/ (httpd.pc \notin {"alloc", "set"} /\ httpd'.pc \notin {"alloc", "set"})
<1> DEFINE Elsewhere ==
      /\ UNCHANGED fw
      /\ UNCHANGED httpd \/ (httpd.pc \notin {"alloc", "set"} /\ httpd'.pc \notin {"alloc", "set"})
<1>1. CASE UploadEnd \/ \E status \in BOOLEAN : IsArmedCall(status)
  BY <1>1 DEF UploadEnd, IsArmedCall, HttpdIdle
<1>2. CASE IsArmedTimed
  <2>1. httpd' = [httpd EXCEPT !.pc = "disarm"] \/ httpd' = HttpdIdle
          \/ httpd' = [httpd EXCEPT !.pc = "task"]
    BY <1>2 DEF IsArmedTimed
  <2>2. httpd'.pc \notin {"alloc", "set"}
    BY <2>1 DEF HttpdIdle, TypeOK, HttpdType
  <2> QED BY <1>2, <2>2 DEF IsArmedTimed
<1>3. CASE IsArmedDisarm \/ StartTask
  BY <1>3 DEF IsArmedDisarm, StartTask, HttpdIdle
<1>4. ASSUME NEW r \in Runners, FlashRunner(r)  PROVE Elsewhere
  BY <1>4 DEF FlashRunner, LoadParam, CheckParams, Transfer, SequenceReturns,
              SequenceHangs, Consume, Report, RunnerStep
<1>5. CASE ArmTask
  BY <1>5 DEF ArmTask, Extend, Press, StoreArmedAt, Release, Poll
<1>6. CASE Finger \/ Tick \/ UNCHANGED vars
  BY <1>6 DEF Finger, Tick, vars
<1> QED BY <1>1, <1>2, <1>3, <1>4, <1>5, <1>6 DEF Next, Httpd, Upload

\* The bounds stay those of the block.
LEMMA BlockStep ==
  ASSUME TypeOK, UploadInBlock, Uploading, [Next]_vars
  PROVE  UploadInBlock' /\ Uploading'
<1>1. ASSUME NEW a \in Announced, UploadBegin(a[1], a[2])  PROVE UploadInBlock' /\ Uploading'
  <2>1. httpd'.pc = "alloc" /\ httpd'.image = a[1]
    BY <1>1 DEF UploadBegin, HttpdIdle
  <2>2. a[1] \in Images
    BY FlashConstants
  <2>3. ~fw'.buffer
    BY <1>1 DEF UploadBegin, TypeOK, FwType
  <2> QED BY <2>1, <2>2, <2>3 DEF UploadInBlock, Uploading
<1>2. CASE UploadAlloc
  <2>0. httpd.image \in Images /\ ~fw.buffer
    BY <1>2 DEF UploadAlloc, Uploading
  <2>1. CASE UNCHANGED fw /\ httpd' = HttpdIdle
    BY <2>0, <2>1 DEF HttpdIdle, UploadInBlock, Uploading
  <2>2. CASE /\ fw' = [fw EXCEPT !.buffer = TRUE, !.cells = [k \in 1..Size[httpd.image] |-> Junk]]
             /\ httpd' = [httpd EXCEPT !.pc = "set"]
    <3>1. httpd'.pc = "set" /\ httpd'.image = httpd.image
      BY <2>2 DEF TypeOK, HttpdType
    <3>2. fw'.cells = [k \in 1..Size[httpd.image] |-> Junk]
      BY <2>2 DEF TypeOK, FwType
    <3>3. Len(fw'.cells) = Size[httpd.image]
      BY <2>0, <3>2, LengthFacts
    <3> QED BY <2>0, <3>1, <3>3 DEF UploadInBlock, Uploading
  <2> QED BY <1>2, <2>1, <2>2 DEF UploadAlloc
<1>3. CASE UploadSet
  <2>1. fw'.cells = fw.cells /\ fw'.received = 0 /\ fw'.capacity = Size[httpd.image]
    BY <1>3 DEF UploadSet, TypeOK, FwType
  <2>2. httpd'.pc = "idle"
    BY <1>3 DEF UploadSet, HttpdIdle
  <2>3. Len(fw.cells) = Size[httpd.image] /\ Size[httpd.image] \in Nat
    BY <1>3, LengthFacts DEF UploadSet, Uploading
  <2> QED BY <2>1, <2>2, <2>3 DEF UploadInBlock, Uploading
<1>4. ASSUME NEW i \in Images, NEW off \in 0..(Size[i] - 1), NEW n \in 0..(Size[i] - off),
             UploadChunk(i, off, n)
      PROVE UploadInBlock' /\ Uploading'
  <2>1. httpd.pc = "idle" /\ httpd' = httpd /\ fw.buffer
    BY <1>4 DEF UploadChunk
  <2>2. /\ fw'.cells = Decoded(i, off, n) /\ fw'.received = ReceivedAfter(off, n)
        /\ fw'.capacity = fw.capacity
    BY <1>4 DEF UploadChunk, TypeOK, FwType
  <2>3. Len(Decoded(i, off, n)) = Len(fw.cells)
    BY DEF Decoded, TypeOK, FwType
  <2>4. Len(fw.cells) = fw.capacity /\ fw.received <= fw.capacity
    BY <2>1 DEF UploadInBlock
  <2>5. off \in Nat /\ n \in Nat /\ fw.capacity \in Nat
    <3>1. Size[i] \in Nat
      BY LengthFacts
    <3>2. fw.capacity \in Lengths
      BY DEF TypeOK, FwType
    <3>3. fw.capacity \in Nat
      BY <3>2, LengthFacts
    <3>4. off \in Nat /\ off < Size[i]
      BY <3>1
    <3>5. n \in Nat
      BY <3>1, <3>4
    <3> QED BY <3>3, <3>4, <3>5
  <2>6. ReceivedAfter(off, n) <= fw.capacity
    BY <2>4, <2>5 DEF ReceivedAfter
  <2> QED BY <2>1, <2>2, <2>3, <2>4, <2>6 DEF UploadInBlock, Uploading
<1>5. CASE /\ UNCHANGED fw
           /\ UNCHANGED httpd \/ (httpd.pc \notin {"alloc", "set"} /\ httpd'.pc \notin {"alloc", "set"})
  BY <1>5 DEF UploadInBlock, Uploading
<1> QED BY <1>1, <1>2, <1>3, <1>4, <1>5, BufferSteps

\* A buffer that holds a file holds it until the next upload message.
LEMMA HoldsStep ==
  ASSUME NEW i, TypeOK, Holds(i), [Next]_vars
  PROVE  \/ Holds(i)'
         \/ \E a \in Announced : UploadBegin(a[1], a[2])
         \/ \E f \in Images : \E off \in 0..(Size[f] - 1) : \E n \in 0..(Size[f] - off) :
              UploadChunk(f, off, n)
<1>1. ~UploadAlloc /\ ~UploadSet
  BY DEF Holds, UploadAlloc, UploadSet
<1>2. ASSUME UNCHANGED fw,
             UNCHANGED httpd \/ (httpd.pc \notin {"alloc", "set"} /\ httpd'.pc \notin {"alloc", "set"})
      PROVE Holds(i)'
  BY <1>2 DEF Holds
<1> QED BY <1>1, <1>2, BufferSteps

-----------------------------------------------------------------------------
(* The flash task *)

\* s_flash_task names the task that runs.
LEMMA OneRunnerStep ==
  ASSUME TypeOK, OneRunner, [Next]_vars
  PROVE  OneRunner'
<1> USE DEF TypeOK, RunnerType
<1>0. NoTask \notin Runners
  BY FlashConstants
<1>1. ASSUME UNCHANGED s_flash_task, \A r \in Runners : runner'[r].pc = runner[r].pc
      PROVE  OneRunner'
  BY <1>1 DEF OneRunner, Running
<1>2. ASSUME NEW a \in Announced, UploadBegin(a[1], a[2])  PROVE OneRunner'
  BY <1>1, <1>2 DEF UploadBegin, FreeBlock
<1>3. ASSUME NEW i \in Images, NEW off \in 0..(Size[i] - 1), NEW n \in 0..(Size[i] - off),
             UploadChunk(i, off, n)
      PROVE OneRunner'
  BY <1>1, <1>3 DEF UploadChunk
<1>4. CASE StartTask
  <2>1. CASE UNCHANGED <<s_flash_task, runner, hist>>
    BY <1>1, <2>1
  <2>2. CASE /\ s_flash_task = NoTask
             /\ \E r \in Runners : ~Running(r)
             /\ s_flash_task' = FreeRunner
             /\ runner' = [runner EXCEPT ![FreeRunner] = FlashTask("params", hist.verified)]
    <3>1. FreeRunner \in Runners
      BY <2>2, FreeIsFree
    <3>2. \A r \in Runners : runner[r].pc = "none"
      BY <1>0, <2>2 DEF OneRunner, Running
    <3>3. FlashTask("params", hist.verified).pc = "params"
      BY DEF FlashTask
    <3>4. \A r \in Runners : runner'[r].pc = IF r = FreeRunner THEN "params" ELSE "none"
      BY <2>2, <3>1, <3>2, <3>3
    <3> QED BY <2>2, <3>4 DEF OneRunner, Running
  <2> QED BY <1>4, <2>1, <2>2 DEF StartTask
<1>5. ASSUME NEW r \in Runners, FlashRunner(r)  PROVE OneRunner'
  <2>1. s_flash_task = r /\ \A q \in Runners : Running(q) => q = r
    BY <1>5 DEF OneRunner, FlashRunner, LoadParam, CheckParams, Transfer, SequenceReturns,
                SequenceHangs, Consume, Report, RunnerStep
  <2>2. ASSUME UNCHANGED s_flash_task, runner'[r].pc # "none",
               \A q \in Runners \ {r} : runner'[q] = runner[q]
        PROVE OneRunner'
    BY <2>1, <2>2 DEF OneRunner, Running
  <2>3. CASE LoadParam(r)
    BY <2>2, <2>3 DEF LoadParam
  <2>4. CASE CheckParams(r)
    <3>1. CASE runner' = [runner EXCEPT ![r] = [@ EXCEPT !.pc = "sequence"]]
      BY <2>2, <2>4, <3>1 DEF CheckParams
    <3>2. CASE runner' = [runner EXCEPT ![r] = Returned]
      BY <2>2, <2>4, <3>2 DEF CheckParams, Returned, FlashTask
    <3> QED BY <2>4, <3>1, <3>2 DEF CheckParams
  <2>5. CASE Transfer(r)
    <3>1. PICK c \in Content : runner' = [runner EXCEPT ![r] = CellRead(@, c)]
      BY <2>5 DEF Transfer
    <3>2. CellRead(runner[r], c).pc = "sequence"
      BY <2>5 DEF Transfer, CellRead
    <3> QED BY <2>2, <2>5, <3>1, <3>2 DEF Transfer
  <2>6. CASE SequenceReturns(r) \/ SequenceHangs(r)
    BY <2>2, <2>6 DEF SequenceReturns, SequenceHangs, Returned, FlashTask
  <2>7. CASE Consume(r)
    BY <2>2, <2>7 DEF Consume
  <2>8. CASE Report(r)
    <3>1. \A q \in Runners : runner'[q].pc = "none"
      BY <2>1, <2>8 DEF Report, NoRunner, FlashTask, Running
    <3> QED BY <1>0, <2>8, <3>1 DEF Report, OneRunner, Running
  <2> QED BY <1>5, <2>3, <2>4, <2>5, <2>6, <2>7, <2>8 DEF FlashRunner
<1>6. CASE UploadAlloc \/ UploadSet \/ UploadEnd \/ IsArmedTimed \/ IsArmedDisarm
             \/ \E status \in BOOLEAN : IsArmedCall(status)
  BY <1>1, <1>6 DEF UploadAlloc, UploadSet, UploadEnd, IsArmedTimed, IsArmedDisarm, IsArmedCall
<1>7. CASE ArmTask \/ Finger \/ Tick \/ UNCHANGED vars
  BY <1>1, <1>7 DEF ArmTask, Extend, Press, StoreArmedAt, Release, Poll, Finger, Tick, vars
<1> QED BY <1>2, <1>3, <1>4, <1>5, <1>6, <1>7 DEF Next, Httpd, Upload

-----------------------------------------------------------------------------
(* Verified images *)

\* What upload_end verified stays verified until the next upload message.
LEMMA VerifiedStep ==
  ASSUME TypeOK, Uploading, UploadInBlock, Verified, [Next]_vars
  PROVE  Verified'
<1>1. CASE hist'.verified = NoImage
  BY <1>1 DEF Verified
<1>2. CASE hist'.verified # NoImage
  <2>1. ASSUME NEW a \in Announced, UploadBegin(a[1], a[2])  PROVE FALSE
    BY <1>2, <2>1 DEF UploadBegin, TypeOK, HistType
  <2>2. ASSUME NEW i \in Images, NEW off \in 0..(Size[i] - 1), NEW n \in 0..(Size[i] - off),
               UploadChunk(i, off, n)
        PROVE FALSE
    BY <1>2, <2>2 DEF UploadChunk, TypeOK, HistType
  <2>3. CASE UploadEnd
    <3>1. hist'.verified = fw.crc
      BY <2>3 DEF UploadEnd, TypeOK, HistType
    <3>2. fw.crc \in Images
      BY <1>2, <3>1 DEF TypeOK, FwType
    <3>3. fw.cells = Contents(fw.crc)
      BY <1>2, <2>3, <3>1, <3>2, CrcIsContent DEF UploadEnd
    <3>4. Len(fw.cells) = Size[fw.crc]
      BY <3>2, <3>3, ContentsFacts
    <3>5. fw.capacity = Size[fw.crc] /\ fw.received = Size[fw.crc]
      BY <2>3, <3>4 DEF UploadEnd, UploadInBlock
    <3> QED BY <2>3, <3>1, <3>3, <3>5 DEF UploadEnd, Verified, Holds
  <2>4. CASE hist'.verified = hist.verified
    <3>1. PICK i : i = hist.verified
      OBVIOUS
    <3>2. Holds(i)
      BY <1>2, <2>4, <3>1 DEF Verified
    <3>3. Holds(i)'
      BY <2>1, <2>2, <3>2, HoldsStep
    <3> QED BY <2>4, <3>1, <3>3 DEF Verified, Holds
  <2>5. hist'.verified = hist.verified \/ UploadEnd
    <3>1. CASE UploadAlloc \/ UploadSet \/ IsArmedTimed \/ IsArmedDisarm
                 \/ \E status \in BOOLEAN : IsArmedCall(status)
      BY <3>1 DEF UploadAlloc, UploadSet, IsArmedTimed, IsArmedDisarm, IsArmedCall
    <3>2. CASE StartTask
      BY <3>2 DEF StartTask, TypeOK, HistType
    <3>3. ASSUME NEW r \in Runners, FlashRunner(r)  PROVE hist'.verified = hist.verified
      BY <3>3 DEF FlashRunner, LoadParam, CheckParams, Transfer, SequenceReturns,
                  SequenceHangs, Consume, Report, TypeOK, HistType
    <3>4. CASE Extend
      BY <3>4 DEF Extend, TypeOK, HistType
    <3>5. CASE Press
      <4>1. hist' = [hist EXCEPT !.flashes = 0, !.held = FALSE, !.raced = FALSE]
        BY <3>5 DEF Press
      <4> QED BY <4>1 DEF TypeOK, HistType
    <3>6. CASE StoreArmedAt \/ Release \/ Finger \/ Tick \/ UNCHANGED vars
      BY <3>6 DEF StoreArmedAt, Release, Poll, Finger, Tick, vars
    <3> QED BY <2>1, <2>2, <3>1, <3>2, <3>3, <3>4, <3>5, <3>6 DEF Next, Httpd, Upload, ArmTask
  <2> QED BY <2>3, <2>4, <2>5
<1> QED BY <1>1, <1>2

\* A flash started on a verified image still finds it in the buffer.
LEMMA UndisturbedStep ==
  ASSUME TypeOK, OneRunner, Verified, Undisturbed, [Next]_vars
  PROVE  Undisturbed'
<1> USE DEF TypeOK, RunnerType
<1>1. ASSUME NEW a \in Announced, UploadBegin(a[1], a[2])  PROVE Undisturbed'
  <2>1. \A r \in Runners : runner'[r].image = NoImage
    BY <1>1 DEF UploadBegin, FreeBlock
  <2> QED BY <2>1 DEF Undisturbed
<1>2. ASSUME NEW i \in Images, NEW off \in 0..(Size[i] - 1), NEW n \in 0..(Size[i] - off),
             UploadChunk(i, off, n)
      PROVE Undisturbed'
  <2>1. \A r \in Runners : runner'[r].image = NoImage
    BY <1>2 DEF UploadChunk
  <2> QED BY <2>1 DEF Undisturbed
<1>3. ASSUME ~ \E a \in Announced : UploadBegin(a[1], a[2]),
             ~ \E i \in Images : \E off \in 0..(Size[i] - 1) : \E n \in 0..(Size[i] - off) :
                 UploadChunk(i, off, n)
      PROVE  Undisturbed'
  <2> SUFFICES ASSUME NEW r \in Runners, NEW i, runner'[r].image = i, i # NoImage
               PROVE  Holds(i)' /\ GoesWell(runner'[r])
    BY DEF Undisturbed, Holds
  <2>1. Holds(i) => Holds(i)'
    BY <1>3, HoldsStep
  <2>2. ASSUME runner'[r] = runner[r]  PROVE Holds(i)' /\ GoesWell(runner'[r])
    BY <2>1, <2>2 DEF Undisturbed
  <2>3. CASE StartTask
    <3>1. CASE UNCHANGED <<s_flash_task, runner, hist>>
      BY <2>2, <3>1
    <3>2. CASE /\ \E q \in Runners : ~Running(q)
               /\ runner' = [runner EXCEPT ![FreeRunner] = FlashTask("params", hist.verified)]
      <4>1. CASE r = FreeRunner
        <5>1. runner'[r] = FlashTask("params", hist.verified)
          BY <3>2, <4>1, FreeIsFree
        <5>2. i = hist.verified /\ GoesWell(runner'[r])
          BY <5>1 DEF FlashTask, GoesWell
        <5> QED BY <2>1, <5>2 DEF Verified
      <4>2. CASE r # FreeRunner
        BY <2>2, <3>2, <4>2
      <4> QED BY <4>1, <4>2
    <3> QED BY <2>3, <3>1, <3>2 DEF StartTask
  <2>4. ASSUME NEW q \in Runners, FlashRunner(q)  PROVE Holds(i)' /\ GoesWell(runner'[r])
    <3>1. CASE q # r
      <4>1. runner'[r] = runner[r]
        BY <2>4, <3>1 DEF FlashRunner, LoadParam, CheckParams, Transfer, SequenceReturns,
                          SequenceHangs, Consume, Report
      <4> QED BY <2>2, <4>1
    <3>2. CASE q = r
      <4> DEFINE p == runner[r]
      <4>0. ASSUME p.image = i  PROVE Holds(i) /\ Holds(i)' /\ GoesWell(p)
        BY <2>1, <4>0 DEF Undisturbed
      <4>1. CASE LoadParam(r)
        <5>1. p.image = i
          BY <4>1 DEF LoadParam
        <5>2. fw.buffer /\ fw.received = Size[i]
          BY <4>0, <5>1 DEF Holds
        <5>3. /\ p.pc = "params" /\ ~p.wrong /\ p.firmware \in {"unread", "live"}
              /\ p.memory_size \in {Unread, Size[i]} /\ p.firmware_len \in {Unread, Size[i]}
          BY <4>0, <4>1, <5>1 DEF GoesWell, LoadParam
        <5>4. CASE runner' = [runner EXCEPT ![r].memory_size = fw.received]
          BY <4>0, <5>1, <5>2, <5>3, <5>4 DEF GoesWell
        <5>5. CASE runner' = [runner EXCEPT ![r].firmware = IF fw.buffer THEN "live" ELSE "NULL"]
          BY <4>0, <5>1, <5>2, <5>3, <5>5 DEF GoesWell
        <5>6. CASE runner' = [runner EXCEPT ![r].firmware_len = fw.received]
          BY <4>0, <5>1, <5>2, <5>3, <5>6 DEF GoesWell
        <5> QED BY <4>1, <5>4, <5>5, <5>6 DEF LoadParam
      <4>2. CASE CheckParams(r)
        <5>1. CASE runner' = [runner EXCEPT ![r] = [@ EXCEPT !.pc = "sequence"]]
          BY <4>0, <4>2, <5>1 DEF CheckParams, GoesWell, Loaded
        <5>2. CASE runner' = [runner EXCEPT ![r] = Returned]
          BY <5>2 DEF Returned, FlashTask
        <5> QED BY <4>2, <5>1, <5>2 DEF CheckParams
      <4>3. CASE Transfer(r)
        <5>1. PICK c \in Content :
                /\ p.firmware = "live" /\ p.offset < Len(fw.cells) => c = fw.cells[p.offset + 1]
                /\ runner' = [runner EXCEPT ![r] = CellRead(@, c)]
          BY <4>3 DEF Transfer
        <5>2. runner'[r] = CellRead(p, c)
          BY <5>1
        <5>3. p.image = i
          BY <5>2 DEF CellRead
        <5>4. /\ GoesWell(p) /\ p.pc = "sequence" /\ p.offset < p.firmware_len
              /\ fw.cells = Contents(i)
          BY <4>0, <4>3, <5>3 DEF Transfer, Holds
        <5>5. p.firmware = "live" /\ p.firmware_len = Size[i]
          BY <5>3, <5>4 DEF GoesWell, Loaded
        <5>6. i \in Images
          BY <5>3
        <5>7. Size[i] \in Nat /\ p.offset \in Nat /\ p.offset < Size[i]
          BY <5>4, <5>5, <5>6, LengthFacts
        <5>8. c = i
          <6>1. p.offset + 1 \in 1..Size[i] /\ p.offset < Len(fw.cells)
            BY <5>4, <5>6, <5>7, ContentsFacts
          <6> QED BY <5>1, <5>4, <5>5, <5>6, <6>1, ContentsFacts
        <5>9. CellRead(p, c) = [p EXCEPT !.offset = p.offset + 1, !.wrong = p.wrong]
          BY <5>3, <5>8 DEF CellRead
        <5>10. GoesWell(CellRead(p, c))
          BY <5>4, <5>9 DEF GoesWell, Loaded
        <5> QED BY <4>0, <5>2, <5>3, <5>10
      <4>4. CASE SequenceReturns(r) \/ Report(r)
        BY <4>4 DEF SequenceReturns, Report, Returned, NoRunner, FlashTask
      <4>5. CASE Consume(r) \/ SequenceHangs(r)
        BY <4>0, <4>5 DEF Consume, SequenceHangs, GoesWell, Loaded
      <4> QED BY <2>4, <3>2, <4>1, <4>2, <4>3, <4>4, <4>5 DEF FlashRunner
    <3> QED BY <3>1, <3>2
  <2>5. CASE UNCHANGED runner
    BY <2>2, <2>5
  <2>6. UNCHANGED runner \/ StartTask \/ \E q \in Runners : FlashRunner(q)
    <3>1. CASE UploadAlloc \/ UploadSet \/ UploadEnd \/ IsArmedTimed \/ IsArmedDisarm
                 \/ \E status \in BOOLEAN : IsArmedCall(status)
      BY <3>1 DEF UploadAlloc, UploadSet, UploadEnd, IsArmedTimed, IsArmedDisarm, IsArmedCall
    <3>2. CASE ArmTask \/ Finger \/ Tick \/ UNCHANGED vars
      BY <3>2 DEF ArmTask, Extend, Press, StoreArmedAt, Release, Poll, Finger, Tick, vars
    <3> QED BY <1>3, <3>1, <3>2 DEF Next, Httpd, Upload
  <2> QED BY <2>3, <2>4, <2>5, <2>6
<1> QED BY <1>1, <1>2, <1>3

-----------------------------------------------------------------------------
(* Presses *)

\* What a press still authorises, through every step.
LEMMA AuthorisedStep ==
  ASSUME TypeOK, OneRunner, Authorised, [Next]_vars
  PROVE  Authorised'
<1> USE DEF TypeOK
<1>0. NoTask \notin Runners
  BY FlashConstants
\* Steps that start nothing and arm nothing.
<1>1. ASSUME hist'.flashes = hist.flashes, hist'.held = hist.held, hist'.raced = hist.raced,
             Flashing => Flashing', Starting' => Starting,
             arm'.g_state \in {"DISARMED", arm.g_state},
             httpd'.pc = "task" => ~httpd'.status
      PROVE  Authorised'
  BY <1>1 DEF Authorised
<1>2. ASSUME UNCHANGED <<httpd, arm>>, hist'.flashes = hist.flashes, hist'.held = hist.held,
             hist'.raced = hist.raced, \A r \in Runners : runner'[r].pc = runner[r].pc
      PROVE  Authorised'
  BY <1>1, <1>2 DEF Flashing, Starting, Authorised
<1>3. ASSUME NEW a \in Announced, UploadBegin(a[1], a[2])  PROVE Authorised'
  <2>1. hist'.flashes = hist.flashes /\ hist'.held = hist.held /\ hist'.raced = hist.raced
    BY <1>3 DEF UploadBegin, HistType
  <2>2. \A r \in Runners : runner'[r].pc = runner[r].pc
    BY <1>3 DEF UploadBegin, FreeBlock, RunnerType
  <2>3. httpd'.pc = "alloc" /\ UNCHANGED arm
    BY <1>3 DEF UploadBegin, HttpdIdle
  <2> QED BY <1>1, <2>1, <2>2, <2>3 DEF Flashing, Starting
<1>4. ASSUME NEW i \in Images, NEW off \in 0..(Size[i] - 1), NEW n \in 0..(Size[i] - off),
             UploadChunk(i, off, n)
      PROVE Authorised'
  <2>1. hist'.flashes = hist.flashes /\ hist'.held = hist.held /\ hist'.raced = hist.raced
    BY <1>4 DEF UploadChunk, HistType
  <2>2. \A r \in Runners : runner'[r].pc = runner[r].pc
    BY <1>4 DEF UploadChunk, RunnerType
  <2> QED BY <1>2, <1>4, <2>1, <2>2 DEF UploadChunk
<1>5. CASE UploadAlloc \/ UploadSet
  <2>1. httpd'.pc \in {"idle", "set"} /\ UNCHANGED <<runner, arm, hist>>
    BY <1>5 DEF UploadAlloc, UploadSet, HttpdIdle, HttpdType
  <2> QED BY <1>1, <2>1 DEF Flashing, Starting
<1>6. CASE UploadEnd
  <2>1. hist'.flashes = hist.flashes /\ hist'.held = hist.held /\ hist'.raced = hist.raced
    BY <1>6 DEF UploadEnd, HistType
  <2> QED BY <1>2, <1>6, <2>1 DEF UploadEnd
<1>7. ASSUME NEW status \in BOOLEAN, IsArmedCall(status)  PROVE Authorised'
  <2>1. arm.g_state # "DISARMED" /\ httpd'.pc = "timed" /\ UNCHANGED <<runner, arm, hist>>
    BY <1>7 DEF IsArmedCall, HttpdIdle
  <2> QED BY <2>1 DEF Authorised, Flashing
<1>8. CASE IsArmedTimed
  <2>1. UNCHANGED <<runner, arm, hist>> /\ httpd.pc = "timed"
    BY <1>8 DEF IsArmedTimed
  <2>2. CASE httpd' = [httpd EXCEPT !.pc = "disarm"] \/ httpd' = HttpdIdle
    <3>1. httpd'.pc \in {"disarm", "idle"}
      BY <2>2 DEF HttpdIdle, HttpdType
    <3> QED BY <1>1, <2>1, <3>1 DEF Flashing, Starting
  <2>3. CASE ~httpd.status /\ httpd' = [httpd EXCEPT !.pc = "task"]
    <3>1. httpd'.pc = "task" /\ httpd'.status = httpd.status
      BY <2>3 DEF HttpdType
    <3> QED BY <1>1, <2>1, <2>3, <3>1 DEF Flashing, Starting
  <2> QED BY <1>8, <2>2, <2>3 DEF IsArmedTimed
<1>9. CASE IsArmedDisarm
  <2>1. UNCHANGED <<runner, hist>> /\ arm'.g_state = "DISARMED" /\ httpd'.pc = "idle"
    BY <1>9 DEF IsArmedDisarm, ArmType, HttpdIdle
  <2> QED BY <1>1, <2>1 DEF Flashing, Starting
<1>10. CASE StartTask
  <2>1. UNCHANGED arm /\ httpd'.pc = "idle" /\ httpd.pc = "task"
    BY <1>10 DEF StartTask, HttpdIdle
  <2>2. CASE UNCHANGED <<s_flash_task, runner, hist>>
    BY <1>1, <2>1, <2>2 DEF Flashing, Starting
  <2>3. CASE /\ s_flash_task = NoTask
             /\ \E r \in Runners : ~Running(r)
             /\ runner' = [runner EXCEPT ![FreeRunner] = FlashTask("params", hist.verified)]
             /\ hist' = [hist EXCEPT !.flashes = IF @ < 2 THEN @ + 1 ELSE @]
    <3>1. hist'.held = hist.held /\ hist'.raced = hist.raced
          /\ hist'.flashes = IF hist.flashes < 2 THEN hist.flashes + 1 ELSE hist.flashes
      BY <2>3 DEF HistType
    <3>2. ~Flashing
      BY <1>0, <2>3 DEF Flashing, OneRunner, Running
    <3>3. hist.flashes = 0 \/ hist.held \/ hist.raced
      BY <2>1, <3>2 DEF Authorised, Starting, HistType
    <3>4. runner'[FreeRunner].pc = "params" /\ FreeRunner \in Runners
      BY <2>3, FreeIsFree DEF FlashTask, RunnerType
    <3> QED BY <2>1, <3>1, <3>3, <3>4 DEF Authorised, Flashing, HistType
  <2> QED BY <1>10, <2>2, <2>3 DEF StartTask
<1>11. ASSUME NEW r \in Runners, FlashRunner(r)  PROVE Authorised'
  <2>1. UNCHANGED httpd
    BY <1>11 DEF FlashRunner, LoadParam, CheckParams, Transfer, SequenceReturns,
                 SequenceHangs, Consume, Report, RunnerStep
  <2>2. ASSUME UNCHANGED <<arm, hist>>, \A q \in Runners \ {r} : runner'[q] = runner[q],
               runner[r].pc = "report" \/ runner'[r].pc \in {"params", "sequence", "hung", "consume"}
        PROVE Authorised'
    <3>1. Flashing => Flashing'
      BY <2>2 DEF Flashing
    <3> QED BY <1>1, <2>1, <2>2, <3>1 DEF Starting, Authorised
  <2>3. CASE LoadParam(r)
    BY <2>2, <2>3 DEF LoadParam, RunnerType
  <2>4. CASE CheckParams(r)
    <3>1. CASE runner' = [runner EXCEPT ![r] = [@ EXCEPT !.pc = "sequence"]]
      BY <2>2, <2>4, <3>1 DEF CheckParams, RunnerType
    <3>2. CASE runner' = [runner EXCEPT ![r] = Returned]
      BY <2>2, <2>4, <3>2 DEF CheckParams, Returned, FlashTask, RunnerType
    <3> QED BY <2>4, <3>1, <3>2 DEF CheckParams
  <2>5. CASE Transfer(r)
    <3>1. PICK c \in Content : runner' = [runner EXCEPT ![r] = CellRead(@, c)]
      BY <2>5 DEF Transfer
    <3>2. CellRead(runner[r], c).pc = "sequence"
      BY <2>5 DEF Transfer, CellRead, RunnerType
    <3> QED BY <2>2, <2>5, <3>1, <3>2 DEF Transfer, RunnerType
  <2>6. CASE SequenceReturns(r) \/ SequenceHangs(r)
    BY <2>2, <2>6 DEF SequenceReturns, SequenceHangs, Returned, FlashTask, RunnerType
  <2>7. CASE Consume(r)
    <3>1. arm'.g_state = "DISARMED"
      BY <2>7 DEF Consume, ArmType
    <3>2. hist'.flashes = hist.flashes /\ hist'.held = hist.held
          /\ hist'.raced = (hist.raced \/ Starting)
      <4>1. hist' = [hist EXCEPT !.raced = hist.raced \/ Starting]
        BY <2>7 DEF Consume, Starting
      <4> QED BY <4>1 DEF HistType
    <3>3. Starting' = Starting
      BY <2>1 DEF Starting
    <3> QED BY <2>1, <3>1, <3>2, <3>3 DEF Authorised
  <2>8. CASE Report(r)
    BY <2>2, <2>8 DEF Report, RunnerType
  <2> QED BY <1>11, <2>3, <2>4, <2>5, <2>6, <2>7, <2>8 DEF FlashRunner
<1>12. CASE Extend
  <2>1. UNCHANGED <<httpd, runner>>
    BY <1>12 DEF Extend, Poll
  <2>2. hist'.flashes = hist.flashes /\ hist'.raced = hist.raced
        /\ hist'.held = (hist.held \/ (hist.flashes > 0 /\ arm.g_state = "DISARMED"))
    <3>1. hist' = [hist EXCEPT !.held = hist.held \/ (hist.flashes > 0 /\ arm.g_state = "DISARMED")]
      BY <1>12 DEF Extend
    <3> QED BY <3>1 DEF HistType
  <2> QED BY <2>1, <2>2 DEF Authorised, Flashing
<1>13. CASE Press
  <2>1. hist'.flashes = 0
    <3>1. hist' = [hist EXCEPT !.flashes = 0, !.held = FALSE, !.raced = FALSE]
      BY <1>13 DEF Press
    <3> QED BY <3>1 DEF HistType
  <2>2. UNCHANGED httpd
    BY <1>13 DEF Press, Poll
  <2> QED BY <2>1, <2>2 DEF Authorised
<1>14. CASE StoreArmedAt \/ Release \/ Finger \/ Tick \/ UNCHANGED vars
  <2>1. UNCHANGED <<httpd, runner, hist>>
    BY <1>14 DEF StoreArmedAt, Release, Poll, Finger, Tick, vars
  <2>2. arm'.g_state = arm.g_state
    BY <1>14 DEF StoreArmedAt, Release, Finger, Tick, vars, ArmType
  <2> QED BY <2>1, <2>2 DEF Authorised, Flashing, Starting
<1> QED BY <1>3, <1>4, <1>5, <1>6, <1>7, <1>8, <1>9, <1>10, <1>11, <1>12, <1>13, <1>14
        DEF Next, Httpd, Upload, ArmTask

-----------------------------------------------------------------------------
(* The theorems *)

LEMMA InitInv == Init => Inv
<1> SUFFICES ASSUME Init PROVE Inv
  OBVIOUS
<1> USE DEF Init, HttpdIdle, NoRunner, FlashTask
<1>1. TypeOK
  <2>1. 0 \in Lengths
    BY LengthFacts
  <2>2. MaxAge \in 0..MaxAge
    BY FlashConstants DEF MaxAge
  <2>3. FwType /\ HttpdType
    BY <2>1 DEF FwType, HttpdType
  <2>4. RunnerType
    BY <2>1 DEF RunnerType
  <2>5. ArmType /\ ButtonType /\ HistType
    BY <2>2 DEF ArmType, ButtonType, HistType
  <2> QED BY <2>3, <2>4, <2>5 DEF TypeOK
<1>2. OneRunner
  BY FlashConstants DEF OneRunner, Running
<1>3. UploadInBlock /\ Uploading
  BY DEF UploadInBlock, Uploading
<1>4. Verified /\ Undisturbed
  BY DEF Verified, Undisturbed
<1>5. Authorised
  BY DEF Authorised
<1> QED BY <1>1, <1>2, <1>3, <1>4, <1>5 DEF Inv

LEMMA NextInv == Inv /\ [Next]_vars => Inv'
<1> SUFFICES ASSUME Inv, [Next]_vars PROVE Inv'
  OBVIOUS
<1> QED BY TypeStep, OneRunnerStep, BlockStep, VerifiedStep, UndisturbedStep, AuthorisedStep DEF Inv

\* What the other theorems rest on: Inv holds in every state.
THEOREM Invariant == Spec => []Inv
BY InitInv, NextInv, PTL DEF Spec

\* The state keeps its types: whatever is announced, no received length and no
\* offset of a transfer exceeds every file.
THEOREM TypeCorrect == Spec => []TypeOK
<1>1. Inv => TypeOK
  BY DEF Inv
<1> QED BY <1>1, Invariant, PTL

\* One flash at a time: s_flash_task names the task that runs, between the check in
\* handle_flash_start and the store at the end of flash_runner_task.
THEOREM OneFlashAtATime == Spec => []OneRunner
<1>1. Inv => OneRunner
  BY DEF Inv
<1> QED BY <1>1, Invariant, PTL

\* The bounds a chunk is checked against are those of the block it is written to.
THEOREM UploadStaysInBlock == Spec => []UploadInBlock
<1>1. Inv => UploadInBlock
  BY DEF Inv
<1> QED BY <1>1, Invariant, PTL

\* A flash of an image accepted against its CRC takes that image, whole, unless an
\* upload message comes in between.
THEOREM VerifiedImageFlashed == Spec => []FlashesVerifiedImage
<1>1. Inv => FlashesVerifiedImage
  <2> SUFFICES ASSUME TypeOK, Undisturbed, NEW r \in Runners, runner[r].image # NoImage
               PROVE  /\ Loaded(runner[r]) =>
                           /\ runner[r].firmware = "live"
                           /\ runner[r].firmware_len = runner[r].memory_size
                           /\ runner[r].firmware_len = Size[runner[r].image]
                      /\ ~runner[r].wrong
    BY DEF Inv, FlashesVerifiedImage
  <2> QED BY DEF Undisturbed, GoesWell, Loaded
<1> QED BY <1>1, Invariant, PTL

\* One press authorises one flash, but for a button held down past it and for a start
\* that was already past its check.
THEOREM PressAuthorisesOneFlash == Spec => []OnePressOneFlash
<1>1. Inv => OnePressOneFlash
  BY DEF Inv, TypeOK, HistType, Authorised, OnePressOneFlash
<1> QED BY <1>1, Invariant, PTL
=============================================================================
