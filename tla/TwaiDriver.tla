----------------------------- MODULE TwaiDriver -----------------------------
(***************************************************************************)
(* twai_task of main/twai_driver.c between the queues of the gateway and   *)
(* the TWAI driver of ESP-IDF, with the LED it reports errors on. An       *)
(* iteration sends at most one frame, waiting up to 50 ms for the driver,  *)
(* receives at most one and looks at the alerts. Bus-off loses the frames  *)
(* the driver holds; it is recovered from into the stopped state.          *)
(***************************************************************************)
EXTENDS StatusLed

CONSTANTS
  MaxFrames,     \* bound: frames isotp_task puts into q_twai_tx
  QTxCap,        \* depth of q_twai_tx (32)
  QRxCap,        \* depth of q_twai_rx (32)
  QMonCap,       \* depth of q_can_monitor (16)
  DrvCap         \* depth of the driver's own queues (32)

ASSUME TwaiConstants ==
  /\ MaxFrames \in Nat
  /\ {QTxCap, QRxCap, QMonCap, DrvCap} \subseteq Nat \ {0}

VARIABLES
  drv,           \* the driver: state, tx (frames accepted), rx (frames received),
                 \* alert (TWAI_ALERT_BUS_OFF)
  task,          \* twai_task: pc, frame is tx_frame
  q_twai_tx,     \* frames are numbered in the order of isotp_task
  q_twai_rx, q_can_monitor,     \* only how many
  busError,      \* EVT_BUS_ERROR
  made,          \* history: frames put into q_twai_tx
  bus            \* history: our frames on the bus

vars == <<led, q_led_cmd, asked, drv, task, q_twai_tx, q_twai_rx, q_can_monitor,
          busError, made, bus>>

Init ==
  /\ LedInit
  /\ drv = [state |-> "running", tx |-> <<>>, rx |-> 0, alert |-> FALSE]
  /\ task = [pc |-> "tx", frame |-> 0]
  /\ q_twai_tx = <<>> /\ q_twai_rx = 0 /\ q_can_monitor = 0
  /\ busError = FALSE /\ made = 0 /\ bus = <<>>

Into(q, cap) == IF q < cap THEN q + 1 ELSE q      \* xQueueSend without waiting

Storing == task.pc = "until"

-----------------------------------------------------------------------------
(* twai_task *)

\* mutant: whether there was a frame is not looked at; tx_frame goes out as it is
TakeFrameMutant ==
  /\ task.pc = "tx"
  /\ task' = [pc |-> "transmit",
              frame |-> IF q_twai_tx = <<>> THEN task.frame ELSE Head(q_twai_tx)]
  /\ q_twai_tx' = IF q_twai_tx = <<>> THEN <<>> ELSE Tail(q_twai_tx)
  /\ UNCHANGED <<ledVars, drv, q_twai_rx, q_can_monitor, busError, made, bus>>

TakeFrame ==
  /\ task.pc = "tx"
  /\ IF q_twai_tx = <<>> THEN task' = [task EXCEPT !.pc = "rx"] /\ UNCHANGED q_twai_tx
     ELSE /\ task' = [pc |-> "transmit", frame |-> Head(q_twai_tx)]
          /\ q_twai_tx' = Tail(q_twai_tx)
  /\ UNCHANGED <<ledVars, drv, q_twai_rx, q_can_monitor, busError, made, bus>>

\* twai_transmit accepts the frame; a copy goes to the monitor.
Transmit ==
  /\ task.pc = "transmit" /\ drv.state = "running" /\ Len(drv.tx) < DrvCap
  /\ drv' = [drv EXCEPT !.tx = Append(@, task.frame)]
  /\ task' = [pc |-> "rx", frame |-> 0]
  /\ q_can_monitor' = Into(q_can_monitor, QMonCap)
  /\ UNCHANGED <<ledVars, q_twai_tx, q_twai_rx, busError, made, bus>>

FlagErrorMutant == busError     \* mutant: a frame refused by twai_transmit is only logged
FlagError == TRUE

\* twai_transmit fails: the driver is not running, or its queue stays full for 50 ms.
\* The frame is gone; led_flash_error follows.
TransmitFails ==
  /\ task.pc = "transmit" /\ (drv.state # "running" \/ Len(drv.tx) = DrvCap)
  /\ busError' = FlagError
  /\ task' = [pc |-> "override", frame |-> 0]
  /\ UNCHANGED <<ledVars, drv, q_twai_tx, q_twai_rx, q_can_monitor, made, bus>>

FlashError ==
  /\ \/ /\ task.pc = "override" /\ LedStoreOverride /\ task' = [task EXCEPT !.pc = "until"]
     \/ /\ task.pc = "until" /\ LedStoreUntil /\ task' = [task EXCEPT !.pc = "rx"]
  /\ UNCHANGED <<drv, q_twai_tx, q_twai_rx, q_can_monitor, busError, made, bus>>

Receive ==
  /\ task.pc = "rx"
  /\ IF drv.rx = 0 THEN UNCHANGED <<drv, q_twai_rx, q_can_monitor>>
     ELSE /\ drv' = [drv EXCEPT !.rx = @ - 1]
          /\ q_twai_rx' = Into(q_twai_rx, QRxCap)
          /\ q_can_monitor' = Into(q_can_monitor, QMonCap)
  /\ task' = [task EXCEPT !.pc = "alerts"]
  /\ UNCHANGED <<ledVars, q_twai_tx, busError, made, bus>>

\* twai_initiate_recovery empties the driver's transmit queue.
ReadAlerts ==
  /\ task.pc = "alerts"
  /\ IF ~drv.alert THEN UNCHANGED <<ledVars, drv, busError>>
     ELSE /\ drv' = [drv EXCEPT !.alert = FALSE, !.state = "recovering", !.tx = <<>>]
          /\ busError' = TRUE
          /\ LedSetState(LedBusOff)
  /\ task' = [task EXCEPT !.pc = "tx"]
  /\ UNCHANGED <<q_twai_tx, q_twai_rx, q_can_monitor, made, bus>>

TwaiTask == TakeFrame \/ Transmit \/ TransmitFails \/ FlashError \/ Receive \/ ReadAlerts

-----------------------------------------------------------------------------
(* The driver and the bus; the other tasks *)

FrameSent ==
  /\ drv.state = "running" /\ drv.tx # <<>>
  /\ bus' = Append(bus, Head(drv.tx))
  /\ drv' = [drv EXCEPT !.tx = Tail(@)]
  /\ UNCHANGED <<ledVars, task, q_twai_tx, q_twai_rx, q_can_monitor, busError, made>>

\* Too many errors: the frame on the wire is lost.
BusOff ==
  /\ drv.state = "running"
  /\ drv' = [drv EXCEPT !.state = "bus_off", !.alert = TRUE,
                        !.tx = IF @ = <<>> THEN @ ELSE Tail(@)]
  /\ UNCHANGED <<ledVars, task, q_twai_tx, q_twai_rx, q_can_monitor, busError, made, bus>>

\* 128 idle sequences of the bus later: the driver is stopped.
Recovered ==
  /\ drv.state = "recovering"
  /\ drv' = [drv EXCEPT !.state = "stopped"]
  /\ UNCHANGED <<ledVars, task, q_twai_tx, q_twai_rx, q_can_monitor, busError, made, bus>>

FrameArrives ==
  /\ drv.state = "running" /\ drv.rx < DrvCap
  /\ drv' = [drv EXCEPT !.rx = @ + 1]
  /\ UNCHANGED <<ledVars, task, q_twai_tx, q_twai_rx, q_can_monitor, busError, made, bus>>

IsotpSends ==
  /\ made < MaxFrames /\ Len(q_twai_tx) < QTxCap
  /\ made' = made + 1 /\ q_twai_tx' = Append(q_twai_tx, made + 1)
  /\ UNCHANGED <<ledVars, drv, task, q_twai_rx, q_can_monitor, busError, bus>>

OthersTake ==
  /\ \/ q_twai_rx > 0 /\ q_twai_rx' = q_twai_rx - 1 /\ UNCHANGED q_can_monitor
     \/ q_can_monitor > 0 /\ q_can_monitor' = q_can_monitor - 1 /\ UNCHANGED q_twai_rx
  /\ UNCHANGED <<ledVars, drv, task, q_twai_tx, busError, made, bus>>

\* WiFi, the flash, uds_task and the arm button set the LED.
OthersSetLed ==
  /\ \E s \in LedStates \ {LedBusOff} : LedSetState(s)
  /\ UNCHANGED <<drv, task, q_twai_tx, q_twai_rx, q_can_monitor, busError, made, bus>>

LedRuns ==
  /\ LedTask(Storing) \/ ErrorTimeOver
  /\ UNCHANGED <<drv, task, q_twai_tx, q_twai_rx, q_can_monitor, busError, made, bus>>

Next == \/ TwaiTask \/ FrameSent \/ BusOff \/ Recovered \/ FrameArrives
        \/ IsotpSends \/ OthersTake \/ OthersSetLed \/ LedRuns

\* twai_task has the highest priority of its core and its waits are bounded; the bus,
\* once quiet, ends the recovery.
Spec == Init /\ [][Next]_vars /\ WF_vars(TwaiTask) /\ WF_vars(Recovered)

-----------------------------------------------------------------------------
(* Properties *)

TypeOK ==
  /\ LedTypeOK
  /\ drv \in [state : {"running", "bus_off", "recovering", "stopped"},
              tx : Seq(1..MaxFrames), rx : 0..DrvCap, alert : BOOLEAN]
  /\ Len(drv.tx) <= DrvCap
  /\ task \in [pc : {"tx", "transmit", "override", "until", "rx", "alerts"},
               frame : 0..MaxFrames]
  /\ q_twai_tx \in Seq(1..MaxFrames) /\ Len(q_twai_tx) <= QTxCap
  /\ q_twai_rx \in 0..QRxCap /\ q_can_monitor \in 0..QMonCap
  /\ busError \in BOOLEAN /\ made \in 0..MaxFrames /\ bus \in Seq(1..MaxFrames)

InSeq(s) == {s[i] : i \in DOMAIN s}

\* Every frame isotp_task made is on the bus, or still held by exactly the next queue on
\* its way, in the order it was made, or the loss is known: EVT_BUS_ERROR is set or
\* the alert that sets it is pending (twai_task, both ways a frame is lost).
FramesAccounted ==
  LET onWay == bus \o drv.tx \o (IF task.frame = 0 THEN <<>> ELSE <<task.frame>>)
                   \o q_twai_tx
  IN  /\ \A i, j \in DOMAIN onWay : i < j => onWay[i] < onWay[j]
      /\ InSeq(onWay) = 1..made \/ busError \/ drv.alert

\* Bus-off ends in a driver that runs again ("Bus-off recovery", README_GITHUB.md:86).
BusRecovers == drv.state = "bus_off" ~> drv.state = "running"
=============================================================================
