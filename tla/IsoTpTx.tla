------------------------------ MODULE IsoTpTx ------------------------------
(***************************************************************************)
(* The transmit half of main/isotp_layer.c. A caller of isotp_send (UDS    *)
(* service, flash runner, Tester Present) takes tx_mutex, fills tx_state,  *)
(* sends the First Frame and waits on done_sem; isotp_task reacts to Flow  *)
(* Controls and pumps the Consecutive Frames out of the same tx_state,     *)
(* which no lock protects.                                                 *)
(*                                                                         *)
(* All these tasks share core 1 and isotp_task has the higher priority: a  *)
(* caller runs only while isotp_task is blocked (in xQueueReceive, or in   *)
(* send_cf on a full q_twai_tx), and isotp_task can come between any two   *)
(* of the caller's stores. One iteration of isotp_task is one action,      *)
(* split where it blocks. Times are ages, cut off where they stop mattering.*)
(***************************************************************************)
EXTENDS Integers, Sequences, FiniteSets

CONSTANTS
  Callers,      \* tasks that call isotp_send
  Ecus,         \* the ECUs: an ECU stands for its pair tx_id, rx_id
  Peer,         \* the ECU each caller talks to
  NoCaller,     \* tx_mutex is free
  NoEcu,        \* an id never set
  Lens,         \* payload lengths
  MaxCalls,     \* bound: calls of isotp_send
  FcParams,     \* <<BS, STmin>> of the Flow Controls, the raw bytes (BS 0: no limit)
  MaxEcuWaits,  \* bound: FC WAIT an ECU sends before each CTS
  QTxCap,       \* depth of q_twai_tx (32)
  QRxCap,       \* depth of q_twai_rx (32)
  SnMod,        \* sequence numbers are taken modulo this (16)
  NBs,          \* ISOTP_N_BS_MS
  FcWaitMax,    \* ISOTP_FC_WAIT_MAX (8); a WAIT that races with a caller counts two more,
                \* which wait_fc_count, a uint8_t, has room for
  SendTimeout   \* timeout_ms of the callers

FFData == 6     \* payload bytes of a First Frame
CFData == 7     \* payload bytes of a Consecutive Frame
U16    == 65536 \* length and offset are uint16_t

ASSUME TxConstants ==
  /\ Peer \in [Callers -> Ecus]
  /\ NoCaller \notin Callers /\ NoEcu \notin Ecus
  /\ Lens \subseteq 1..4095
  /\ MaxCalls \in Nat /\ MaxEcuWaits \in Nat
  /\ FcParams \subseteq (0..255) \X (0..255)
  /\ QTxCap \in Nat \ {0} /\ QRxCap \in Nat \ {0}
  /\ SnMod \in Nat \ {0, 1}
  /\ NBs \in Nat /\ FcWaitMax \in 0..253 /\ SendTimeout \in Nat

VARIABLES
  tx,       \* tx_state; sem is done_sem, fcAge and cfAge the time since
            \* wait_fc_start and last_cf_tx
  itask,    \* the Consecutive Frame isotp_task is blocked on in send_cf
  call,     \* the isotp_send that holds tx_mutex: m is its message, sent the bytes
            \* of it that went into q_twai_tx, in order
  waiting,  \* callers blocked on tx_mutex
  q_twai_tx,
  q_twai_rx,
  ecu,      \* the ECUs' own ISO-TP receivers
  hist      \* history: raced (isotp_task and a caller wrote tx_state at once), late (a
            \* Flow Control was taken for another message's), lost (a frame was)

vars == <<tx, itask, call, waiting, q_twai_tx, q_twai_rx, ecu, hist>>

-----------------------------------------------------------------------------
(* Data *)

StMinToMs(raw) == IF raw <= 127 THEN raw ELSE 1

NoCf == 128     \* an age above every STmin: last_cf_tx = 0

Frame(pci, e, m, sn, off, n, len) ==
  [pci |-> pci, to |-> e, m |-> m, sn |-> sn, off |-> off, n |-> n, len |-> len]

Enqueue(f) == Len(q_twai_tx) < QTxCap /\ q_twai_tx' = Append(q_twai_tx, f)
TxFull     == Len(q_twai_tx) = QTxCap

\* Bytes of message m of the current call that are out after f is enqueued.
SentAfter(f) ==
  IF call.who # NoCaller /\ f.m = call.m /\ f.to = Peer[call.who] /\ f.off = call.sent
  THEN f.off + f.n ELSE call.sent

\* The caller has set state = TX_WAIT_FC but not sent its First Frame.
Arming == call.pc \in {"tx_id", "rx_id", "buffer", "length", "rest", "start", "ff"}

-----------------------------------------------------------------------------
(* isotp_task: handle_fc and tx_pump on a value t of tx_state *)

GiveError(t) == [t EXCEPT !.state = "TX_ERROR", !.sem = TRUE]

FcForUs(t, fc) == t.state = "TX_WAIT_FC" /\ fc.from = t.rx_id

HandleFc(t, fc) ==
  IF ~FcForUs(t, fc) THEN t
  ELSE CASE fc.fs = "CTS"  -> [t EXCEPT !.bs = fc.bs, !.bs_counter = 0, !.cfAge = NoCf,
                                        !.stmin_ms = StMinToMs(fc.stmin),
                                        !.state = "TX_SENDING_CF"]
         [] fc.fs = "WAIT" -> LET w == [t EXCEPT !.wait_fc_count = @ + 1, !.fcAge = 0]
                              IN  IF w.wait_fc_count > FcWaitMax THEN GiveError(w) ELSE w
         [] OTHER          -> GiveError(t)

CheckNBs(t) == IF t.state = "TX_WAIT_FC" /\ t.fcAge > NBs THEN GiveError(t) ELSE t

CfDue(t) == t.state = "TX_SENDING_CF" /\ t.cfAge >= t.stmin_ms

Chunk(t) == LET remaining == (t.length - t.offset) % U16
            IN  IF remaining > CFData THEN CFData ELSE remaining

CfOf(t) == Frame("CF", t.tx_id, t.buffer, t.sn, t.offset, Chunk(t), 0)

NextSnMutant(sn) == sn + 1      \* mutant: no "& 0x0F"
NextSn(sn) == (sn + 1) % SnMod

BlockFullMutant(t) == t.bs # 0 /\ t.bs_counter > t.bs   \* mutant: off by one
BlockFull(t) == t.bs # 0 /\ t.bs_counter >= t.bs

\* What tx_pump stores after send_cf put a frame of n bytes in the queue.
AfterCf(t, n) ==
  LET s == [t EXCEPT !.offset = (@ + n) % U16, !.sn = NextSn(@),
                     !.bs_counter = (@ + 1) % 256, !.cfAge = 0]
  IN  IF s.offset >= s.length THEN [s EXCEPT !.state = "TX_DONE", !.sem = TRUE]
      ELSE IF BlockFull(s)
           THEN [s EXCEPT !.state = "TX_WAIT_FC", !.fcAge = 0]
           ELSE s

NotBlocked == [cf |-> FALSE, frame |-> Frame("CF", NoEcu, 0, 0, 0, 0, 0), call |-> 0]

IsotpBlocked == IF itask.cf THEN TxFull ELSE q_twai_rx = <<>>

\* tx_pump, entered with tx_state = t. The race recorded: isotp_task changed
\* tx_state while a caller was filling it.
Pump(t) ==
  /\ \/ /\ ~CfDue(t)
        /\ tx' = CheckNBs(t)
        /\ UNCHANGED <<itask, call, q_twai_tx>>
     \/ /\ CfDue(t) /\ Enqueue(CfOf(t))
        /\ tx' = AfterCf(t, Chunk(t))
        /\ call' = [call EXCEPT !.sent = SentAfter(CfOf(t))]
        /\ UNCHANGED itask
     \/ /\ CfDue(t) /\ TxFull
        /\ tx' = t
        /\ itask' = [cf |-> TRUE, frame |-> CfOf(t), call |-> call.m]
        /\ UNCHANGED <<call, q_twai_tx>>
  /\ UNCHANGED <<waiting, ecu>>

Raced == hist.raced \/ (Arming /\ tx' # tx)

\* xQueueReceive returned a Flow Control.
IterationFc ==
  /\ ~itask.cf /\ q_twai_rx # <<>>
  /\ q_twai_rx' = Tail(q_twai_rx)
  /\ LET fc == Head(q_twai_rx) IN
       /\ Pump(HandleFc(tx, fc))
       /\ hist' = [hist EXCEPT !.raced = Raced, !.late = @ \/ (FcForUs(tx, fc) /\ fc.m # call.m)]

\* xQueueReceive timed out.
IterationIdle ==
  /\ ~itask.cf /\ q_twai_rx = <<>>
  /\ Pump(tx)
  /\ hist' = [hist EXCEPT !.raced = Raced]
  /\ UNCHANGED q_twai_rx

\* send_cf, blocked so far, gets its frame into the queue: tx_pump goes on with
\* whatever tx_state holds by now.
CfUnblocked ==
  /\ itask.cf
  /\ Enqueue(itask.frame)
  /\ itask' = NotBlocked
  /\ tx' = AfterCf(tx, itask.frame.n)
  /\ call' = [call EXCEPT !.sent = SentAfter(itask.frame)]
  /\ hist' = [hist EXCEPT !.raced = @ \/ call.m # itask.call \/ call.pc # "wait"]
  /\ UNCHANGED <<waiting, q_twai_rx, ecu>>

\* send_cf gave up after 50 ms: the frame is tried again.
CfTimeout ==
  /\ itask.cf /\ TxFull
  /\ itask' = NotBlocked
  /\ UNCHANGED <<tx, call, waiting, q_twai_tx, q_twai_rx, ecu, hist>>

IsotpTask == IterationFc \/ IterationIdle \/ CfUnblocked \/ CfTimeout

-----------------------------------------------------------------------------
(* isotp_send, step by step *)

NoCall == [who |-> NoCaller, pc |-> "none", m |-> 0, len |-> 0, age |-> 0, sent |-> 0, ok |-> FALSE]

Begin(c) ==
  /\ IsotpBlocked
  /\ c # call.who /\ c \notin waiting
  /\ call.m + Cardinality(waiting) < MaxCalls
  /\ waiting' = waiting \cup {c}
  /\ UNCHANGED <<tx, itask, call, q_twai_tx, q_twai_rx, ecu, hist>>

Lock(c) ==
  /\ IsotpBlocked
  /\ c \in waiting /\ call.who = NoCaller
  /\ waiting' = waiting \ {c}
  /\ \E len \in Lens :
       call' = [who |-> c, pc |-> IF len <= 7 THEN "sf" ELSE "drain", m |-> call.m + 1,
                len |-> len, age |-> 0, sent |-> 0, ok |-> FALSE]
  /\ UNCHANGED <<tx, itask, q_twai_tx, q_twai_rx, ecu, hist>>

\* A step of the caller at pc: next is where it goes, t the tx_state it leaves.
Step(pc, next, t) ==
  /\ IsotpBlocked
  /\ call.pc = pc
  /\ call' = [call EXCEPT !.pc = next]
  /\ tx' = t
  /\ UNCHANGED <<itask, waiting, q_twai_tx, q_twai_rx, ecu, hist>>

DrainMutant == Step("drain", "arm", tx)   \* mutant: a stale done_sem is kept
Drain       == Step("drain", "arm", [tx EXCEPT !.sem = FALSE])
Arm         == Step("arm", "tx_id", [tx EXCEPT !.state = "TX_WAIT_FC"])
StoreTxId   == Step("tx_id", "rx_id", [tx EXCEPT !.tx_id = Peer[call.who]])
StoreRxId   == Step("rx_id", "buffer", [tx EXCEPT !.rx_id = Peer[call.who]])
StoreBuffer == Step("buffer", "length", [tx EXCEPT !.buffer = call.m])
StoreLength == Step("length", "rest", [tx EXCEPT !.length = call.len])
StoreRestMutant == Step("rest", "start", [tx EXCEPT !.sn = 1, !.bs = 0,  \* mutant: old offset
                        !.bs_counter = 0, !.stmin_ms = 0, !.wait_fc_count = 0])
StoreRest   == Step("rest", "start", [tx EXCEPT !.offset = FFData, !.sn = 1, !.bs = 0,
                        !.bs_counter = 0, !.stmin_ms = 0, !.wait_fc_count = 0])
StartWait   == Step("start", "ff", [tx EXCEPT !.fcAge = 0])

\* The caller's own frame: into the queue, or not within 50 ms.
SendFrame(pc, f, next, failed) ==
  /\ IsotpBlocked
  /\ call.pc = pc
  /\ \/ Enqueue(f) /\ call' = next /\ UNCHANGED tx
     \/ TxFull /\ call' = failed.call /\ tx' = failed.tx /\ UNCHANGED q_twai_tx
  /\ UNCHANGED <<itask, waiting, q_twai_rx, ecu, hist>>

SendSf ==
  SendFrame("sf", Frame("SF", Peer[call.who], call.m, 0, 0, call.len, call.len),
            [call EXCEPT !.pc = "return", !.ok = TRUE, !.sent = call.len],
            [call |-> [call EXCEPT !.pc = "return"], tx |-> tx])

SendFfMutant ==    \* mutant: tx_mutex is not given back when the First Frame fails
  SendFrame("ff", Frame("FF", Peer[call.who], call.m, 0, 0, FFData, call.len),
            [call EXCEPT !.pc = "wait", !.sent = FFData],
            [call |-> [call EXCEPT !.pc = "lost"], tx |-> [tx EXCEPT !.state = "TX_IDLE"]])
SendFf ==
  SendFrame("ff", Frame("FF", Peer[call.who], call.m, 0, 0, FFData, call.len),
            [call EXCEPT !.pc = "wait", !.sent = FFData],
            [call |-> [call EXCEPT !.pc = "return"], tx |-> [tx EXCEPT !.state = "TX_IDLE"]])

WaitTakenMutant ==   \* mutant: the semaphore alone means success
  /\ IsotpBlocked
  /\ call.pc = "wait" /\ tx.sem
  /\ call' = [call EXCEPT !.pc = "finish", !.ok = TRUE]
  /\ tx' = [tx EXCEPT !.sem = FALSE]
  /\ UNCHANGED <<itask, waiting, q_twai_tx, q_twai_rx, ecu, hist>>
WaitTaken ==
  /\ IsotpBlocked
  /\ call.pc = "wait" /\ tx.sem
  /\ call' = [call EXCEPT !.pc = "finish", !.ok = tx.state = "TX_DONE"]
  /\ tx' = [tx EXCEPT !.sem = FALSE]
  /\ UNCHANGED <<itask, waiting, q_twai_tx, q_twai_rx, ecu, hist>>

WaitTimeout ==
  /\ IsotpBlocked
  /\ call.pc = "wait" /\ ~tx.sem /\ call.age >= SendTimeout
  /\ call' = [call EXCEPT !.pc = "finish"]
  /\ UNCHANGED <<tx, itask, waiting, q_twai_tx, q_twai_rx, ecu, hist>>

Finish == Step("finish", "return", [tx EXCEPT !.state = "TX_IDLE"])

Return ==
  /\ IsotpBlocked
  /\ call.pc = "return"
  /\ call' = [NoCall EXCEPT !.m = call.m]
  /\ UNCHANGED <<tx, itask, waiting, q_twai_tx, q_twai_rx, ecu, hist>>

IsotpSend ==
  \/ Drain \/ Arm \/ StoreTxId \/ StoreRxId \/ StoreBuffer \/ StoreLength \/ StoreRest
  \/ StartWait \/ SendSf \/ SendFf \/ WaitTaken \/ WaitTimeout \/ Finish \/ Return

-----------------------------------------------------------------------------
(* The environment: twai_task and the bus, the ECUs, time *)

\* An ECU starts over with every First Frame, gives up on a wrong sequence number
\* and notes whether it joined bytes that do not belong together.
NoReception == [st |-> "idle", m |-> 0, len |-> 0, got |-> 0, sn |-> 0, owes |-> FALSE,
                waits |-> 0, left |-> 0, mixed |-> FALSE, bad |-> FALSE, overrun |-> FALSE]

EcuIdle(r) == [NoReception EXCEPT !.bad = r.bad, !.overrun = r.overrun]

EcuReceive(r, f) ==
  CASE f.pci = "FF" -> [EcuIdle(r) EXCEPT !.st = "recv", !.m = f.m, !.len = f.len, !.got = f.n,
                                          !.sn = 1, !.owes = TRUE]
    [] f.pci = "CF" /\ r.st = "recv" /\ f.sn = r.sn ->
         LET s == [r EXCEPT !.got = @ + f.n, !.sn = (@ + 1) % SnMod, !.overrun = @ \/ r.owes,
                            !.mixed = @ \/ f.m # r.m \/ f.off # r.got]
         IN  IF s.got >= s.len THEN [EcuIdle(s) EXCEPT !.bad = @ \/ s.mixed]
             ELSE IF s.left = 1 THEN [s EXCEPT !.left = 0, !.owes = TRUE, !.waits = 0]
             ELSE [s EXCEPT !.left = IF @ = 0 THEN 0 ELSE @ - 1]
    [] OTHER -> EcuIdle(r)

\* twai_task sends a frame, or twai_transmit fails and the frame is gone.
TwaiTransmit ==
  /\ q_twai_tx # <<>>
  /\ q_twai_tx' = Tail(q_twai_tx)
  /\ \/ LET f == Head(q_twai_tx) IN
          /\ ecu' = [e \in Ecus |-> IF e = f.to THEN EcuReceive(ecu[e], f) ELSE ecu[e]]
          /\ UNCHANGED hist
     \/ hist' = [hist EXCEPT !.lost = TRUE] /\ UNCHANGED ecu
  /\ UNCHANGED <<tx, itask, call, waiting, q_twai_rx>>

EcuSendFc(e) ==
  /\ ecu[e].owes
  /\ \E fs \in {"CTS", "WAIT", "OVFL"}, params \in FcParams :
       /\ fs = "WAIT" => ecu[e].waits < MaxEcuWaits
       /\ ecu' = [ecu EXCEPT ![e] =
                    CASE fs = "CTS"  -> [@ EXCEPT !.owes = FALSE, !.left = params[1]]
                      [] fs = "WAIT" -> [@ EXCEPT !.waits = @ + 1]
                      [] fs = "OVFL" -> EcuIdle(@)]
       /\ q_twai_rx' = IF Len(q_twai_rx) < QRxCap
                       THEN Append(q_twai_rx, [from |-> e, m |-> ecu[e].m, fs |-> fs,
                                               bs |-> IF fs = "CTS" THEN params[1] ELSE 0,
                                               stmin |-> IF fs = "CTS" THEN params[2] ELSE 0])
                       ELSE q_twai_rx
  /\ UNCHANGED <<tx, itask, call, waiting, q_twai_tx, hist>>

\* Time passes while isotp_task is blocked: its own work takes no time.
Older(age, limit) == IF age < limit THEN age + 1 ELSE age

Tick ==
  /\ IsotpBlocked
  /\ tx' = [tx EXCEPT !.fcAge = Older(@, NBs + 1), !.cfAge = Older(@, tx.stmin_ms)]
  /\ call' = [call EXCEPT !.age = IF call.pc = "wait" THEN Older(@, SendTimeout) ELSE @]
  /\ UNCHANGED <<itask, waiting, q_twai_tx, q_twai_rx, ecu, hist>>

-----------------------------------------------------------------------------

\* The first call comes later after the boot than N_Bs.
Init ==
  /\ tx = [state |-> "TX_IDLE", tx_id |-> NoEcu, rx_id |-> NoEcu, buffer |-> 0, length |-> 0,
           offset |-> 0, sn |-> 0, bs |-> 0, bs_counter |-> 0, stmin_ms |-> 0,
           wait_fc_count |-> 0, fcAge |-> NBs + 1, cfAge |-> NoCf, sem |-> FALSE]
  /\ itask = NotBlocked
  /\ call = NoCall
  /\ waiting = {}
  /\ q_twai_tx = <<>>
  /\ q_twai_rx = <<>>
  /\ ecu = [e \in Ecus |-> NoReception]
  /\ hist = [raced |-> FALSE, late |-> FALSE, lost |-> FALSE]

Next ==
  \/ IsotpTask
  \/ \E c \in Callers : Begin(c) \/ Lock(c)
  \/ IsotpSend
  \/ TwaiTransmit
  \/ \E e \in Ecus : EcuSendFc(e)
  \/ Tick

\* isotp_task runs whenever it is not blocked and its waits are bounded; time passes;
\* isotp_task blocks in every iteration, so the callers get to run.
Fairness ==
  /\ WF_vars(IsotpTask) /\ WF_vars(Tick) /\ WF_vars(IsotpSend)
  /\ \A c \in Callers : WF_vars(Lock(c))

Spec == Init /\ [][Next]_vars /\ Fairness

-----------------------------------------------------------------------------
(* Properties *)

\* The types of the state; the counters keep their widths.
TypeOK ==
  /\ tx \in [state : {"TX_IDLE", "TX_WAIT_FC", "TX_SENDING_CF", "TX_DONE", "TX_ERROR"},
             tx_id : Ecus \cup {NoEcu}, rx_id : Ecus \cup {NoEcu}, buffer : 0..MaxCalls,
             length : 0..4095, offset : 0..(U16 - 1), sn : 0..(SnMod - 1), bs : 0..255,
             bs_counter : 0..255, stmin_ms : 0..127, wait_fc_count : 0..255,
             fcAge : 0..(NBs + 1), cfAge : 0..NoCf, sem : BOOLEAN]
  /\ call.who \in Callers \cup {NoCaller} /\ call.m \in 0..MaxCalls
  /\ call.age \in 0..SendTimeout /\ call.sent \in 0..call.len
  /\ waiting \subseteq Callers
  /\ Len(q_twai_tx) <= QTxCap /\ Len(q_twai_rx) <= QRxCap
  /\ itask.cf \in BOOLEAN

\* isotp_send returns true only when every byte of the message has gone, in order,
\* into q_twai_tx - unless isotp_task wrote tx_state while a caller was filling it,
\* or finished for it a frame of the call before.
Succeeded == call.pc \in {"finish", "return"} /\ call.ok
SendTrueUnlessRaced == Succeeded => call.sent = call.len \/ hist.raced

\* An ECU never completes a message out of pieces of two, over every timeout, abort,
\* late Flow Control and retry - unless raced, or a frame was lost on the bus.
EcuIntegrity == \A e \in Ecus : ecu[e].bad => hist.raced \/ hist.lost

\* An ECU that asked for a pause (its block is full, or it has sent no Flow Control
\* yet) gets no Consecutive Frame - unless raced, a frame was lost, or a Flow
\* Control came so late that it was taken for the next message's.
EcuNotOverrun ==
  \A e \in Ecus : ecu[e].overrun => hist.raced \/ hist.lost \/ hist.late

\* done_sem speaks of the call that waits on it, and tx_state is idle between two
\* calls: nothing of an aborted or timed-out call leaks into the next one.
OwnResult ==
  ~hist.raced =>
    /\ call.pc = "wait" /\ tx.sem => tx.state \in {"TX_DONE", "TX_ERROR"}
    /\ call.pc = "wait" => tx.buffer = call.m
    /\ call.who = NoCaller => tx.state = "TX_IDLE"

\* Every call of isotp_send returns: whatever the ECU answers or not, with q_twai_tx
\* full, frames lost, and another task waiting for tx_mutex.
SendReturns == \A c \in Callers : c \in waiting \/ call.who = c ~> c \notin waiting /\ call.who # c

=============================================================================
