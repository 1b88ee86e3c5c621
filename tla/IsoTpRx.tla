------------------------------ MODULE IsoTpRx ------------------------------
(***************************************************************************)
(* The receive half of main/isotp_layer.c: twai_task puts the frames of    *)
(* the bus into q_twai_rx, isotp_task takes them one by one, reassembles   *)
(* one multi-frame message at a time in rx_state, answers every First      *)
(* Frame with a Flow Control and hands complete messages to q_isotp_rx.    *)
(* The Flow Controls wait in q_twai_tx until twai_task transmits them, and *)
(* an ECU may by then have given the message up, or be at the next one.    *)
(*                                                                         *)
(* isotp_task is the only writer of rx_state and has a higher priority     *)
(* than every consumer, so one iteration of its loop is one action here.   *)
(* Time is kept as the age of rx_state.last_rx, cut off just above N_Cr.   *)
(* The ECUs and the other nodes of the bus are the environment.            *)
(***************************************************************************)
EXTENDS Integers, Sequences

CONSTANTS
  Ecus,          \* the ECUs that answer the gateway
  ReqId,         \* CAN id each ECU listens to  (tx_id of the gateway)
  RespId,        \* CAN id each ECU answers on  (rx_id of the gateway)
  NoEcu,         \* "no multi-frame request in progress"
  MsgLens,       \* lengths of the messages each ECU sends
  MaxMsgs,       \* bound: messages per ECU
  MaxCalls,      \* bound: requests
  Noise,         \* frames other nodes of the bus may send (the filter accepts all)
  MaxNoise,      \* bound: how many of them
  MaxPayload,    \* ISOTP_MAX_PAYLOAD, also the largest 12-bit FF length (4095)
  SnMod,         \* sequence numbers are taken modulo this (16)
  FrameQueueCap, \* depth of q_twai_rx  (32)
  MsgQueueCap,   \* depth of q_isotp_rx (2)
  TxQueueCap,    \* Flow Controls in q_twai_tx, and the one send_fc_cts waits to put
                 \* there (32 and 1; the driver's queue of 32 behind it counts too)
  NCr            \* ISOTP_N_CR_MS, in model ticks

FFData == 6                            \* payload bytes of a First Frame
CFData == 7                            \* payload bytes of a Consecutive Frame
U16    == 65536                        \* the lengths are uint16_t

Frame == [id : Nat, pci : {"SF", "FF", "CF", "OTHER"}, len : 0..MaxPayload,
          sn : 0..(SnMod - 1), m : Nat, k : Nat]

ASSUME RxConstants ==
  /\ ReqId \in [Ecus -> Nat]
  /\ RespId \in [Ecus -> Nat]
  /\ NoEcu \notin Ecus
  /\ MaxPayload \in 13..(U16 - 1)
  /\ MsgLens \in [Ecus -> SUBSET (1..MaxPayload)]
  /\ Noise \subseteq Frame
  /\ SnMod \in Nat \ {0, 1}
  /\ MaxMsgs \in [Ecus -> Nat]
  /\ MaxCalls \in Nat
  /\ MaxNoise \in Nat
  /\ FrameQueueCap \in Nat \ {0}
  /\ MsgQueueCap \in Nat \ {0}
  /\ TxQueueCap \in Nat \ {0}
  /\ NCr \in Nat

\* Two nodes of the bus never send on the same CAN id, nor do two ECUs listen to one.
ASSUME DistinctIds ==
  /\ \A d, e \in Ecus : d # e => ReqId[d] # ReqId[e] /\ RespId[d] # RespId[e]
  /\ \A f \in Noise, e \in Ecus : f.id # RespId[e]

VARIABLES
  rx,         \* rx_state; buffer holds the frames copied, age is now - last_rx
  q_twai_rx,  \* frames from twai_task to isotp_task
  q_isotp_rx, \* reassembled messages for the UDS layer
  q_twai_tx,  \* Flow Controls on their way to the bus: where each goes, and which
              \* First Frame it answers (of, m); the requests among them are left out
  tx,         \* what handle_rx_frame reads of tx_state
  call,       \* the isotp_send that holds tx_mutex: its next store, its ECU, and how
              \* many there were
  ecu,        \* the ECUs' own ISO-TP senders
  noise,      \* frames of other nodes sent so far
  crossed     \* history: the ECUs released by a Flow Control that did not answer
              \* the First Frame they had just sent

vars == <<rx, q_twai_rx, q_isotp_rx, q_twai_tx, tx, call, ecu, noise, crossed>>

-----------------------------------------------------------------------------
(* Data *)

Part(e, pci, len, sn, k) ==
  [id |-> RespId[e], pci |-> pci, len |-> len, sn |-> sn, m |-> ecu[e].m, k |-> k]

\* Consecutive Frames of a message: FFData bytes go with the First Frame.
CfCount(len) == len \div CFData

Message(id, len, content) == [rx_id |-> id, length |-> len, content |-> content]

\* rem and to_copy of the CF handler, with the subtraction in uint16_t.
Remaining(r) == (r.expected_len - r.received_len) % U16
ToCopyMutant(r) == CFData   \* mutant: the last frame is copied whole
ToCopy(r)    == IF Remaining(r) > CFData THEN CFData ELSE Remaining(r)

\* The sequence number after sn.
NextSnMutant(sn) == sn + 1  \* mutant: no "& 0x0F"
NextSn(sn) == (sn + 1) % SnMod

\* A First Frame starts a reassembly, whatever was going on.
StartRxMutant(f) ==         \* mutant: a reassembly in progress keeps its length
  [active |-> TRUE, rx_id |-> f.id, expected_len |-> f.len, next_sn |-> 1,
   received_len |-> IF rx.active THEN rx.received_len ELSE FFData,
   buffer |-> <<f>>, age |-> 0]
StartRxMutant2(f) ==        \* mutant: ... or goes on
  IF rx.active THEN rx
  ELSE [active |-> TRUE, rx_id |-> f.id, expected_len |-> f.len, next_sn |-> 1,
        received_len |-> FFData, buffer |-> <<f>>, age |-> 0]
StartRx(f) ==
  [active |-> TRUE, rx_id |-> f.id, expected_len |-> f.len, next_sn |-> 1,
   received_len |-> FFData, buffer |-> <<f>>, age |-> 0]

\* The N_Cr test at the end of every iteration of isotp_task.
CheckNCrMutant(r) == r      \* mutant: no N_Cr timeout
CheckNCr(r) == IF r.active /\ r.age > NCr THEN [r EXCEPT !.active = FALSE] ELSE r

\* Where the Flow Control for a First Frame goes. (The subtraction is in uint32_t:
\* an id below 8 wraps, to an address that is no ECU's either.)
FcAddrMutant(id) == IF tx.state # "TX_IDLE" THEN tx.tx_id ELSE id - 8  \* mutant: any id
FcAddr(id) == IF tx.state # "TX_IDLE" /\ id = tx.rx_id THEN tx.tx_id ELSE id - 8

\* deliver_rx: a full queue loses the message (after a wait of 10 ms: waiting
\* is not taking the step yet).
Deliver(msg) ==
  q_isotp_rx' = IF Len(q_isotp_rx) < MsgQueueCap THEN Append(q_isotp_rx, msg)
                                                 ELSE q_isotp_rx

\* A frame on the bus: twai_task drops it when q_twai_rx is full.
OnBus(f) ==
  q_twai_rx' = IF Len(q_twai_rx) < FrameQueueCap THEN Append(q_twai_rx, f)
                                                 ELSE q_twai_rx

\* send_fc_cts: the Flow Control for First Frame f waits in q_twai_tx. A failed
\* enqueue is ignored, and any number of requests may be filling the queue.
SendFcCts(f) ==
  \/ UNCHANGED q_twai_tx
  \/ /\ Len(q_twai_tx) < TxQueueCap
     /\ q_twai_tx' = Append(q_twai_tx, [to |-> FcAddr(f.id), of |-> f.id, m |-> f.m])

-----------------------------------------------------------------------------
(* isotp_task *)

TakeFrame(pci) ==
  /\ q_twai_rx # <<>>
  /\ Head(q_twai_rx).pci = pci
  /\ q_twai_rx' = Tail(q_twai_rx)
  /\ UNCHANGED <<tx, call, noise>>

HandleSF ==
  /\ TakeFrame("SF")
  /\ LET f == Head(q_twai_rx) IN
       IF f.len \in 1..7 THEN Deliver(Message(f.id, f.len, <<f>>))
                         ELSE UNCHANGED q_isotp_rx
  /\ rx' = CheckNCr(rx)
  /\ UNCHANGED <<q_twai_tx, ecu, crossed>>

HandleFF ==
  /\ TakeFrame("FF")
  /\ rx' = StartRx(Head(q_twai_rx))
  /\ SendFcCts(Head(q_twai_rx))
  /\ UNCHANGED <<q_isotp_rx, ecu, crossed>>

\* The CF handler does not look at the frame's CAN id.
HandleCF ==
  /\ TakeFrame("CF")
  /\ LET f   == Head(q_twai_rx)
         got == rx.received_len + ToCopy(rx)
         all == Append(rx.buffer, f)
     IN
       \/ /\ ~rx.active
          /\ rx' = CheckNCr(rx)
          /\ UNCHANGED q_isotp_rx
       \/ /\ rx.active
          /\ f.sn # rx.next_sn
          /\ rx' = [rx EXCEPT !.active = FALSE]
          /\ UNCHANGED q_isotp_rx
       \/ /\ rx.active
          /\ f.sn = rx.next_sn
          /\ rx' = [rx EXCEPT !.received_len = got, !.buffer = all,
                              !.next_sn = NextSn(@), !.age = 0,
                              !.active = got < rx.expected_len]
          /\ IF got >= rx.expected_len
             THEN Deliver(Message(rx.rx_id, rx.expected_len, all))
             ELSE UNCHANGED q_isotp_rx
  /\ UNCHANGED <<q_twai_tx, ecu, crossed>>

\* A Flow Control (see IsoTpTx), an unknown PCI or a frame without data.
HandleOther ==
  /\ TakeFrame("OTHER")
  /\ rx' = CheckNCr(rx)
  /\ UNCHANGED <<q_isotp_rx, q_twai_tx, ecu, crossed>>

\* xQueueReceive timed out: the iteration only makes the N_Cr test.
IdleIteration ==
  /\ q_twai_rx = <<>>
  /\ rx' = CheckNCr(rx)
  /\ UNCHANGED <<q_twai_rx, q_isotp_rx, q_twai_tx, tx, call, ecu, noise, crossed>>

IsoTpTask == HandleSF \/ HandleFF \/ HandleCF \/ HandleOther \/ IdleIteration

-----------------------------------------------------------------------------
(* The tasks that call isotp_send, as far as tx_state is concerned *)

\* A request of at most 7 bytes leaves tx_state alone.
SendSingle ==
  /\ call.pc = "none" /\ call.n < MaxCalls
  /\ call' = [call EXCEPT !.n = @ + 1]
  /\ UNCHANGED <<rx, q_twai_rx, q_isotp_rx, q_twai_tx, tx, ecu, noise, crossed>>

\* A longer one makes its stores in the order of the source; isotp_task, of a
\* higher priority, can run between any two of them.
SendMulti(e) ==
  /\ call.pc = "none" /\ call.n < MaxCalls
  /\ call' = [pc |-> "store_tx_id", ecu |-> e, n |-> call.n + 1]
  /\ tx' = [tx EXCEPT !.state = "TX_BUSY"]
  /\ UNCHANGED <<rx, q_twai_rx, q_isotp_rx, q_twai_tx, ecu, noise, crossed>>

StoreTxId ==
  /\ call.pc = "store_tx_id"
  /\ call' = [call EXCEPT !.pc = "store_rx_id"]
  /\ tx' = [tx EXCEPT !.tx_id = ReqId[call.ecu]]
  /\ UNCHANGED <<rx, q_twai_rx, q_isotp_rx, q_twai_tx, ecu, noise, crossed>>

StoreRxId ==
  /\ call.pc = "store_rx_id"
  /\ call' = [call EXCEPT !.pc = "wait"]
  /\ tx' = [tx EXCEPT !.rx_id = RespId[call.ecu]]
  /\ UNCHANGED <<rx, q_twai_rx, q_isotp_rx, q_twai_tx, ecu, noise, crossed>>

\* isotp_send returns, by success, error or timeout: tx_id and rx_id keep their
\* values.
SendReturns ==
  /\ call.pc = "wait"
  /\ call' = [call EXCEPT !.pc = "none", !.ecu = NoEcu]
  /\ tx' = [tx EXCEPT !.state = "TX_IDLE"]
  /\ UNCHANGED <<rx, q_twai_rx, q_isotp_rx, q_twai_tx, ecu, noise, crossed>>

\* wait_uds_response or the drain of uds_request_blocking takes a message.
Consume ==
  /\ q_isotp_rx # <<>>
  /\ q_isotp_rx' = Tail(q_isotp_rx)
  /\ UNCHANGED <<rx, q_twai_rx, q_twai_tx, tx, call, ecu, noise, crossed>>

-----------------------------------------------------------------------------
(* The environment: ECUs, other nodes, time *)

\* The ECUs a Flow Control releases to send their Consecutive Frames: it names no
\* message, so that any ECU takes it that listens there and waits for one.
Released(fc) == {e \in Ecus : ReqId[e] = fc.to /\ ecu[e].st = "wait_fc"}

Answers(fc, e) == fc.of = RespId[e] /\ fc.m = ecu[e].m

\* twai_task transmits the next Flow Control; twai_transmit may fail, bus-off empty
\* the driver's queue, the bus lose it: then nobody is released.
TwaiTransmit ==
  /\ q_twai_tx # <<>>
  /\ q_twai_tx' = Tail(q_twai_tx)
  /\ LET fc == Head(q_twai_tx) IN
       \/ UNCHANGED <<ecu, crossed>>
       \/ /\ ecu' = [e \in Ecus |-> IF e \in Released(fc) THEN [ecu[e] EXCEPT !.st = "send"]
                                                        ELSE ecu[e]]
          /\ crossed' = crossed \cup {e \in Released(fc) : ~Answers(fc, e)}
  /\ UNCHANGED <<rx, q_twai_rx, q_isotp_rx, tx, call, noise>>

EcuStep(e, f, next) ==
  /\ OnBus(f)
  /\ ecu' = [ecu EXCEPT ![e] = next]
  /\ UNCHANGED <<rx, q_isotp_rx, q_twai_tx, tx, call, noise, crossed>>

EcuSendSF(e) ==
  /\ ecu[e].st = "idle" /\ ecu[e].m < MaxMsgs[e]
  /\ \E len \in {l \in MsgLens[e] : l <= 7} :
       EcuStep(e, Part(e, "SF", len, 0, 0), [ecu[e] EXCEPT !.m = @ + 1])

EcuSendFF(e) ==
  /\ ecu[e].st = "idle" /\ ecu[e].m < MaxMsgs[e]
  /\ \E len \in {l \in MsgLens[e] : l > 7} :
       EcuStep(e, Part(e, "FF", len, 0, 0),
               [ecu[e] EXCEPT !.st = "wait_fc", !.len = len, !.k = 1])

EcuSendCF(e) ==
  /\ ecu[e].st = "send"
  /\ EcuStep(e, Part(e, "CF", ecu[e].len, ecu[e].k % SnMod, ecu[e].k),
             IF ecu[e].k < CfCount(ecu[e].len)
             THEN [ecu[e] EXCEPT !.k = @ + 1]
             ELSE [ecu[e] EXCEPT !.st = "idle", !.m = @ + 1])

\* The ECU gives its message up: no Flow Control came, as far as it knows, or it
\* stops short. Its First Frame may still be in q_twai_rx (isotp_task can block 50 ms
\* on each frame before it), and the Flow Control still in q_twai_tx.
EcuGivesUp(e) ==
  /\ ecu[e].st \in {"wait_fc", "send"}
  /\ ecu' = [ecu EXCEPT ![e].st = "idle", ![e].m = @ + 1]
  /\ UNCHANGED <<rx, q_twai_rx, q_isotp_rx, q_twai_tx, tx, call, noise, crossed>>

OtherNode ==
  /\ noise < MaxNoise
  /\ noise' = noise + 1
  /\ \E f \in Noise : OnBus(f)
  /\ UNCHANGED <<rx, q_isotp_rx, q_twai_tx, tx, call, ecu, crossed>>

Tick ==
  /\ rx.active /\ rx.age <= NCr
  /\ rx' = [rx EXCEPT !.age = @ + 1]
  /\ UNCHANGED <<q_twai_rx, q_isotp_rx, q_twai_tx, tx, call, ecu, noise, crossed>>

-----------------------------------------------------------------------------

Init ==
  /\ rx = [active |-> FALSE, rx_id |-> 0, expected_len |-> 0, received_len |-> 0,
           next_sn |-> 0, buffer |-> <<>>, age |-> 0]
  /\ q_twai_rx = <<>>
  /\ q_isotp_rx = <<>>
  /\ q_twai_tx = <<>>
  /\ tx = [state |-> "TX_IDLE", tx_id |-> 0, rx_id |-> 0]
  /\ call = [pc |-> "none", ecu |-> NoEcu, n |-> 0]
  /\ ecu = [e \in Ecus |-> [st |-> "idle", m |-> 0, len |-> 0, k |-> 0]]
  /\ noise = 0
  /\ crossed = {}

Next ==
  \/ IsoTpTask
  \/ SendSingle
  \/ \E e \in Ecus : SendMulti(e)
  \/ StoreTxId \/ StoreRxId \/ SendReturns
  \/ Consume
  \/ \E e \in Ecus : EcuSendSF(e) \/ EcuSendFF(e) \/ EcuSendCF(e) \/ EcuGivesUp(e)
  \/ TwaiTransmit
  \/ OtherNode
  \/ Tick

\* isotp_task is the highest-priority task but for twai_task, so it always gets
\* to run; time passes.
Fairness == WF_vars(IsoTpTask) /\ WF_vars(Tick)

Spec == Init /\ [][Next]_vars /\ Fairness

-----------------------------------------------------------------------------
(* Properties *)

Reassembly == [active : BOOLEAN, rx_id : Nat, expected_len : 0..MaxPayload,
               received_len : 0..MaxPayload, next_sn : 0..(SnMod - 1),
               buffer : Seq(Frame), age : 0..(NCr + 1)]

FlowControl == [to : Int, of : Nat, m : Nat]

Delivered == [rx_id : Nat, length : 0..MaxPayload, content : Seq(Frame)]

\* The types of the state; next_sn stays a 4-bit number.
TypeOK ==
  /\ rx \in Reassembly
  /\ q_twai_rx \in Seq(Frame) /\ Len(q_twai_rx) <= FrameQueueCap
  /\ q_isotp_rx \in Seq(Delivered) /\ Len(q_isotp_rx) <= MsgQueueCap
  /\ q_twai_tx \in Seq(FlowControl) /\ Len(q_twai_tx) <= TxQueueCap
  /\ tx \in [state : {"TX_IDLE", "TX_BUSY"}, tx_id : Nat, rx_id : Nat]
  /\ call \in [pc : {"none", "store_tx_id", "store_rx_id", "wait"}, ecu : Ecus \cup {NoEcu},
                n : 0..MaxCalls]
  /\ ecu \in [Ecus -> [st : {"idle", "wait_fc", "send"}, m : Nat,
                       len : 0..MaxPayload, k : Nat]]
  /\ noise \in 0..MaxNoise
  /\ crossed \subseteq Ecus

\* The memcpy of the next Consecutive Frame stays inside rx_state.buffer, for
\* every announced length (0 to 6 included, where rem wraps) and whatever frames
\* came before.
CopyInBounds == rx.active => rx.received_len + ToCopy(rx) <= MaxPayload

\* buffer is never cleared: a message handed over must consist of frames received
\* since its First Frame, in sequence, which cover its length, the last of them
\* needed. So no byte of an earlier message is ever delivered again.
CoversLength(msg) ==
  LET c == msg.content
      bytes(n) == FFData + CFData * (n - 1)
  IN  /\ c[1].pci = "FF" /\ msg.length = c[1].len /\ msg.rx_id = c[1].id
      /\ \A j \in 2..Len(c) : c[j].pci = "CF" /\ c[j].sn = (j - 1) % SnMod
      /\ bytes(Len(c)) >= msg.length
      /\ Len(c) > 2 => bytes(Len(c) - 1) < msg.length

NoStaleBytes ==
  \A i \in DOMAIN q_isotp_rx :
    \/ q_isotp_rx[i].content[1].pci = "SF"
    \/ CoversLength(q_isotp_rx[i])

\* A multi-frame message of an ECU whose frames all came from that ECU is one
\* message of it, whole: no loss (full queues, lost Flow Controls, abandoned
\* messages) makes the layer join pieces of two messages - unless a Flow Control
\* released the ECU for another message than it was meant for: one that came late,
\* or went to the wrong ECU between the stores of isotp_send.
WholeUnlessForeign ==
  \A i \in DOMAIN q_isotp_rx, e \in Ecus \ crossed :
    LET msg == q_isotp_rx[i]
        c   == msg.content
    IN  c[1].pci = "FF" /\ (\A j \in DOMAIN c : c[j].id = RespId[e])
        => /\ Len(c) = 1 + CfCount(msg.length)
           /\ \A j \in DOMAIN c : c[j].m = c[1].m /\ c[j].k = j - 1

\* The Flow Control goes to the ECU whose First Frame it answers when their ids are
\* 8 apart or a multi-frame request to it is in progress - except between the
\* stores of tx_id and rx_id by isotp_send.
FcToPeer ==
  [][\A e \in Ecus :
       /\ HandleFF /\ Head(q_twai_rx).id = RespId[e]
       /\ RespId[e] = ReqId[e] + 8 \/ (call.pc = "wait" /\ call.ecu = e)
       /\ call.pc # "store_rx_id"
       => FcAddr(RespId[e]) = ReqId[e]]_vars

\* No reassembly stays open for ever: it is completed, refused or timed out, also
\* when an ECU falls silent, frames are lost or other nodes send into it.
ReassemblyEnds == rx.active ~> ~rx.active

=============================================================================
