--------------------------- MODULE IsoTpRxProofs ---------------------------
(***************************************************************************)
(* Theorems about IsoTpRx, for every value of its constants: the types,    *)
(* CopyInBounds, NoStaleBytes, FcToPeer and WholeUnlessForeign.            *)
(*                                                                         *)
(* The first four follow from one inductive invariant: what rx_state says  *)
(* of the frames copied while a reassembly is active (Shape), and which    *)
(* ECU's ids tx_state holds at each store of isotp_send (Pairs). For the   *)
(* last, a second one (Apart) follows the frames of each ECU from the ECU  *)
(* through q_twai_rx to the copies, and the Flow Controls back: the frames *)
(* stand in order, no Consecutive Frame comes after a First Frame, and a   *)
(* Flow Control for an ECU's present message finds nothing else of it.     *)
(***************************************************************************)
EXTENDS IsoTpRx, TLAPS

\* A reassembly in progress: a First Frame, then Consecutive Frames in sequence,
\* all of them counted in received_len and none of them the last one needed.
Shape(r) ==
  r.active =>
    /\ r.buffer # <<>>
    /\ r.buffer[1].pci = "FF"
    /\ r.buffer[1].len = r.expected_len
    /\ r.buffer[1].id = r.rx_id
    /\ \A j \in 2..Len(r.buffer) : r.buffer[j].pci = "CF" /\ r.buffer[j].sn = (j - 1) % SnMod
    /\ r.next_sn = Len(r.buffer) % SnMod
    /\ r.received_len = FFData + CFData * (Len(r.buffer) - 1)
    /\ Len(r.buffer) > 1 => r.received_len < r.expected_len

\* tx_id and rx_id are those of one ECU, or still zero, but for one store.
Pairs ==
  /\ call.pc # "none" => call.ecu \in Ecus /\ tx.state = "TX_BUSY"
  /\ call.pc \in {"none", "store_tx_id"} =>
       \/ tx.tx_id = 0 /\ tx.rx_id = 0
       \/ \E e \in Ecus : tx.tx_id = ReqId[e] /\ tx.rx_id = RespId[e]
  /\ call.pc = "store_rx_id" => tx.tx_id = ReqId[call.ecu]
  /\ call.pc = "wait" =>
       tx.tx_id = ReqId[call.ecu] /\ tx.rx_id = RespId[call.ecu]

Inv == TypeOK /\ Shape(rx) /\ NoStaleBytes /\ Pairs

-----------------------------------------------------------------------------
(* Lemmas about the helpers *)

\* The numbers among the constants.
LEMMA Sizes ==
  /\ MaxPayload \in Nat /\ MaxPayload >= 13 /\ MaxPayload < 65536
  /\ SnMod \in Nat /\ SnMod > 1
  /\ NCr \in Nat
BY RxConstants DEF U16

\* Quotient and rest.
LEMMA DivRest ==
  ASSUME NEW n \in Nat, n > 1, NEW x \in Nat
  PROVE  \E q \in Nat, r \in 0..(n - 1) : x = n * q + r
<1> DEFINE q == x \div n
           r == x % n
<1>1. q \in Nat /\ r \in 0..(n - 1)
  OBVIOUS
<1>2. x = n * q + r
  OBVIOUS
<1> HIDE DEF q, r
<1> QED BY <1>1, <1>2

\* The rest is the only number below n that fits.
LEMMA RestUnique ==
  ASSUME NEW n \in Nat, n > 1, NEW q \in Nat, NEW r \in 0..(n - 1)
  PROVE  (n * q + r) % n = r
OBVIOUS

\* Counting modulo n and counting, then taking the rest, agree.
LEMMA ModSucc ==
  ASSUME NEW x \in Nat
  PROVE  ((x % SnMod) + 1) % SnMod = (x + 1) % SnMod
<1> DEFINE n == SnMod
<1>0. n \in Nat /\ n > 1
  BY Sizes
<1> HIDE DEF n
<1> SUFFICES ((x % n) + 1) % n = (x + 1) % n
  BY DEF n
<1> USE <1>0
<1>1. PICK q \in Nat, r \in 0..(n - 1) : x = n * q + r
  BY DivRest
<1>2. x % n = r
  BY <1>1, RestUnique
<1>3. CASE r < n - 1
  <2>1. r + 1 \in 0..(n - 1)
    BY <1>3
  <2>2. (r + 1) % n = r + 1
    BY <2>1
  <2>3. x + 1 = n * q + (r + 1)
    BY <1>1
  <2>4. (n * q + (r + 1)) % n = r + 1
    BY <2>1, RestUnique
  <2> QED BY <1>2, <2>2, <2>3, <2>4
<1>4. CASE r = n - 1
  <2>1. (r + 1) % n = 0
    BY <1>4
  <2>2. x + 1 = n * (q + 1) + 0 
    BY <1>1, <1>4
  <2>3. (n * (q + 1) + 0) % n = 0
    BY RestUnique
  <2> QED BY <1>2, <2>1, <2>2, <2>3
<1> QED BY <1>3, <1>4

\* A frame on the bus keeps q_twai_rx a bounded queue of frames.
LEMMA OnBusType ==
  ASSUME TypeOK, NEW f \in Frame, OnBus(f)
  PROVE  q_twai_rx' \in Seq(Frame) /\ Len(q_twai_rx') <= FrameQueueCap
BY RxConstants DEF OnBus, TypeOK

\* Delivering a message keeps q_isotp_rx a bounded queue of good messages.
LEMMA DeliverKeeps ==
  ASSUME TypeOK, NoStaleBytes, NEW msg \in Delivered, Deliver(msg),
         msg.content[1].pci = "SF" \/ CoversLength(msg)
  PROVE  /\ q_isotp_rx' \in Seq(Delivered) /\ Len(q_isotp_rx') <= MsgQueueCap
         /\ NoStaleBytes'
<1>1. q_isotp_rx' \in Seq(Delivered) /\ Len(q_isotp_rx') <= MsgQueueCap
  BY RxConstants DEF Deliver, TypeOK
<1>2. ASSUME NEW i \in DOMAIN q_isotp_rx'
      PROVE  q_isotp_rx'[i].content[1].pci = "SF" \/ CoversLength(q_isotp_rx'[i])
  <2>1. \/ i \in DOMAIN q_isotp_rx /\ q_isotp_rx'[i] = q_isotp_rx[i]
        \/ q_isotp_rx'[i] = msg
    BY <1>2 DEF Deliver, TypeOK
  <2> QED BY <2>1 DEF NoStaleBytes
<1> QED BY <1>1, <1>2 DEF NoStaleBytes

\* Taking a message from q_isotp_rx keeps the others good.
LEMMA ConsumeKeeps ==
  ASSUME TypeOK, NoStaleBytes, Consume
  PROVE  /\ q_isotp_rx' \in Seq(Delivered) /\ Len(q_isotp_rx') <= MsgQueueCap
         /\ NoStaleBytes'
<1>1. q_isotp_rx' \in Seq(Delivered) /\ Len(q_isotp_rx') <= MsgQueueCap
  BY RxConstants DEF Consume, TypeOK
<1>2. ASSUME NEW i \in DOMAIN q_isotp_rx'
      PROVE  i + 1 \in DOMAIN q_isotp_rx /\ q_isotp_rx'[i] = q_isotp_rx[i + 1]
  BY <1>2 DEF Consume, TypeOK
<1> QED BY <1>1, <1>2 DEF NoStaleBytes

\* The N_Cr test only ever ends a reassembly.
LEMMA CheckNCrKeeps ==
  ASSUME NEW r \in Reassembly, Shape(r)
  PROVE  CheckNCr(r) \in Reassembly /\ Shape(CheckNCr(r))
BY DEF CheckNCr, Reassembly, Shape

\* Bytes the next Consecutive Frame adds, in an active reassembly: seven while more
\* are missing; seven as well when the announced length was below six (rem wraps).
LEMMA ToCopyValue ==
  ASSUME NEW r \in Reassembly, Shape(r), r.active
  PROVE  /\ ToCopy(r) \in 0..CFData
         /\ r.expected_len >= r.received_len =>
              ToCopy(r) = IF r.expected_len - r.received_len > CFData
                          THEN CFData ELSE r.expected_len - r.received_len
         /\ r.expected_len < r.received_len => ToCopy(r) = CFData /\ r.received_len = FFData
<1>1. MaxPayload < 65536 /\ MaxPayload \in Nat
  BY Sizes
<1>2. Len(r.buffer) \in Nat \ {0} /\ r.received_len \in 0..MaxPayload /\ r.expected_len \in 0..MaxPayload
  BY DEF Reassembly, Shape
<1>3. r.expected_len < r.received_len => r.received_len = FFData
  BY <1>2 DEF Shape, FFData, CFData
<1>4. CASE r.expected_len >= r.received_len
  <2>1. Remaining(r) = r.expected_len - r.received_len
    BY <1>1, <1>2, <1>4 DEF Remaining, U16
  <2> QED BY <2>1, <1>2, <1>4 DEF ToCopy, CFData
<1>5. CASE r.expected_len < r.received_len
  <2>1. Remaining(r) = 65536 + r.expected_len - 6
    BY <1>1, <1>2, <1>3, <1>5 DEF Remaining, U16, FFData
  <2> QED BY <2>1, <1>2, <1>3, <1>5 DEF ToCopy, CFData
<1> QED BY <1>2, <1>4, <1>5

\* The copy stays inside the buffer in every reassembly in progress.
LEMMA CopyFits ==
  ASSUME NEW r \in Reassembly, Shape(r), r.active
  PROVE  r.received_len + ToCopy(r) <= MaxPayload
<1>1. /\ r.received_len \in 0..MaxPayload /\ r.expected_len \in 0..MaxPayload
      /\ ToCopy(r) \in Int
  BY ToCopyValue DEF Reassembly, CFData
<1>2. CASE r.expected_len >= r.received_len
  BY <1>1, <1>2, ToCopyValue, Sizes DEF CFData
<1>3. CASE r.expected_len < r.received_len
  BY <1>1, <1>3, ToCopyValue, Sizes DEF CFData, FFData
<1> QED BY <1>1, <1>2, <1>3, Sizes

-----------------------------------------------------------------------------
(* The invariant *)

LEMMA InitInv == Init => Inv
<1> SUFFICES ASSUME Init PROVE Inv
  OBVIOUS
<1> USE DEF Init
<1>1. rx \in Reassembly /\ Shape(rx)
  BY Sizes DEF Reassembly, Shape
<1>2. TypeOK
  <2>1. q_twai_rx \in Seq(Frame) /\ q_isotp_rx \in Seq(Delivered)
    OBVIOUS
  <2>2. ecu \in [Ecus -> [st : {"idle", "wait_fc", "send"}, m : Nat, len : 0..MaxPayload, k : Nat]]
    BY Sizes
  <2>3. Len(q_twai_rx) <= FrameQueueCap /\ Len(q_isotp_rx) <= MsgQueueCap
        /\ q_twai_tx \in Seq(FlowControl) /\ Len(q_twai_tx) <= TxQueueCap
        /\ noise \in 0..MaxNoise /\ 0 \in 0..MaxCalls
    BY RxConstants
  <2> QED BY <1>1, <2>1, <2>2, <2>3 DEF TypeOK
<1>3. NoStaleBytes /\ Pairs
  BY DEF NoStaleBytes, Pairs
<1> QED BY <1>1, <1>2, <1>3 DEF Inv

\* The frame isotp_task takes, and the queue it leaves.
LEMMA TakeFrameType ==
  ASSUME TypeOK, NEW pci, TakeFrame(pci)
  PROVE  /\ Head(q_twai_rx) \in Frame /\ Head(q_twai_rx).pci = pci
         /\ q_twai_rx' \in Seq(Frame) /\ Len(q_twai_rx') <= FrameQueueCap
         /\ UNCHANGED <<tx, call, noise>>
<1>1. q_twai_rx \in Seq(Frame) /\ q_twai_rx # <<>> /\ Len(q_twai_rx) <= FrameQueueCap
  BY DEF TypeOK, TakeFrame
<1>2. FrameQueueCap \in Nat
  BY RxConstants
<1> QED BY <1>1, <1>2 DEF TakeFrame

\* What is left to show of an iteration of isotp_task once its frame is taken.
LEMMA TaskFrame ==
  ASSUME Inv, NEW pci, TakeFrame(pci),
         rx' \in Reassembly /\ Shape(rx'),
         q_isotp_rx' \in Seq(Delivered) /\ Len(q_isotp_rx') <= MsgQueueCap,
         NoStaleBytes',
         q_twai_tx' \in Seq(FlowControl) /\ Len(q_twai_tx') <= TxQueueCap,
         UNCHANGED <<ecu, crossed>>
  PROVE  Inv'
<1>1. TypeOK'
  BY TakeFrameType DEF Inv, TypeOK
<1>2. Pairs'
  BY TakeFrameType DEF Inv, Pairs
<1> QED BY <1>1, <1>2 DEF Inv, Shape

LEMMA HandleSFInv == Inv /\ HandleSF => Inv'
<1> SUFFICES ASSUME Inv, HandleSF PROVE Inv'
  OBVIOUS
<1> DEFINE f == Head(q_twai_rx)
<1>1. TakeFrame("SF") /\ f \in Frame /\ f.pci = "SF"
  BY TakeFrameType DEF HandleSF, Inv
<1>2. rx' \in Reassembly /\ Shape(rx')
  BY CheckNCrKeeps DEF HandleSF, Inv, TypeOK
<1>3. /\ q_isotp_rx' \in Seq(Delivered) /\ Len(q_isotp_rx') <= MsgQueueCap
      /\ NoStaleBytes'
  <2>1. CASE f.len \in 1..7
    <3>1. /\ Message(f.id, f.len, <<f>>) \in Delivered
          /\ Message(f.id, f.len, <<f>>).content[1].pci = "SF"
      BY <1>1 DEF Message, Delivered, Frame
    <3>2. Deliver(Message(f.id, f.len, <<f>>))
      BY <2>1 DEF HandleSF
    <3> HIDE DEF f
    <3> QED BY <3>1, <3>2, DeliverKeeps DEF Inv
  <2>2. CASE f.len \notin 1..7
    BY <2>2 DEF HandleSF, Inv, TypeOK, NoStaleBytes
  <2> QED BY <2>1, <2>2
<1>4. UNCHANGED <<q_twai_tx, ecu, crossed>>
  BY DEF HandleSF
<1> QED BY <1>1, <1>2, <1>3, <1>4, TaskFrame DEF Inv, TypeOK

\* The Flow Control for a First Frame keeps q_twai_tx a bounded queue of them.
LEMMA SendFcCtsType ==
  ASSUME TypeOK, NEW f \in Frame, SendFcCts(f)
  PROVE  q_twai_tx' \in Seq(FlowControl) /\ Len(q_twai_tx') <= TxQueueCap
<1>1. PICK fc : fc = [to |-> FcAddr(f.id), of |-> f.id, m |-> f.m]
  OBVIOUS
<1>2. fc \in FlowControl
  <2>1. FcAddr(f.id) \in Int /\ f.id \in Nat /\ f.m \in Nat
    BY DEF TypeOK, FcAddr, Frame
  <2> QED BY <1>1, <2>1 DEF FlowControl
<1>3. /\ q_twai_tx \in Seq(FlowControl) /\ Len(q_twai_tx) <= TxQueueCap /\ TxQueueCap \in Nat
      /\ q_twai_tx' = q_twai_tx \/ (Len(q_twai_tx) < TxQueueCap /\ q_twai_tx' = Append(q_twai_tx, fc))
  BY <1>1, RxConstants DEF SendFcCts, TypeOK
<1> QED BY <1>2, <1>3

LEMMA HandleFFInv == Inv /\ HandleFF => Inv'
<1> SUFFICES ASSUME Inv, HandleFF PROVE Inv'
  OBVIOUS
<1> DEFINE f == Head(q_twai_rx)
<1>1. TakeFrame("FF") /\ f \in Frame /\ f.pci = "FF"
  BY TakeFrameType DEF HandleFF, Inv
<1>2. rx' = StartRx(f) /\ UNCHANGED <<q_isotp_rx, ecu, crossed>>
  BY DEF HandleFF
<1>3. rx' \in Reassembly /\ Shape(rx')
  <2> HIDE DEF f
  <2>1. f.len \in 0..MaxPayload /\ f.id \in Nat
    BY <1>1 DEF Frame
  <2>2. rx' \in Reassembly
    BY <1>1, <1>2, <2>1, Sizes DEF StartRx, Reassembly, FFData
  <2>3. 1 % SnMod = 1
    BY Sizes
  <2> QED BY <1>1, <1>2, <2>2, <2>3 DEF StartRx, Shape, FFData, CFData
<1>4. /\ q_isotp_rx' \in Seq(Delivered) /\ Len(q_isotp_rx') <= MsgQueueCap
      /\ NoStaleBytes'
  BY <1>2 DEF Inv, TypeOK, NoStaleBytes
<1>5. q_twai_tx' \in Seq(FlowControl) /\ Len(q_twai_tx') <= TxQueueCap
  <2>1. SendFcCts(f)
    BY DEF HandleFF
  <2> HIDE DEF f
  <2> QED BY <1>1, <2>1, SendFcCtsType DEF Inv
<1> QED BY <1>1, <1>2, <1>3, <1>4, <1>5, TaskFrame

LEMMA HandleCFInv == Inv /\ HandleCF => Inv'
<1> SUFFICES ASSUME Inv, HandleCF PROVE Inv'
  OBVIOUS
<1> DEFINE f   == Head(q_twai_rx)
           got == rx.received_len + ToCopy(rx)
           all == Append(rx.buffer, f)
<1>1. TakeFrame("CF") /\ f \in Frame /\ f.pci = "CF"
  BY TakeFrameType DEF HandleCF, Inv
<1>2. UNCHANGED <<q_twai_tx, ecu, crossed>>
  BY DEF HandleCF
<1>3. CASE ~rx.active
  <2>1. rx' \in Reassembly /\ Shape(rx') /\ UNCHANGED q_isotp_rx
    BY <1>3, CheckNCrKeeps DEF HandleCF, Inv, TypeOK
  <2> QED BY <1>1, <1>2, <2>1, TaskFrame DEF Inv, TypeOK, NoStaleBytes
<1>4. CASE rx.active /\ f.sn # rx.next_sn
  <2>1. rx' = [rx EXCEPT !.active = FALSE] /\ UNCHANGED q_isotp_rx
    BY <1>4 DEF HandleCF
  <2>2. rx' \in Reassembly /\ Shape(rx')
    BY <2>1 DEF Inv, TypeOK, Reassembly, Shape
  <2> QED BY <1>1, <1>2, <2>1, <2>2, TaskFrame DEF Inv, TypeOK, NoStaleBytes
<1>5. CASE rx.active /\ f.sn = rx.next_sn
  <2>1. /\ rx' = [rx EXCEPT !.received_len = got, !.buffer = all, !.next_sn = NextSn(@),
                            !.age = 0, !.active = got < rx.expected_len]
        /\ IF got >= rx.expected_len THEN Deliver(Message(rx.rx_id, rx.expected_len, all))
                                     ELSE UNCHANGED q_isotp_rx
    BY <1>5 DEF HandleCF
  <2>2. rx \in Reassembly /\ Shape(rx)
    BY DEF Inv, TypeOK
  <2>3. /\ got \in 0..MaxPayload /\ got >= rx.received_len /\ ToCopy(rx) \in 0..CFData
        /\ got < rx.expected_len => got = rx.received_len + CFData
        /\ got >= rx.expected_len /\ Len(rx.buffer) > 1 => rx.received_len < rx.expected_len
        /\ got >= rx.expected_len =>
             rx.received_len + CFData >= rx.expected_len
    <3>1. rx.received_len \in 0..MaxPayload /\ rx.expected_len \in 0..MaxPayload
      BY <2>2 DEF Reassembly
    <3>2. got <= MaxPayload /\ ToCopy(rx) \in 0..CFData
      BY <1>5, <2>2, CopyFits, ToCopyValue
    <3>3. Len(rx.buffer) > 1 => rx.received_len < rx.expected_len
      BY <1>5, <2>2 DEF Shape
    <3> QED BY <1>5, <2>2, <3>1, <3>2, <3>3, ToCopyValue, Sizes DEF CFData
  <2> HIDE DEF got, f
  <2>4. /\ all \in Seq(Frame) /\ Len(all) = Len(rx.buffer) + 1 /\ Len(all) > 1
        /\ Len(rx.buffer) \in Nat
        /\ all[1].pci = "FF" /\ all[1].len = rx.expected_len /\ all[1].id = rx.rx_id
    BY <1>1, <1>5, <2>2 DEF Reassembly, Shape
  <2>5. \A j \in 2..Len(all) : all[j].pci = "CF" /\ all[j].sn = (j - 1) % SnMod
    <3> SUFFICES ASSUME NEW j \in 2..Len(all)
                 PROVE  all[j].pci = "CF" /\ all[j].sn = (j - 1) % SnMod
      OBVIOUS
    <3>1. CASE j = Len(all)
      BY <1>1, <1>5, <2>2, <2>4, <3>1 DEF Reassembly, Shape
    <3>2. CASE j # Len(all)
      BY <1>5, <2>2, <2>4, <3>2 DEF Reassembly, Shape
    <3> QED BY <3>1, <3>2
  <2>6. rx.received_len = FFData + CFData * (Len(rx.buffer) - 1)
    BY <1>5, <2>2 DEF Shape
  <2>7. rx' \in Reassembly
    <3>1. NextSn(rx.next_sn) \in 0..(SnMod - 1)
      BY <2>2, Sizes DEF NextSn, Reassembly
    <3>2. 0 \in 0..(NCr + 1)
      BY Sizes
    <3> DEFINE b == got < rx.expected_len
               n == NextSn(rx.next_sn)
    <3>3. b \in BOOLEAN
      OBVIOUS
    <3>4. rx' = [rx EXCEPT !.received_len = got, !.buffer = all, !.next_sn = n,
                           !.age = 0, !.active = b]
      BY <2>1, <2>2 DEF Reassembly
    <3> HIDE DEF all, b, n
    <3> QED BY <2>2, <2>3, <2>4, <3>1, <3>2, <3>3, <3>4 DEF Reassembly, n
  <2>8. Shape(rx')
    <3>1. /\ rx'.buffer = all /\ rx'.expected_len = rx.expected_len /\ rx'.rx_id = rx.rx_id
          /\ rx'.received_len = got /\ rx'.next_sn = NextSn(rx.next_sn)
          /\ rx'.active = (got < rx.expected_len)
      BY <2>1, <2>2 DEF Reassembly
    <3>2. NextSn(rx.next_sn) = Len(all) % SnMod
      <4>1. rx.next_sn = Len(rx.buffer) % SnMod
        BY <1>5, <2>2 DEF Shape
      <4>2. \A x \in Nat : ((x % SnMod) + 1) % SnMod = (x + 1) % SnMod
        BY ModSucc, Zenon
      <4> HIDE DEF all
      <4> QED BY <2>4, <4>1, <4>2 DEF NextSn
    <3>3. got < rx.expected_len => got = FFData + CFData * (Len(all) - 1)
      BY <2>3, <2>4, <2>6 DEF FFData, CFData
    <3> HIDE DEF all
    <3> SUFFICES ASSUME got < rx.expected_len PROVE Shape(rx')
      BY <3>1 DEF Shape
    <3>4. got = FFData + CFData * (Len(all) - 1)
      BY <3>3
    <3> QED BY <2>4, <2>5, <3>1, <3>2, <3>4 DEF Shape
  <2>9. /\ q_isotp_rx' \in Seq(Delivered) /\ Len(q_isotp_rx') <= MsgQueueCap
        /\ NoStaleBytes'
    <3> DEFINE msg == Message(rx.rx_id, rx.expected_len, all)
    <3>1. CASE got >= rx.expected_len
      <4>1. msg \in Delivered /\ msg.content = all
            /\ msg.length = rx.expected_len /\ msg.rx_id = rx.rx_id
        BY <2>2, <2>4 DEF Message, Delivered, Reassembly
      <4>2. /\ FFData + CFData * (Len(all) - 1) >= rx.expected_len
            /\ Len(all) > 2 => FFData + CFData * ((Len(all) - 1) - 1) < rx.expected_len
        <5>1. rx.expected_len \in 0..MaxPayload /\ rx.received_len \in 0..MaxPayload
          BY <2>2 DEF Reassembly
        <5> QED BY <3>1, <2>3, <2>4, <2>6, <5>1, Sizes DEF FFData, CFData
      <4> HIDE DEF all, msg
      <4>3. CoversLength(msg)
        BY <2>4, <2>5, <4>1, <4>2 DEF CoversLength
      <4>4. Deliver(msg)
        BY <2>1, <3>1 DEF msg
      <4> QED BY <4>1, <4>3, <4>4, DeliverKeeps DEF Inv
    <3>2. CASE ~(got >= rx.expected_len)
      BY <2>1, <3>2 DEF Inv, TypeOK, NoStaleBytes
    <3> QED BY <3>1, <3>2
  <2> QED BY <1>1, <1>2, <2>7, <2>8, <2>9, TaskFrame DEF Inv, TypeOK
<1> QED BY <1>3, <1>4, <1>5

LEMMA HandleOtherInv == Inv /\ HandleOther => Inv'
<1> SUFFICES ASSUME Inv, HandleOther PROVE Inv'
  OBVIOUS
<1>1. rx' \in Reassembly /\ Shape(rx') /\ UNCHANGED <<q_isotp_rx, q_twai_tx, ecu, crossed>>
  BY CheckNCrKeeps DEF HandleOther, Inv, TypeOK
<1>2. TakeFrame("OTHER")
  BY DEF HandleOther
<1> QED BY <1>1, <1>2, TaskFrame DEF Inv, TypeOK, NoStaleBytes

LEMMA IdleIterationInv == Inv /\ IdleIteration => Inv'
<1> SUFFICES ASSUME Inv, IdleIteration PROVE Inv'
  OBVIOUS
<1>1. rx' \in Reassembly /\ Shape(rx')
  BY CheckNCrKeeps DEF IdleIteration, Inv, TypeOK
<1>2. TypeOK'
  BY <1>1 DEF IdleIteration, Inv, TypeOK
<1> QED BY <1>1, <1>2 DEF IdleIteration, Inv, Shape, NoStaleBytes, Pairs

LEMMA CallersInv ==
  Inv /\ (SendSingle \/ (\E e \in Ecus : SendMulti(e)) \/ StoreTxId \/ StoreRxId \/ SendReturns)
  => Inv'
<1> SUFFICES ASSUME Inv,
                    SendSingle \/ (\E e \in Ecus : SendMulti(e))
                      \/ StoreTxId \/ StoreRxId \/ SendReturns
             PROVE  Inv'
  OBVIOUS
<1> DEFINE Rest == UNCHANGED <<rx, q_twai_rx, q_isotp_rx, q_twai_tx, ecu, noise, crossed>>
           Call == [pc : {"none", "store_tx_id", "store_rx_id", "wait"},
                    ecu : Ecus \cup {NoEcu}, n : 0..MaxCalls]
           Tx == [state : {"TX_IDLE", "TX_BUSY"}, tx_id : Nat, rx_id : Nat]
<1>1. \A e \in Ecus : ReqId[e] \in Nat /\ RespId[e] \in Nat
  BY RxConstants
<1> call \in Call /\ tx \in Tx
  BY DEF Inv, TypeOK
<1>2. ASSUME SendSingle
      PROVE  Rest /\ call' \in Call /\ tx' \in Tx /\ Pairs'
  <2>1. call.n + 1 \in 0..MaxCalls
    BY <1>2, RxConstants DEF SendSingle
  <2> QED BY <1>2, <2>1 DEF SendSingle, Inv, Pairs
<1>3. ASSUME NEW e \in Ecus, SendMulti(e)
      PROVE  Rest /\ call' \in Call /\ tx' \in Tx /\ Pairs'
  <2>1. call.n + 1 \in 0..MaxCalls
    BY <1>3, RxConstants DEF SendMulti
  <2> QED BY <1>3, <2>1 DEF SendMulti, Inv, Pairs
<1>4. ASSUME StoreTxId PROVE Rest /\ call' \in Call /\ tx' \in Tx /\ Pairs'
  BY <1>1, <1>4 DEF StoreTxId, Inv, TypeOK, Pairs
<1>5. ASSUME StoreRxId PROVE Rest /\ call' \in Call /\ tx' \in Tx /\ Pairs'
  <2>1. call.ecu \in Ecus /\ tx.state = "TX_BUSY"
    BY <1>5 DEF StoreRxId, Inv, Pairs
  <2> QED BY <1>1, <1>5, <2>1 DEF StoreRxId, Inv, TypeOK, Pairs
<1>6. ASSUME SendReturns PROVE Rest /\ call' \in Call /\ tx' \in Tx /\ Pairs'
  BY <1>1, <1>6 DEF SendReturns, Inv, TypeOK, Pairs
<1>7. Rest /\ call' \in Call /\ tx' \in Tx /\ Pairs'
  BY <1>2, <1>3, <1>4, <1>5, <1>6
<1>8. TypeOK'
  BY <1>7 DEF Inv, TypeOK
<1> QED BY <1>7, <1>8 DEF Inv, Shape, NoStaleBytes

LEMMA ConsumeInv == Inv /\ Consume => Inv'
<1> SUFFICES ASSUME Inv, Consume PROVE Inv'
  OBVIOUS
<1>1. q_isotp_rx' \in Seq(Delivered) /\ Len(q_isotp_rx') <= MsgQueueCap /\ NoStaleBytes'
  BY ConsumeKeeps DEF Inv
<1>2. TypeOK'
  BY <1>1 DEF Inv, TypeOK, Consume
<1> QED BY <1>1, <1>2 DEF Inv, Shape, Pairs, Consume

LEMMA EcuInv ==
  ASSUME Inv, NEW e \in Ecus, EcuSendSF(e) \/ EcuSendFF(e) \/ EcuSendCF(e) \/ EcuGivesUp(e)
  PROVE  Inv'
<1> DEFINE Sender == [st : {"idle", "wait_fc", "send"}, m : Nat, len : 0..MaxPayload, k : Nat]
<1>1. /\ ecu \in [Ecus -> Sender] /\ ecu[e] \in Sender
      /\ RespId[e] \in Nat /\ MsgLens[e] \subseteq 1..MaxPayload
  BY RxConstants DEF Inv, TypeOK
<1>2. ASSUME NEW f \in Frame, NEW next \in Sender, EcuStep(e, f, next)
      PROVE  Inv'
  <2>1. q_twai_rx' \in Seq(Frame) /\ Len(q_twai_rx') <= FrameQueueCap
    BY <1>2, OnBusType DEF EcuStep, Inv
  <2>2. ecu' \in [Ecus -> Sender]
    BY <1>1, <1>2 DEF EcuStep
  <2>3. TypeOK'
    BY <1>2, <2>1, <2>2 DEF EcuStep, Inv, TypeOK
  <2> QED BY <1>2, <2>3 DEF EcuStep, Inv, Shape, NoStaleBytes, Pairs
<1>3. ASSUME NEW pci \in {"SF", "FF", "CF"}, NEW len \in 0..MaxPayload, NEW k \in Nat,
             NEW sn \in 0..(SnMod - 1)
      PROVE  Part(e, pci, len, sn, k) \in Frame
  BY <1>1 DEF Part, Frame
<1>4. 0 \in 0..(SnMod - 1)
  BY Sizes
<1>5. CASE EcuSendSF(e)
  <2>1. PICK len \in MsgLens[e] :
          EcuStep(e, Part(e, "SF", len, 0, 0), [ecu[e] EXCEPT !.m = @ + 1])
    BY <1>5 DEF EcuSendSF
  <2>2. [ecu[e] EXCEPT !.m = @ + 1] \in Sender /\ len \in 0..MaxPayload
    BY <1>1, Sizes
  <2> QED BY <1>2, <1>3, <1>4, <2>1, <2>2
<1>6. CASE EcuSendFF(e)
  <2>1. PICK len \in MsgLens[e] :
          EcuStep(e, Part(e, "FF", len, 0, 0),
                  [ecu[e] EXCEPT !.st = "wait_fc", !.len = len, !.k = 1])
    BY <1>6 DEF EcuSendFF
  <2>2. len \in 0..MaxPayload
    BY <1>1, Sizes
  <2>3. [ecu[e] EXCEPT !.st = "wait_fc", !.len = len, !.k = 1] \in Sender
    <3>1. 1 \in Nat
      OBVIOUS
    <3> QED BY <1>1, <2>2, <3>1
  <2> QED BY <1>2, <1>3, <1>4, <2>1, <2>2, <2>3
<1>7. CASE EcuSendCF(e)
  <2> DEFINE f == Part(e, "CF", ecu[e].len, ecu[e].k % SnMod, ecu[e].k)
             more == [ecu[e] EXCEPT !.k = @ + 1]
             last == [ecu[e] EXCEPT !.st = "idle", !.m = @ + 1]
  <2>1. EcuStep(e, f, more) \/ EcuStep(e, f, last)
    BY <1>7 DEF EcuSendCF
  <2>2. more \in Sender /\ last \in Sender
    <3>1. ecu[e].k + 1 \in Nat /\ ecu[e].m + 1 \in Nat
      BY <1>1
    <3>2. more \in Sender
      BY <1>1, <3>1
    <3>3. last \in Sender
      BY <1>1, <3>1
    <3> QED BY <3>2, <3>3
  <2>3. ecu[e].k % SnMod \in 0..(SnMod - 1)
    BY <1>1, Sizes
  <2>4. f \in Frame
    BY <1>1, <1>3, <2>3
  <2> HIDE DEF f, more, last
  <2> QED BY <1>2, <2>1, <2>2, <2>4
<1>8. CASE EcuGivesUp(e)
  <2>1. ecu' \in [Ecus -> Sender]
    BY <1>1, <1>8 DEF EcuGivesUp
  <2>2. TypeOK'
    BY <1>8, <2>1 DEF EcuGivesUp, Inv, TypeOK
  <2> QED BY <1>8, <2>2 DEF EcuGivesUp, Inv, Shape, NoStaleBytes, Pairs
<1> QED BY <1>5, <1>6, <1>7, <1>8

LEMMA OtherNodeInv == Inv /\ OtherNode => Inv'
<1> SUFFICES ASSUME Inv, OtherNode PROVE Inv'
  OBVIOUS
<1>1. PICK f \in Frame : OnBus(f)
  BY RxConstants DEF OtherNode
<1>2. q_twai_rx' \in Seq(Frame) /\ Len(q_twai_rx') <= FrameQueueCap
  BY <1>1, OnBusType DEF Inv
<1>3. noise' \in 0..MaxNoise
  BY RxConstants DEF OtherNode, Inv, TypeOK
<1>4. TypeOK'
  BY <1>2, <1>3 DEF OtherNode, Inv, TypeOK
<1> QED BY <1>4 DEF OtherNode, Inv, Shape, NoStaleBytes, Pairs

LEMMA TwaiTransmitInv == Inv /\ TwaiTransmit => Inv'
<1> DEFINE Sender == [st : {"idle", "wait_fc", "send"}, m : Nat, len : 0..MaxPayload, k : Nat]
<1> SUFFICES ASSUME Inv, TwaiTransmit PROVE Inv'
  OBVIOUS
<1>1. /\ q_twai_tx # <<>> /\ q_twai_tx' = Tail(q_twai_tx)
      /\ UNCHANGED <<rx, q_twai_rx, q_isotp_rx, tx, call, noise>>
      /\ ecu \in [Ecus -> Sender] /\ crossed \subseteq Ecus
  BY DEF TwaiTransmit, Inv, TypeOK
<1>2. q_twai_tx' \in Seq(FlowControl) /\ Len(q_twai_tx') <= TxQueueCap
  BY <1>1, RxConstants DEF Inv, TypeOK
<1>3. PICK fc : fc = Head(q_twai_tx)
  OBVIOUS
<1>4. ecu' \in [Ecus -> Sender] /\ crossed' \subseteq Ecus
  <2>1. CASE UNCHANGED <<ecu, crossed>>
    BY <1>1, <2>1
  <2>2. CASE /\ ecu' = [e \in Ecus |-> IF e \in Released(fc) THEN [ecu[e] EXCEPT !.st = "send"]
                                                        ELSE ecu[e]]
             /\ crossed' = crossed \cup {e \in Released(fc) : ~Answers(fc, e)}
    <3>1. \A e \in Ecus : [ecu[e] EXCEPT !.st = "send"] \in Sender
      BY <1>1
    <3>2. Released(fc) \subseteq Ecus
      BY DEF Released
    <3> HIDE DEF Sender
    <3> QED BY <1>1, <2>2, <3>1, <3>2
  <2> QED BY <1>3, <2>1, <2>2 DEF TwaiTransmit
<1>5. TypeOK'
  BY <1>1, <1>2, <1>4 DEF Inv, TypeOK
<1> QED BY <1>1, <1>5 DEF Inv, Shape, NoStaleBytes, Pairs

LEMMA TickInv == Inv /\ Tick => Inv'
<1> SUFFICES ASSUME Inv, Tick PROVE Inv'
  OBVIOUS
<1>1. rx' \in Reassembly /\ Shape(rx')
  <2>1. rx \in Reassembly /\ Shape(rx) /\ rx' = [rx EXCEPT !.age = @ + 1] /\ rx.age <= NCr
    BY DEF Tick, Inv, TypeOK
  <2>2. rx.age + 1 \in 0..(NCr + 1)
    BY <2>1, Sizes DEF Reassembly
  <2> QED BY <2>1, <2>2 DEF Reassembly, Shape
<1>2. TypeOK'
  BY <1>1 DEF Tick, Inv, TypeOK
<1> QED BY <1>1, <1>2 DEF Tick, Inv, Shape, NoStaleBytes, Pairs

LEMMA StutterInv == Inv /\ UNCHANGED vars => Inv'
BY DEF Inv, TypeOK, Shape, NoStaleBytes, Pairs, vars

-----------------------------------------------------------------------------
(* Theorems *)

\* The invariant holds in every reachable state.
THEOREM Invariant == Spec => []Inv
<1>1. Inv /\ [Next]_vars => Inv'
  BY HandleSFInv, HandleFFInv, HandleCFInv, HandleOtherInv, IdleIterationInv,
     CallersInv, ConsumeInv, EcuInv, TwaiTransmitInv, OtherNodeInv, TickInv, StutterInv
     DEF Next, IsoTpTask
<1> QED BY InitInv, <1>1, PTL DEF Spec

\* The types of the state hold in every reachable state.
THEOREM TypeCorrect == Spec => []TypeOK
BY Invariant, PTL DEF Inv

\* The copy of a Consecutive Frame stays inside rx_state.buffer.
THEOREM CopyStaysInBounds == Spec => []CopyInBounds
<1>1. Inv => CopyInBounds
  BY CopyFits DEF Inv, TypeOK, CopyInBounds
<1> QED BY Invariant, <1>1, PTL

\* A delivered multi-frame message is made of the frames since its First Frame, in
\* sequence, as many as its length needs.
THEOREM NoStaleBytesDelivered == Spec => []NoStaleBytes
BY Invariant, PTL DEF Inv

\* The Flow Control goes to the ECU that sent the First Frame: with ids 8 apart or a
\* multi-frame request to it in progress, and not between the stores of isotp_send.
THEOREM FcGoesToPeer == Spec => FcToPeer
<1>1. Inv /\ [Next]_vars =>
        [\A e \in Ecus :
           /\ HandleFF /\ Head(q_twai_rx).id = RespId[e]
           /\ RespId[e] = ReqId[e] + 8 \/ (call.pc = "wait" /\ call.ecu = e)
           /\ call.pc # "store_rx_id"
           => FcAddr(RespId[e]) = ReqId[e]]_vars
  <2> SUFFICES ASSUME Inv, NEW e \in Ecus,
                      RespId[e] = ReqId[e] + 8 \/ (call.pc = "wait" /\ call.ecu = e),
                      call.pc # "store_rx_id"
               PROVE  FcAddr(RespId[e]) = ReqId[e]
    OBVIOUS
  <2>1. ReqId[e] \in Nat /\ RespId[e] \in Nat
    BY RxConstants
  <2>2. CASE tx.state # "TX_IDLE" /\ RespId[e] = tx.rx_id
    <3>1. \/ tx.tx_id = 0 /\ tx.rx_id = 0 /\ call.pc # "wait"
          \/ \E d \in Ecus : tx.tx_id = ReqId[d] /\ tx.rx_id = RespId[d]
      BY DEF Inv, TypeOK, Pairs
    <3> QED BY <2>1, <2>2, <3>1, DistinctIds DEF FcAddr
  <2>3. CASE ~(tx.state # "TX_IDLE" /\ RespId[e] = tx.rx_id)
    BY <2>1, <2>3 DEF FcAddr, Inv, Pairs
  <2> QED BY <2>2, <2>3
<1> QED BY Invariant, <1>1, PTL DEF Spec, FcToPeer

-----------------------------------------------------------------------------
(* Whose frames are joined *)

\* A reassembly r that began with a First Frame of e is of its message m, of len bytes, and
\* has no frame of e from the k-th on.
Follows(r, e, m, len, k) ==
  r.active /\ r.buffer[1].id = RespId[e] =>
    /\ r.buffer[1].m = m /\ r.buffer[1].len = len
    /\ \A j \in 1..Len(r.buffer) : r.buffer[j].id = RespId[e] => r.buffer[j].k < k

\* The sender s of e: what it sends next goes on with r.
Sending(r, e, s) ==
  /\ s.st \in {"wait_fc", "send"} => s.k \in 1..CfCount(s.len)
  /\ s.st = "wait_fc" => s.k = 1
  /\ s.st = "send" => Follows(r, e, s.m, s.len, s.k)

\* A message m its sender s began: the present one, or one it gave up or completed.
Began(s, m) == m <= s.m /\ (s.st = "idle" => m < s.m)

\* Of its frames in queue q, no Consecutive Frame comes after a First Frame; after that of the
\* present message, for which the sender waits, nothing does.
FirstWaits(q, e, s) ==
  \A i \in 1..Len(q) : q[i].id = RespId[e] /\ q[i].pci = "FF" =>
    /\ s.st # "send" /\ q[i].k = 0 /\ Began(s, q[i].m)
    /\ \A j \in (i + 1)..Len(q) : ~(q[j].id = RespId[e] /\ q[j].pci = "CF")
    /\ q[i].m = s.m => /\ s.st = "wait_fc" /\ q[i].len = s.len
                       /\ \A j \in (i + 1)..Len(q) : q[j].id # RespId[e]

\* The Consecutive Frames go on with r, in the order they were sent.
OthersFollow(q, r, e, s) ==
  \A i \in 1..Len(q) : q[i].id = RespId[e] /\ q[i].pci = "CF" =>
    /\ q[i].k \in 1..CfCount(q[i].len)
    /\ Follows(r, e, q[i].m, q[i].len, q[i].k)
    /\ s.st = "send" => q[i].k < s.k
    /\ \A j \in (i + 1)..Len(q) : q[j].id = RespId[e] /\ q[j].pci = "CF" => q[i].k < q[j].k

InLine(q, r, e, s) == Sending(r, e, s) /\ FirstWaits(q, e, s) /\ OthersFollow(q, r, e, s)

\* A Flow Control for the present message finds its sender ready: nothing of it is in the
\* queue, and a reassembly that began with a First Frame of it has only that one.
Ready(q, r, e, s) ==
  (\A j \in 1..Len(q) : q[j].id # RespId[e]) /\ Follows(r, e, s.m, s.len, 1)

FcInLine(o, q, r, e, s) ==
  \A i \in 1..Len(o) : o[i].of = RespId[e] =>
    /\ Began(s, o[i].m)
    /\ o[i].m = s.m /\ s.st = "wait_fc" => Ready(q, r, e, s)

\* A reassembly with frames of one ECU only has them of one message, each later one further on.
Spaced(c) ==
  /\ c[1].k = 0
  /\ \A j \in 1..Len(c) : c[j].m = c[1].m /\ c[j].k <= CfCount(c[1].len)
  /\ \A i, j \in 1..Len(c) : i <= j => c[j].k - c[i].k >= j - i

Own(c, e) == \A j \in 1..Len(c) : c[j].id = RespId[e]

OneMessage(r) == r.active => \A e \in Ecus \ crossed : Own(r.buffer, e) => Spaced(r.buffer)

Whole(msg) ==
  LET c == msg.content
  IN  c[1].pci = "FF" /\ (\E e \in Ecus \ crossed : Own(c, e))
      => /\ Len(c) = 1 + CfCount(msg.length)
         /\ \A j \in 1..Len(c) : c[j].m = c[1].m /\ c[j].k = j - 1

\* The queue, the senders and the reassembly; the Flow Controls; the messages delivered. Of an
\* ECU that was released by a Flow Control for another message nothing is said.
Lines == (\A e \in Ecus \ crossed : InLine(q_twai_rx, rx, e, ecu[e])) /\ OneMessage(rx)

FcLines == \A e \in Ecus \ crossed : FcInLine(q_twai_tx, q_twai_rx, rx, e, ecu[e])

AllWhole == \A i \in 1..Len(q_isotp_rx) : Whole(q_isotp_rx[i])

Apart == Lines /\ FcLines /\ AllWhole

\* The numbers of Consecutive Frames, and of a message that covers its length.
LEMMA CfCounts ==
  ASSUME NEW len \in 0..MaxPayload
  PROVE  /\ CfCount(len) \in Nat
         /\ len > 7 => CfCount(len) >= 1
         /\ \A n \in Nat : FFData + CFData * n >= len => n >= CfCount(len)
<1>1. len \in Nat
  BY Sizes
<1> QED BY <1>1 DEF CfCount, FFData, CFData

\* What a queue is after its first frame is taken, and after a frame is put on the bus.
LEMMA Taken ==
  ASSUME Inv, NEW pci, TakeFrame(pci)
  PROVE  \E n \in Nat :
           /\ Len(q_twai_rx) = n + 1 /\ Len(q_twai_rx') = n
           /\ \A i \in 1..n : q_twai_rx'[i] = q_twai_rx[i + 1]
           /\ q_twai_rx[1] = Head(q_twai_rx) /\ Head(q_twai_rx) \in Frame
           /\ Head(q_twai_rx).pci = pci
           /\ \A i \in 1..(n + 1) : q_twai_rx[i] \in Frame
<1>1. /\ q_twai_rx \in Seq(Frame) /\ q_twai_rx # <<>> /\ q_twai_rx' = Tail(q_twai_rx)
      /\ Head(q_twai_rx).pci = pci
  BY DEF Inv, TypeOK, TakeFrame
<1>2. PICK n : n \in Nat /\ n = Len(q_twai_rx) - 1
  BY <1>1
<1>3. Len(q_twai_rx) = n + 1 /\ Len(q_twai_rx') = n
  BY <1>1, <1>2
<1>4. \A i \in 1..n : q_twai_rx'[i] = q_twai_rx[i + 1]
  BY <1>1, <1>2
<1>5. q_twai_rx[1] = Head(q_twai_rx) /\ Head(q_twai_rx) \in Frame
  BY <1>1
<1>6. \A i \in 1..(n + 1) : q_twai_rx[i] \in Frame
  BY <1>1, <1>3
<1> QED BY <1>1, <1>2, <1>3, <1>4, <1>5, <1>6

LEMMA PutOnBus ==
  ASSUME Inv, NEW f, OnBus(f)
  PROVE  \E n \in Nat :
           /\ Len(q_twai_rx) = n /\ \A i \in 1..n : q_twai_rx[i] \in Frame
           /\ \/ q_twai_rx' = q_twai_rx
              \/ /\ Len(q_twai_rx') = n + 1 /\ q_twai_rx'[n + 1] = f
                 /\ \A i \in 1..n : q_twai_rx'[i] = q_twai_rx[i]
<1>1. q_twai_rx \in Seq(Frame)
  BY DEF Inv, TypeOK
<1>2. PICK n : n \in Nat /\ n = Len(q_twai_rx)
  BY <1>1
<1>3. \A i \in 1..n : q_twai_rx[i] \in Frame
  BY <1>1, <1>2
<1>4. \/ q_twai_rx' = q_twai_rx
      \/ /\ Len(q_twai_rx') = n + 1 /\ q_twai_rx'[n + 1] = f
         /\ \A i \in 1..n : q_twai_rx'[i] = q_twai_rx[i]
  BY <1>1, <1>2 DEF OnBus
<1> QED BY <1>2, <1>3, <1>4

\* A reassembly that is x where it was r, or is not active, is followed by no less.
LEMMA FollowsQuiet ==
  ASSUME NEW r, NEW x, x.active => r.active /\ x.buffer = r.buffer,
         NEW e, NEW m, NEW len, NEW k, Follows(r, e, m, len, k)
  PROVE  Follows(x, e, m, len, k)
BY DEF Follows

\* The rest of the queue stays in line while x goes on where r was.
LEMMA TailInLine ==
  ASSUME NEW q, NEW p, NEW n \in Nat, Len(q) = n + 1, Len(p) = n,
         \A i \in 1..n : p[i] = q[i + 1],
         NEW r, NEW x, NEW e, NEW s, InLine(q, r, e, s),
         s.st = "send" /\ Follows(r, e, s.m, s.len, s.k) => Follows(x, e, s.m, s.len, s.k),
         \A i \in 2..(n + 1) :
           /\ q[i].id = RespId[e] /\ q[i].pci = "CF"
           /\ Follows(r, e, q[i].m, q[i].len, q[i].k)
           => Follows(x, e, q[i].m, q[i].len, q[i].k)
  PROVE  InLine(p, x, e, s)
<1>1. \A i \in 1..n : i + 1 \in 1..Len(q) /\ i + 1 \in 2..(n + 1) /\ p[i] = q[i + 1]
  OBVIOUS
<1>2. \A i \in 1..n : \A j \in (i + 1)..n : j \in 1..n /\ j + 1 \in ((i + 1) + 1)..Len(q)
  OBVIOUS
<1>3. Sending(x, e, s)
  BY DEF InLine, Sending
<1>4. FirstWaits(p, e, s)
  <2> SUFFICES ASSUME NEW i \in 1..n, p[i].id = RespId[e], p[i].pci = "FF"
               PROVE  /\ s.st # "send" /\ p[i].k = 0 /\ Began(s, p[i].m)
                      /\ \A j \in (i + 1)..n : ~(p[j].id = RespId[e] /\ p[j].pci = "CF")
                      /\ p[i].m = s.m => /\ s.st = "wait_fc" /\ p[i].len = s.len
                                         /\ \A j \in (i + 1)..n : p[j].id # RespId[e]
    BY DEF FirstWaits
  <2>1. PICK a \in 1..Len(q) : a = i + 1 /\ p[i] = q[a]
    BY <1>1
  <2>2. /\ s.st # "send" /\ q[a].k = 0 /\ Began(s, q[a].m)
        /\ \A j \in (a + 1)..Len(q) : ~(q[j].id = RespId[e] /\ q[j].pci = "CF")
        /\ q[a].m = s.m => /\ s.st = "wait_fc" /\ q[a].len = s.len
                           /\ \A j \in (a + 1)..Len(q) : q[j].id # RespId[e]
    BY <2>1 DEF InLine, FirstWaits
  <2>3. \A j \in (i + 1)..n : j + 1 \in (a + 1)..Len(q) /\ p[j] = q[j + 1]
    BY <1>1, <1>2, <2>1
  <2> QED BY <2>1, <2>2, <2>3
<1>5. OthersFollow(p, x, e, s)
  <2> SUFFICES ASSUME NEW i \in 1..n, p[i].id = RespId[e], p[i].pci = "CF"
               PROVE  /\ p[i].k \in 1..CfCount(p[i].len)
                      /\ Follows(x, e, p[i].m, p[i].len, p[i].k)
                      /\ s.st = "send" => p[i].k < s.k
                      /\ \A j \in (i + 1)..n :
                           p[j].id = RespId[e] /\ p[j].pci = "CF" => p[i].k < p[j].k
    BY DEF OthersFollow
  <2>1. PICK a \in 1..Len(q) : a = i + 1 /\ a \in 2..(n + 1) /\ p[i] = q[a]
    BY <1>1
  <2>2. /\ q[a].k \in 1..CfCount(q[a].len)
        /\ Follows(r, e, q[a].m, q[a].len, q[a].k)
        /\ s.st = "send" => q[a].k < s.k
        /\ \A j \in (a + 1)..Len(q) : q[j].id = RespId[e] /\ q[j].pci = "CF" => q[a].k < q[j].k
    BY <2>1 DEF InLine, OthersFollow
  <2>3. Follows(x, e, q[a].m, q[a].len, q[a].k)
    BY <2>1, <2>2
  <2>4. ASSUME NEW j \in (i + 1)..n, p[j].id = RespId[e], p[j].pci = "CF"
        PROVE  p[i].k < p[j].k
    <3>1. j \in 1..n /\ j + 1 \in (a + 1)..Len(q)
      BY <1>2, <2>1
    <3>2. p[j] = q[j + 1]
      BY <1>1, <3>1
    <3> QED BY <2>1, <2>2, <2>4, <3>1, <3>2
  <2> QED BY <2>1, <2>2, <2>3, <2>4
<1> QED BY <1>3, <1>4, <1>5 DEF InLine

\* A frame of somebody else on the bus changes nothing of the line of e.
LEMMA OtherInLine ==
  ASSUME NEW q, NEW p, NEW n \in Nat, Len(q) = n, NEW e, NEW f, f.id # RespId[e],
         \/ p = q
         \/ Len(p) = n + 1 /\ p[n + 1] = f /\ \A i \in 1..n : p[i] = q[i],
         NEW r, NEW s, InLine(q, r, e, s)
  PROVE  InLine(p, r, e, s)
<1> SUFFICES ASSUME Len(p) = n + 1, p[n + 1] = f, \A i \in 1..n : p[i] = q[i]
             PROVE  InLine(p, r, e, s)
  OBVIOUS
<1>1. \A i \in 1..(n + 1) : p[i].id = RespId[e] => i \in 1..n /\ p[i] = q[i]
  <2>1. \A i \in 1..(n + 1) : i \in 1..n \/ i = n + 1
    OBVIOUS
  <2> QED BY <2>1
<1>2. \A i \in 1..n : \A j \in (i + 1)..(n + 1) : j \in 1..(n + 1) /\ (j \in 1..n => j \in (i + 1)..n)
  OBVIOUS
<1>3. FirstWaits(p, e, s)
  BY <1>1, <1>2 DEF InLine, FirstWaits
<1>4. OthersFollow(p, r, e, s)
  BY <1>1, <1>2 DEF InLine, OthersFollow
<1> QED BY <1>3, <1>4 DEF InLine

\* A frame f of e itself, which does not wait for a Flow Control: it goes on from s to t.
LEMMA OwnInLine ==
  ASSUME NEW q, NEW p, NEW n \in Nat, Len(q) = n, NEW f \in Frame, NEW e, f.id = RespId[e],
         \/ p = q
         \/ Len(p) = n + 1 /\ p[n + 1] = f /\ \A i \in 1..n : p[i] = q[i],
         \A i \in 1..n : q[i] \in Frame,
         NEW r, NEW s, NEW t, s.k \in Nat, t.k \in Nat, s.m \in Nat, t.m \in Nat, s.m <= t.m,
         InLine(q, r, e, s), s.st # "wait_fc", Sending(r, e, t),
         f.pci = "FF" => t.st = "wait_fc" /\ f.m = t.m /\ f.len = t.len /\ f.k = 0,
         s.st \in {"idle", "wait_fc", "send"},
         f.pci = "CF" => /\ s.st = "send" /\ f.k = s.k /\ f.k \in 1..CfCount(f.len)
                         /\ Follows(r, e, f.m, f.len, f.k),
         t.st = "send" => s.st = "send" /\ s.k <= t.k /\ (f.pci = "CF" => f.k < t.k)
  PROVE  InLine(p, r, e, t)
<1>1. ASSUME NEW i \in 1..n, q[i].id = RespId[e], q[i].pci = "FF"
      PROVE  /\ t.st # "send" /\ q[i].k = 0 /\ Began(t, q[i].m) /\ q[i].m # t.m
             /\ f.pci # "CF"
             /\ \A j \in (i + 1)..n : ~(q[j].id = RespId[e] /\ q[j].pci = "CF")
  <2>1. /\ s.st # "send" /\ q[i].k = 0 /\ Began(s, q[i].m)
        /\ \A j \in (i + 1)..n : ~(q[j].id = RespId[e] /\ q[j].pci = "CF")
    BY <1>1 DEF InLine, FirstWaits
  <2>2. q[i].m \in Nat
    BY DEF Frame
  <2>3. q[i].m < s.m
    BY <2>1 DEF Began
  <2> QED BY <2>1, <2>2, <2>3 DEF Began
<1>2. \A i \in 1..n : q[i].k \in Nat
  BY DEF Frame
<1>3. ASSUME NEW i \in 1..n, q[i].id = RespId[e], q[i].pci = "CF"
      PROVE  /\ q[i].k \in 1..CfCount(q[i].len)
             /\ Follows(r, e, q[i].m, q[i].len, q[i].k)
             /\ t.st = "send" => q[i].k < t.k
             /\ f.pci = "CF" => q[i].k < f.k
             /\ \A j \in (i + 1)..n : q[j].id = RespId[e] /\ q[j].pci = "CF" => q[i].k < q[j].k
  <2>1. /\ q[i].k \in 1..CfCount(q[i].len)
        /\ Follows(r, e, q[i].m, q[i].len, q[i].k)
        /\ s.st = "send" => q[i].k < s.k
        /\ \A j \in (i + 1)..n : q[j].id = RespId[e] /\ q[j].pci = "CF" => q[i].k < q[j].k
    BY <1>3 DEF InLine, OthersFollow
  <2>2. t.st = "send" => q[i].k < t.k
    BY <1>2, <2>1
  <2> QED BY <2>1, <2>2
<1>4. CASE p = q
  <2>1. FirstWaits(p, e, t)
    BY <1>1, <1>4 DEF FirstWaits
  <2>2. OthersFollow(p, r, e, t)
    BY <1>3, <1>4 DEF OthersFollow
  <2> QED BY <2>1, <2>2 DEF InLine
<1>5. CASE Len(p) = n + 1 /\ p[n + 1] = f /\ \A i \in 1..n : p[i] = q[i]
  <2>1. \A i \in 1..(n + 1) : (i \in 1..n /\ p[i] = q[i]) \/ (i = n + 1 /\ p[i] = f)
    BY <1>5
  <2>2. \A i \in 1..n : \A j \in (i + 1)..(n + 1) : j \in 1..(n + 1) /\ (j \in 1..n => j \in (i + 1)..n)
    OBVIOUS
  <2>3. FirstWaits(p, e, t)
    <3> SUFFICES ASSUME NEW i \in 1..(n + 1), p[i].id = RespId[e], p[i].pci = "FF"
                 PROVE  /\ t.st # "send" /\ p[i].k = 0 /\ Began(t, p[i].m)
                        /\ \A j \in (i + 1)..(n + 1) : ~(p[j].id = RespId[e] /\ p[j].pci = "CF")
                        /\ p[i].m = t.m => /\ t.st = "wait_fc" /\ p[i].len = t.len
                                           /\ \A j \in (i + 1)..(n + 1) : p[j].id # RespId[e]
      BY <1>5 DEF FirstWaits
    <3>1. CASE i \in 1..n /\ p[i] = q[i]
      <4>1. \A j \in (i + 1)..(n + 1) : (j \in (i + 1)..n /\ p[j] = q[j]) \/ p[j] = f
        BY <2>1, <2>2, <3>1
      <4> QED BY <1>1, <3>1, <4>1
    <3>2. CASE i = n + 1 /\ p[i] = f
      <4>1. \A j \in (i + 1)..(n + 1) : FALSE
        BY <3>2
      <4>2. Began(t, p[i].m)
        BY <3>2 DEF Began
      <4> QED BY <3>2, <4>1, <4>2
    <3> QED BY <2>1, <3>1, <3>2
  <2>4. OthersFollow(p, r, e, t)
    <3> SUFFICES ASSUME NEW i \in 1..(n + 1), p[i].id = RespId[e], p[i].pci = "CF"
                 PROVE  /\ p[i].k \in 1..CfCount(p[i].len)
                        /\ Follows(r, e, p[i].m, p[i].len, p[i].k)
                        /\ t.st = "send" => p[i].k < t.k
                        /\ \A j \in (i + 1)..(n + 1) :
                             p[j].id = RespId[e] /\ p[j].pci = "CF" => p[i].k < p[j].k
      BY <1>5 DEF OthersFollow
    <3>1. CASE i \in 1..n /\ p[i] = q[i]
      <4>1. \A j \in (i + 1)..(n + 1) :
              (j \in (i + 1)..n /\ p[j] = q[j]) \/ p[j] = f
        BY <2>1, <2>2, <3>1
      <4> QED BY <1>3, <3>1, <4>1
    <3>2. CASE i = n + 1 /\ p[i] = f
      <4>1. \A j \in (i + 1)..(n + 1) : FALSE
        BY <3>2
      <4> QED BY <3>2, <4>1
    <3> QED BY <2>1, <3>1, <3>2
  <2> QED BY <2>3, <2>4 DEF InLine
<1> QED BY <1>4, <1>5

LEMMA EcuIds ==
  /\ \A d, e \in Ecus : d # e => RespId[d] # RespId[e] /\ ReqId[d] # ReqId[e]
  /\ \A f \in Noise, e \in Ecus : f.id # RespId[e]
  /\ \A e \in Ecus : RespId[e] \in Nat
BY DistinctIds, RxConstants

\* An ECU sends a frame, from state ecu[e] to t.
LEMMA EcuStepLines ==
  ASSUME Inv, Lines, NEW e \in Ecus, NEW f \in Frame, NEW t, EcuStep(e, f, t), f.id = RespId[e],
         UNCHANGED crossed, t.k \in Nat, t.m \in Nat, ecu[e].m <= t.m, ecu[e].st # "wait_fc",
         e \notin crossed => Sending(rx, e, t),
         f.pci = "FF" => t.st = "wait_fc" /\ f.m = t.m /\ f.len = t.len /\ f.k = 0,
         f.pci = "CF" /\ e \notin crossed =>
           /\ ecu[e].st = "send" /\ f.k = ecu[e].k /\ f.k \in 1..CfCount(f.len)
           /\ Follows(rx, e, f.m, f.len, f.k),
         t.st = "send" => ecu[e].st = "send" /\ ecu[e].k <= t.k /\ (f.pci = "CF" => f.k < t.k)
  PROVE  Lines'
<1>1. /\ OnBus(f) /\ ecu' = [ecu EXCEPT ![e] = t] /\ UNCHANGED rx
      /\ ecu[e].k \in Nat /\ ecu[e].m \in Nat /\ ecu[e].st \in {"idle", "wait_fc", "send"}
      /\ DOMAIN ecu = Ecus
  BY DEF EcuStep, Inv, TypeOK
<1>2. PICK n \in Nat :
        /\ Len(q_twai_rx) = n /\ \A i \in 1..n : q_twai_rx[i] \in Frame
        /\ \/ q_twai_rx' = q_twai_rx
           \/ /\ Len(q_twai_rx') = n + 1 /\ q_twai_rx'[n + 1] = f
              /\ \A i \in 1..n : q_twai_rx'[i] = q_twai_rx[i]
  BY <1>1, PutOnBus
<1>3. PICK q, p, r : q = q_twai_rx /\ p = q_twai_rx' /\ r = rx
  OBVIOUS
<1>4. ASSUME e \notin crossed PROVE InLine(p, r, e, t)
  <2>1. InLine(q, r, e, ecu[e])
    BY <1>3, <1>4 DEF Lines
  <2>2. /\ Sending(r, e, t)
        /\ f.pci = "CF" => /\ ecu[e].st = "send" /\ f.k = ecu[e].k /\ f.k \in 1..CfCount(f.len)
                           /\ Follows(r, e, f.m, f.len, f.k)
    BY <1>3, <1>4
  <2> QED BY <1>1, <1>2, <1>3, <2>1, <2>2, OwnInLine
<1>5. ASSUME NEW d \in Ecus \ crossed, d # e PROVE InLine(p, r, d, ecu[d])
  <2>1. InLine(q, r, d, ecu[d]) /\ f.id # RespId[d]
    BY <1>3, <1>5, EcuIds DEF Lines
  <2> QED BY <1>2, <1>3, <2>1, OtherInLine
<1>6. \A d \in Ecus \ crossed : InLine(p, r, d, ecu'[d])
  BY <1>1, <1>4, <1>5
<1> QED BY <1>1, <1>3, <1>6 DEF Lines, OneMessage

LEMMA EcuSendLines ==
  ASSUME Inv, Lines, NEW e \in Ecus, EcuSendSF(e) \/ EcuSendFF(e) \/ EcuSendCF(e)
  PROVE  Lines'
<1> DEFINE Sender == [st : {"idle", "wait_fc", "send"}, m : Nat, len : 0..MaxPayload, k : Nat]
<1>1. /\ ecu[e] \in Sender /\ RespId[e] \in Nat /\ MsgLens[e] \subseteq 1..MaxPayload
      /\ e \notin crossed => InLine(q_twai_rx, rx, e, ecu[e])
      /\ UNCHANGED crossed
  BY RxConstants DEF Inv, TypeOK, Lines, EcuSendSF, EcuSendFF, EcuSendCF, EcuStep
<1>2. PICK s : s = ecu[e] /\ s.m \in Nat /\ s.k \in Nat /\ s.len \in 0..MaxPayload
  BY <1>1
<1>3. \A len \in 0..MaxPayload, k \in Nat, sn \in 0..(SnMod - 1), pci \in {"SF", "FF", "CF"} :
        LET f == Part(e, pci, len, sn, k)
        IN  /\ f \in Frame /\ f.id = RespId[e] /\ f.pci = pci /\ f.len = len /\ f.k = k
            /\ f.m = s.m
  BY <1>1, <1>2 DEF Part, Frame
<1>4. 0 \in 0..(SnMod - 1) /\ 0 \in Nat /\ 1 \in Nat
  BY Sizes
<1>5. CASE EcuSendSF(e)
  <2>1. PICK len \in MsgLens[e] :
          EcuStep(e, Part(e, "SF", len, 0, 0), [ecu[e] EXCEPT !.m = @ + 1]) /\ s.st = "idle"
    BY <1>2, <1>5 DEF EcuSendSF
  <2>2. PICK f, t : f = Part(e, "SF", len, 0, 0) /\ t = [s EXCEPT !.m = @ + 1]
    OBVIOUS
  <2>3. t.st = "idle" /\ t.k = s.k /\ t.m \in Nat /\ s.m <= t.m
    BY <1>1, <1>2, <2>1, <2>2
  <2>4. len \in 0..MaxPayload
    BY <1>1, Sizes
  <2>5. f \in Frame /\ f.id = RespId[e] /\ f.pci = "SF"
    BY <1>3, <1>4, <2>2, <2>4
  <2>6. Sending(rx, e, t)
    BY <2>3 DEF Sending
  <2> QED BY <1>1, <1>2, <2>1, <2>2, <2>3, <2>5, <2>6, EcuStepLines
<1>6. CASE EcuSendFF(e)
  <2>1. PICK len \in MsgLens[e] :
          /\ EcuStep(e, Part(e, "FF", len, 0, 0),
                     [ecu[e] EXCEPT !.st = "wait_fc", !.len = len, !.k = 1])
          /\ s.st = "idle" /\ len > 7
    BY <1>2, <1>6 DEF EcuSendFF
  <2>2. PICK f, t : /\ f = Part(e, "FF", len, 0, 0)
                    /\ t = [s EXCEPT !.st = "wait_fc", !.len = len, !.k = 1]
    OBVIOUS
  <2>3. t.st = "wait_fc" /\ t.k = 1 /\ t.m = s.m /\ t.len = len /\ s.m <= t.m
    BY <1>1, <1>2, <2>2
  <2>4. len \in 0..MaxPayload
    BY <1>1, Sizes
  <2>5. f \in Frame /\ f.id = RespId[e] /\ f.pci = "FF" /\ f.len = len /\ f.k = 0 /\ f.m = s.m
    BY <1>3, <1>4, <2>2, <2>4
  <2>6. Sending(rx, e, t)
    <3>1. 1 \in 1..CfCount(len)
      BY <2>1, <2>4, CfCounts
    <3> QED BY <2>3, <3>1 DEF Sending
  <2> QED BY <1>1, <1>2, <1>4, <2>1, <2>2, <2>3, <2>5, <2>6, EcuStepLines
<1>7. CASE EcuSendCF(e)
  <2> DEFINE more == [s EXCEPT !.k = @ + 1]
             last == [s EXCEPT !.st = "idle", !.m = @ + 1]
  <2>1. PICK f, t : /\ f = Part(e, "CF", s.len, s.k % SnMod, s.k)
                    /\ t = IF s.k < CfCount(s.len) THEN more ELSE last
    OBVIOUS
  <2>2. EcuStep(e, f, t) /\ s.st = "send"
    BY <1>2, <1>7, <2>1 DEF EcuSendCF
  <2>3. s.k % SnMod \in 0..(SnMod - 1)
    BY <1>2, Sizes
  <2>4. f \in Frame /\ f.id = RespId[e] /\ f.pci = "CF" /\ f.len = s.len /\ f.k = s.k /\ f.m = s.m
    BY <1>2, <1>3, <2>1, <2>3
  <2>5. e \notin crossed => s.k \in 1..CfCount(s.len) /\ Follows(rx, e, s.m, s.len, s.k)
    BY <1>1, <1>2, <2>2 DEF InLine, Sending
  <2>6. \/ t.st = "idle" /\ t.k = s.k /\ t.m = s.m + 1
        \/ /\ s.k < CfCount(s.len) /\ t.st = "send" /\ t.k = s.k + 1 /\ t.m = s.m
           /\ t.len = s.len
    <3>1. more.st = "send" /\ more.k = s.k + 1 /\ more.m = s.m /\ more.len = s.len
      BY <1>1, <1>2, <2>2
    <3>2. last.st = "idle" /\ last.k = s.k /\ last.m = s.m + 1
      BY <1>1, <1>2
    <3> QED BY <2>1, <3>1, <3>2
  <2>7. ASSUME e \notin crossed PROVE Sending(rx, e, t)
    <3>1. CASE t.st = "idle"
      BY <3>1 DEF Sending
    <3>2. CASE /\ s.k < CfCount(s.len) /\ t.st = "send" /\ t.k = s.k + 1 /\ t.m = s.m
               /\ t.len = s.len
      <4>1. t.k \in 1..CfCount(t.len)
        BY <1>2, <3>2, CfCounts
      <4>2. Follows(rx, e, s.m, s.len, s.k + 1)
        <5>1. rx.buffer \in Seq(Frame)
          BY DEF Inv, TypeOK, Reassembly
        <5>2. \A j \in 1..Len(rx.buffer) : rx.buffer[j] \in Frame /\ rx.buffer[j].k \in Nat
          <6>1. \A j \in 1..Len(rx.buffer) : rx.buffer[j] \in Frame
            BY <5>1
          <6> QED BY <6>1 DEF Frame
        <5>3. \A j \in 1..Len(rx.buffer) : rx.buffer[j].k < s.k => rx.buffer[j].k < s.k + 1
          BY <1>2, <5>2
        <5> QED BY <2>5, <2>7, <5>3 DEF Follows
      <4> QED BY <3>2, <4>1, <4>2 DEF Sending
    <3> QED BY <2>6, <3>1, <3>2
  <2>8. t.k \in Nat /\ t.m \in Nat /\ s.m <= t.m /\ (t.st = "send" => s.k <= t.k /\ f.k < t.k)
    BY <1>2, <2>4, <2>6
  <2> HIDE DEF more, last
  <2>9. e \notin crossed => f.k \in 1..CfCount(f.len) /\ Follows(rx, e, f.m, f.len, f.k)
    BY <2>4, <2>5
  <2> QED BY <1>1, <1>2, <2>2, <2>4, <2>7, <2>8, <2>9, EcuStepLines
<1> QED BY <1>5, <1>6, <1>7

LEMMA OtherNodeLines == Inv /\ Lines /\ OtherNode => Lines'
<1> SUFFICES ASSUME Inv, Lines, OtherNode PROVE Lines'
  OBVIOUS
<1>1. PICK f \in Noise : OnBus(f) /\ UNCHANGED <<rx, ecu, crossed>>
  BY DEF OtherNode
<1>2. f \in Frame
  BY RxConstants
<1>3. PICK n \in Nat :
        /\ Len(q_twai_rx) = n
        /\ \/ q_twai_rx' = q_twai_rx
           \/ /\ Len(q_twai_rx') = n + 1 /\ q_twai_rx'[n + 1] = f
              /\ \A i \in 1..n : q_twai_rx'[i] = q_twai_rx[i]
  BY <1>1, <1>2, PutOnBus
<1>4. PICK q, p, r : q = q_twai_rx /\ p = q_twai_rx' /\ r = rx
  OBVIOUS
<1>5. ASSUME NEW d \in Ecus \ crossed PROVE InLine(p, r, d, ecu[d])
  <2>1. InLine(q, r, d, ecu[d]) /\ f.id # RespId[d]
    BY <1>4, EcuIds DEF Lines
  <2> QED BY <1>3, <1>4, <2>1, OtherInLine
<1> QED BY <1>1, <1>4, <1>5 DEF Lines, OneMessage

\* The ECU gives up: whatever of its message is still in the queue goes on with the reassembly.
LEMMA EcuGivesUpLines == ASSUME NEW e \in Ecus PROVE Inv /\ Lines /\ EcuGivesUp(e) => Lines'
<1> SUFFICES ASSUME Inv, Lines, EcuGivesUp(e) PROVE Lines'
  OBVIOUS
<1>1. /\ UNCHANGED <<rx, q_twai_rx, crossed>>
      /\ ecu' = [ecu EXCEPT ![e].st = "idle", ![e].m = @ + 1] /\ ecu[e].st # "idle"
      /\ ecu \in [Ecus -> [st : {"idle", "wait_fc", "send"}, m : Nat, len : 0..MaxPayload, k : Nat]]
  BY DEF EcuGivesUp, Inv, TypeOK
<1>2. /\ ecu'[e].st = "idle" /\ ecu'[e].m = ecu[e].m + 1 /\ ecu[e].m \in Nat
      /\ \A d \in Ecus : d # e => ecu'[d] = ecu[d]
  BY <1>1
<1>3. PICK t, s, q : t = ecu'[e] /\ s = ecu[e] /\ q = q_twai_rx
  OBVIOUS
<1>4. ASSUME e \notin crossed PROVE InLine(q, rx, e, t)
  <2>1. InLine(q, rx, e, s)
    BY <1>3, <1>4 DEF Lines
  <2>2. Sending(rx, e, t)
    BY <1>2, <1>3 DEF Sending
  <2>3. FirstWaits(q, e, t)
    <3>1. \A i \in 1..Len(q) : q[i].m \in Nat
      <4>1. \A i \in 1..Len(q) : q[i] \in Frame
        BY <1>3 DEF Inv, TypeOK
      <4> QED BY <4>1 DEF Frame
    <3>2. \A m \in Nat : Began(s, m) => Began(t, m) /\ m # t.m
      BY <1>2, <1>3 DEF Began
    <3> QED BY <1>2, <1>3, <2>1, <3>1, <3>2 DEF InLine, FirstWaits
  <2>4. OthersFollow(q, rx, e, t)
    BY <1>2, <1>3, <2>1 DEF InLine, OthersFollow
  <2> QED BY <2>2, <2>3, <2>4 DEF InLine
<1>5. \A d \in Ecus \ crossed : InLine(q_twai_rx, rx, d, ecu'[d])
  BY <1>2, <1>3, <1>4 DEF Lines
<1> QED BY <1>1, <1>5 DEF Lines, OneMessage

\* A reassembly that ends, at most, leaves the lines as they are.
Quiet(r, x) == x.active => r.active /\ x.buffer = r.buffer

LEMMA QuietLine ==
  ASSUME NEW q, NEW r, NEW x, Quiet(r, x), NEW e, NEW s, InLine(q, r, e, s)
  PROVE  InLine(q, x, e, s)
<1>1. \A m, len, k : Follows(r, e, m, len, k) => Follows(x, e, m, len, k)
  BY FollowsQuiet DEF Quiet
<1> QED BY <1>1 DEF InLine, Sending, OthersFollow

LEMMA QuietLines ==
  ASSUME Lines, Quiet(rx, rx'), UNCHANGED <<q_twai_rx, ecu, crossed>>
  PROVE  Lines'
<1>1. PICK x : x = rx'
  OBVIOUS
<1>2. \A e \in Ecus \ crossed : InLine(q_twai_rx, x, e, ecu[e])
  BY <1>1, QuietLine DEF Lines
<1>3. OneMessage(x)
  BY <1>1 DEF Lines, OneMessage, Quiet
<1> QED BY <1>1, <1>2, <1>3 DEF Lines, OneMessage

LEMMA QuietNCr == ASSUME NEW r \in Reassembly PROVE Quiet(r, CheckNCr(r))
BY DEF Quiet, CheckNCr, Reassembly

\* isotp_task takes a frame that adds nothing to the reassembly.
LEMMA TakeLines ==
  ASSUME Inv, Lines, NEW pci, TakeFrame(pci), Quiet(rx, rx'), UNCHANGED <<ecu, crossed>>
  PROVE  Lines'
<1>1. PICK n \in Nat : /\ Len(q_twai_rx) = n + 1 /\ Len(q_twai_rx') = n
                       /\ \A i \in 1..n : q_twai_rx'[i] = q_twai_rx[i + 1]
  BY Taken
<1>2. PICK q, p, r, x : q = q_twai_rx /\ p = q_twai_rx' /\ r = rx /\ x = rx'
  OBVIOUS
<1>3. \A e, m, len, k : Follows(r, e, m, len, k) => Follows(x, e, m, len, k)
  BY <1>2, FollowsQuiet DEF Quiet
<1>4. ASSUME NEW e \in Ecus \ crossed PROVE InLine(p, x, e, ecu[e])
  <2>1. InLine(q, r, e, ecu[e])
    BY <1>2 DEF Lines
  <2> QED BY <1>1, <1>2, <1>3, <2>1, TailInLine
<1>5. OneMessage(x)
  BY <1>2 DEF Lines, OneMessage, Quiet
<1> QED BY <1>2, <1>4, <1>5 DEF Lines, OneMessage

\* A First Frame at the head of the queue starts a reassembly that no Consecutive Frame in the
\* queue and no sender goes on with, until its Flow Control comes. Other ECUs have nothing to do
\* with the new reassembly.
LEMMA HandleFFLines == Inv /\ Lines /\ FcLines /\ HandleFF => Lines' /\ FcLines'
<1> SUFFICES ASSUME Inv, Lines, FcLines, HandleFF PROVE Lines' /\ FcLines'
  OBVIOUS
<1> DEFINE f == Head(q_twai_rx)
<1>1. TakeFrame("FF") /\ rx' = StartRx(f) /\ UNCHANGED <<ecu, crossed>>
  BY DEF HandleFF
<1>2. PICK n \in Nat : /\ Len(q_twai_rx) = n + 1 /\ Len(q_twai_rx') = n
                       /\ \A i \in 1..n : q_twai_rx'[i] = q_twai_rx[i + 1]
                       /\ q_twai_rx[1] = f /\ f \in Frame /\ f.pci = "FF"
  BY <1>1, Taken
<1>3. \A i \in 1..Len(q_twai_tx') :
        \/ i \in 1..Len(q_twai_tx) /\ q_twai_tx'[i] = q_twai_tx[i]
        \/ q_twai_tx'[i].of = f.id /\ q_twai_tx'[i].m = f.m
  BY DEF HandleFF, SendFcCts, Inv, TypeOK
<1> HIDE DEF f
<1>4. PICK o, u, q, p, r, x : /\ o = q_twai_tx /\ u = q_twai_tx' /\ q = q_twai_rx /\ p = q_twai_rx'
                             /\ r = rx /\ x = StartRx(f)
  OBVIOUS
<1>5. x.active /\ x.buffer = <<f>> /\ Len(x.buffer) = 1 /\ x.buffer[1] = f /\ f.len \in 0..MaxPayload
      /\ \A j \in 1..Len(x.buffer) : j = 1
  BY <1>2, <1>4 DEF StartRx, Frame
<1>6. /\ Len(q) = n + 1 /\ Len(p) = n /\ \A i \in 1..n : p[i] = q[i + 1] /\ i + 1 \in 2..(n + 1)
      /\ 1 \in 1..Len(q) /\ q[1] = f /\ 1 + 1 = 2
  BY <1>2, <1>4
<1>7. ASSUME NEW e \in Ecus \ crossed, f.id # RespId[e]
      PROVE  InLine(p, x, e, ecu[e]) /\ FcInLine(u, p, x, e, ecu[e])
  <2>1. InLine(q, r, e, ecu[e]) /\ FcInLine(o, q, r, e, ecu[e])
    BY <1>4 DEF Lines, FcLines
  <2>2. \A m, len, k : Follows(x, e, m, len, k)
    BY <1>5, <1>7 DEF Follows
  <2>3. InLine(p, x, e, ecu[e])
    BY <1>6, <2>1, <2>2, TailInLine
  <2>4. Ready(q, r, e, ecu[e]) => Ready(p, x, e, ecu[e])
    BY <1>6, <2>2 DEF Ready
  <2>5. FcInLine(u, p, x, e, ecu[e])
    BY <1>3, <1>4, <1>7, <2>1, <2>4 DEF FcInLine
  <2> QED BY <2>3, <2>5
<1>8. ASSUME NEW e \in Ecus \ crossed, f.id = RespId[e]
      PROVE  f.k = 0 /\ InLine(p, x, e, ecu[e]) /\ FcInLine(u, p, x, e, ecu[e])
  <2>1. PICK s : s = ecu[e] /\ InLine(q, r, e, s) /\ FcInLine(o, q, r, e, s)
    BY <1>4 DEF Lines, FcLines
  <2>2. /\ s.st # "send" /\ f.k = 0 /\ Began(s, f.m)
        /\ \A j \in 2..(n + 1) : ~(q[j].id = RespId[e] /\ q[j].pci = "CF")
        /\ f.m = s.m => s.st = "wait_fc" /\ f.len = s.len /\ \A j \in 2..(n + 1) : q[j].id # RespId[e]
    <3>1. /\ s.st # "send" /\ q[1].k = 0 /\ Began(s, q[1].m)
          /\ \A j \in (1 + 1)..Len(q) : ~(q[j].id = RespId[e] /\ q[j].pci = "CF")
          /\ q[1].m = s.m => /\ s.st = "wait_fc" /\ q[1].len = s.len
                             /\ \A j \in (1 + 1)..Len(q) : q[j].id # RespId[e]
      BY <1>2, <1>6, <1>8, <2>1 DEF InLine, FirstWaits
    <3> QED BY <1>6, <3>1
  <2>3. InLine(p, x, e, s)
    <3>1. /\ Len(q) = n + 1 /\ Len(p) = n /\ (\A i \in 1..n : p[i] = q[i + 1]) /\ InLine(q, r, e, s)
          /\ s.st = "send" /\ Follows(r, e, s.m, s.len, s.k) => Follows(x, e, s.m, s.len, s.k)
          /\ \A i \in 2..(n + 1) :
               /\ q[i].id = RespId[e] /\ q[i].pci = "CF"
               /\ Follows(r, e, q[i].m, q[i].len, q[i].k)
               => Follows(x, e, q[i].m, q[i].len, q[i].k)
      BY <1>6, <2>1, <2>2
    <3> QED BY <3>1, TailInLine
  <2>4. ~Ready(q, r, e, s)
    BY <1>6, <1>8 DEF Ready
  <2>5. f.m = s.m => Ready(p, x, e, s)
    <3>1. f.m = s.m => Follows(x, e, s.m, s.len, 1)
      BY <1>5, <2>2 DEF Follows
    <3>2. f.m = s.m => \A j \in 1..n : p[j].id # RespId[e]
      BY <1>6, <2>2
    <3> QED BY <1>6, <3>1, <3>2 DEF Ready
  <2>6. FcInLine(u, p, x, e, s)
    <3> SUFFICES ASSUME NEW i \in 1..Len(u), u[i].of = RespId[e]
                 PROVE  /\ Began(s, u[i].m)
                        /\ u[i].m = s.m /\ s.st = "wait_fc" => Ready(p, x, e, s)
      BY DEF FcInLine
    <3>1. CASE i \in 1..Len(o) /\ u[i] = o[i]
      BY <2>1, <2>4, <3>1 DEF FcInLine
    <3>2. CASE u[i].m = f.m
      BY <2>2, <2>5, <3>2
    <3> QED BY <1>3, <1>4, <3>1, <3>2
  <2> QED BY <2>1, <2>2, <2>3, <2>6
<1>9. OneMessage(x)
  <2>1. ASSUME NEW e \in Ecus \ crossed, Own(<<f>>, e) PROVE Spaced(<<f>>)
    <3>1. f.id = RespId[e]
      BY <2>1 DEF Own
    <3>2. f.k = 0 /\ CfCount(f.len) \in Nat
      BY <1>5, <1>8, <3>1, CfCounts
    <3> QED BY <3>2 DEF Spaced
  <2> QED BY <1>5, <2>1 DEF OneMessage
<1>10. \A e \in Ecus \ crossed : InLine(p, x, e, ecu[e]) /\ FcInLine(u, p, x, e, ecu[e])
  BY <1>7, <1>8
<1> QED BY <1>1, <1>4, <1>9, <1>10 DEF Lines, FcLines, OneMessage

\* A Consecutive Frame in sequence goes on with the reassembly; if it and all before it are of
\* one ECU, they are of one message.
LEMMA JoinLines ==
  ASSUME Inv, Lines, FcLines, TakeFrame("CF"), UNCHANGED <<q_twai_tx, ecu, crossed>>, rx.active,
         rx'.buffer = Append(rx.buffer, Head(q_twai_rx))
  PROVE  /\ Lines' /\ FcLines'
         /\ \A e \in Ecus \ crossed : Own(rx'.buffer, e) => Spaced(rx'.buffer)
<1> DEFINE f == Head(q_twai_rx)
<1>1. PICK n \in Nat : /\ Len(q_twai_rx) = n + 1 /\ Len(q_twai_rx') = n
                       /\ \A i \in 1..n : q_twai_rx'[i] = q_twai_rx[i + 1]
                       /\ q_twai_rx[1] = f /\ f \in Frame /\ f.pci = "CF"
                       /\ \A i \in 1..(n + 1) : q_twai_rx[i] \in Frame
  BY Taken
<1>2. PICK q, p, r, x : q = q_twai_rx /\ p = q_twai_rx' /\ r = rx /\ x = rx'
  OBVIOUS
<1>3. r.buffer \in Seq(Frame) /\ r.buffer # <<>>
  BY <1>2 DEF Inv, TypeOK, Reassembly, Shape
<1>4. PICK l \in Nat : l = Len(r.buffer) /\ l >= 1
  BY <1>3
<1>5. /\ Len(x.buffer) = l + 1 /\ x.buffer[l + 1] = f
      /\ \A j \in 1..l : x.buffer[j] = r.buffer[j] /\ r.buffer[j] \in Frame
  BY <1>2, <1>3, <1>4
<1> HIDE DEF f
<1>6. \A j \in 1..(l + 1) : (j \in 1..l /\ x.buffer[j] = r.buffer[j]) \/ (j = l + 1 /\ x.buffer[j] = f)
  BY <1>5
<1>7. x.buffer[1] = r.buffer[1] /\ 1 \in 1..l
  BY <1>4, <1>5
<1>8. ASSUME NEW e, NEW m, NEW len, NEW k, Follows(r, e, m, len, k), f.id = RespId[e] => f.k < k
      PROVE  Follows(x, e, m, len, k)
  <2> SUFFICES ASSUME x.buffer[1].id = RespId[e]
               PROVE  /\ x.buffer[1].m = m /\ x.buffer[1].len = len
                      /\ \A j \in 1..(l + 1) : x.buffer[j].id = RespId[e] => x.buffer[j].k < k
    BY <1>5 DEF Follows
  <2>1. /\ r.buffer[1].m = m /\ r.buffer[1].len = len
        /\ \A j \in 1..l : r.buffer[j].id = RespId[e] => r.buffer[j].k < k
    BY <1>2, <1>4, <1>7, <1>8 DEF Follows
  <2> QED BY <1>6, <1>7, <1>8, <2>1
<1>9. ASSUME NEW e \in Ecus \ crossed, f.id = RespId[e]
      PROVE  /\ f.k \in 1..CfCount(f.len) /\ Follows(r, e, f.m, f.len, f.k)
             /\ ecu[e].st = "send" => f.k < ecu[e].k
             /\ \A i \in 2..(n + 1) : q[i].id = RespId[e] /\ q[i].pci = "CF" => f.k < q[i].k
  <2>1. InLine(q, r, e, ecu[e]) /\ 1 \in 1..Len(q) /\ q[1] = f /\ Len(q) = n + 1 /\ 1 + 1 = 2
    BY <1>1, <1>2 DEF Lines
  <2>2. /\ q[1].k \in 1..CfCount(q[1].len)
        /\ Follows(r, e, q[1].m, q[1].len, q[1].k)
        /\ ecu[e].st = "send" => q[1].k < ecu[e].k
        /\ \A j \in (1 + 1)..Len(q) : q[j].id = RespId[e] /\ q[j].pci = "CF" => q[1].k < q[j].k
    BY <1>1, <1>9, <2>1 DEF InLine, OthersFollow
  <2> QED BY <2>1, <2>2
<1>10. ASSUME NEW e \in Ecus \ crossed PROVE InLine(p, x, e, ecu[e])
  <2>1. InLine(q, r, e, ecu[e])
    BY <1>2 DEF Lines
  <2>2. ecu[e].st = "send" /\ Follows(r, e, ecu[e].m, ecu[e].len, ecu[e].k) =>
          Follows(x, e, ecu[e].m, ecu[e].len, ecu[e].k)
    BY <1>8, <1>9
  <2>3. \A i \in 2..(n + 1) :
          /\ q[i].id = RespId[e] /\ q[i].pci = "CF"
          /\ Follows(r, e, q[i].m, q[i].len, q[i].k)
          => Follows(x, e, q[i].m, q[i].len, q[i].k)
    BY <1>8, <1>9
  <2>4. Len(q) = n + 1 /\ Len(p) = n /\ \A i \in 1..n : p[i] = q[i + 1]
    BY <1>1, <1>2
  <2> QED BY <2>1, <2>2, <2>3, <2>4, TailInLine
<1>11. ASSUME NEW e \in Ecus \ crossed, Own(x.buffer, e) PROVE Spaced(x.buffer)
  <2>1. \A j \in 1..(l + 1) : x.buffer[j].id = RespId[e]
    BY <1>5, <1>11 DEF Own
  <2>2. Own(r.buffer, e)
    <3>1. \A j \in 1..l : j \in 1..(l + 1)
      OBVIOUS
    <3> QED BY <1>4, <1>5, <2>1, <3>1 DEF Own
  <2>3. Spaced(r.buffer)
    BY <1>2, <2>2 DEF Lines, OneMessage
  <2>4. l + 1 \in 1..(l + 1) /\ f.id = RespId[e] /\ r.buffer[1].id = RespId[e]
    BY <1>4, <1>5, <1>7, <2>1
  <2>5. /\ r.buffer[1].k = 0
        /\ \A j \in 1..l : r.buffer[j].m = r.buffer[1].m /\ r.buffer[j].k <= CfCount(r.buffer[1].len)
        /\ \A i, j \in 1..l : i <= j => r.buffer[j].k - r.buffer[i].k >= j - i
    BY <1>4, <2>3 DEF Spaced
  <2>6. /\ f.k \in 1..CfCount(f.len) /\ r.buffer[1].m = f.m /\ r.buffer[1].len = f.len
        /\ \A j \in 1..l : r.buffer[j].k < f.k
    <3>1. f.k \in 1..CfCount(f.len) /\ Follows(r, e, f.m, f.len, f.k)
      BY <1>9, <2>4
    <3>2. \A j \in 1..l : r.buffer[j].id = RespId[e]
      BY <1>4, <2>2 DEF Own
    <3> QED BY <1>2, <1>4, <2>4, <3>1, <3>2 DEF Follows
  <2>7. /\ \A j \in 1..l : r.buffer[j].k \in Nat
        /\ f.k \in Nat /\ f.k <= CfCount(f.len)
    <3>1. \A j \in 1..l : r.buffer[j].k \in Nat
      BY <1>5 DEF Frame
    <3>2. f.k \in Nat /\ f.len \in 0..MaxPayload
      BY <1>1 DEF Frame
    <3>3. CfCount(f.len) \in Nat
      BY <3>2, CfCounts
    <3> QED BY <2>6, <3>1, <3>2, <3>3
  <2>8. \A j \in 1..(l + 1) :
          x.buffer[j].m = x.buffer[1].m /\ x.buffer[j].k <= CfCount(x.buffer[1].len)
    BY <1>6, <1>7, <2>5, <2>6, <2>7
  <2>9. \A i \in 1..l : f.k - r.buffer[i].k >= (l + 1) - i
    <3> SUFFICES ASSUME NEW i \in 1..l PROVE f.k - r.buffer[i].k >= (l + 1) - i
      OBVIOUS
    <3>1. l \in 1..l /\ i <= l
      BY <1>4
    <3>2. r.buffer[l].k - r.buffer[i].k >= l - i /\ r.buffer[l].k < f.k
      BY <2>5, <2>6, <3>1
    <3>3. r.buffer[l].k \in Nat /\ r.buffer[i].k \in Nat /\ f.k \in Nat
      BY <2>7, <3>1
    <3> QED BY <3>2, <3>3
  <2>10. \A i, j \in 1..(l + 1) : i <= j => x.buffer[j].k - x.buffer[i].k >= j - i
    <3> SUFFICES ASSUME NEW i \in 1..(l + 1), NEW j \in 1..(l + 1), i <= j
                 PROVE  x.buffer[j].k - x.buffer[i].k >= j - i
      OBVIOUS
    <3>1. CASE j \in 1..l
      <4>1. i \in 1..l
        BY <3>1
      <4>2. r.buffer[j].k - r.buffer[i].k >= j - i
        BY <2>5, <3>1, <4>1
      <4> QED BY <1>5, <3>1, <4>1, <4>2
    <3>2. CASE j = l + 1 /\ i \in 1..l
      BY <1>5, <2>9, <3>2
    <3>3. CASE j = l + 1 /\ i = l + 1
      BY <1>5, <2>7, <3>3
    <3> QED BY <3>1, <3>2, <3>3
  <2>11. x.buffer[1].k = 0
    BY <1>7, <2>5
  <2> QED BY <1>5, <2>8, <2>10, <2>11 DEF Spaced
<1>12. OneMessage(x)
  BY <1>11 DEF OneMessage
<1>13. ASSUME NEW e \in Ecus \ crossed PROVE FcInLine(q_twai_tx, p, x, e, ecu[e])
  <2>1. FcInLine(q_twai_tx, q, r, e, ecu[e])
    BY <1>2 DEF FcLines
  <2>2. ASSUME Ready(q, r, e, ecu[e]) PROVE Ready(p, x, e, ecu[e])
    <3>1. 1 \in 1..Len(q) /\ q[1] = f /\ \A j \in 1..Len(p) : j + 1 \in 1..Len(q) /\ p[j] = q[j + 1]
      BY <1>1, <1>2
    <3>2. f.id # RespId[e] /\ \A j \in 1..Len(p) : p[j].id # RespId[e]
      BY <2>2, <3>1 DEF Ready
    <3> QED BY <1>8, <2>2, <3>2 DEF Ready
  <2> QED BY <2>1, <2>2 DEF FcInLine
<1> QED BY <1>2, <1>10, <1>11, <1>12, <1>13 DEF Lines, FcLines, OneMessage

\* A step of isotp_task that adds nothing to the reassembly leaves the Flow Controls in line, as
\* does one of the ECUs and other nodes.
LEMMA QuietFcLines ==
  ASSUME FcLines, Quiet(rx, rx'), UNCHANGED <<q_twai_tx, ecu, crossed>>,
         \A j \in 1..Len(q_twai_rx') : \E i \in 1..Len(q_twai_rx) : q_twai_rx'[j] = q_twai_rx[i]
  PROVE  FcLines'
<1>1. PICK x, p : x = rx' /\ p = q_twai_rx'
  OBVIOUS
<1>2. \A e, m, len, k : Follows(rx, e, m, len, k) => Follows(x, e, m, len, k)
  BY <1>1, FollowsQuiet DEF Quiet
<1>3. \A e, s : Ready(q_twai_rx, rx, e, s) => Ready(p, x, e, s)
  BY <1>1, <1>2 DEF Ready
<1>4. \A e \in Ecus \ crossed : FcInLine(q_twai_tx, p, x, e, ecu[e])
  BY <1>3 DEF FcLines, FcInLine
<1> QED BY <1>1, <1>4 DEF FcLines

LEMMA TakeFcLines ==
  ASSUME Inv, FcLines, NEW pci, TakeFrame(pci), Quiet(rx, rx'), UNCHANGED <<q_twai_tx, ecu, crossed>>
  PROVE  FcLines'
<1>1. PICK n \in Nat : /\ Len(q_twai_rx) = n + 1 /\ Len(q_twai_rx') = n
                       /\ \A i \in 1..n : q_twai_rx'[i] = q_twai_rx[i + 1]
  BY Taken
<1>2. \A j \in 1..n : j + 1 \in 1..(n + 1)
  OBVIOUS
<1>3. \A j \in 1..Len(q_twai_rx') : \E i \in 1..Len(q_twai_rx) : q_twai_rx'[j] = q_twai_rx[i]
  BY <1>1, <1>2
<1> QED BY <1>3, QuietFcLines

\* A frame f is put on the bus, by an ECU e that does not wait for a Flow Control, or by another
\* node: no ECU that waits for one sends anything.
LEMMA OnBusFcLines ==
  ASSUME Inv, FcLines, NEW f, OnBus(f), UNCHANGED <<rx, q_twai_tx, crossed>>,
         \A d \in Ecus :
           \/ ecu'[d] = ecu[d] /\ f.id # RespId[d]
           \/ /\ ecu'[d].m \in Nat /\ ecu[d].m <= ecu'[d].m
              /\ ecu'[d].st = "idle" => ecu[d].m < ecu'[d].m
              /\ ecu'[d].st = "wait_fc" => ecu[d].st = "idle"
  PROVE  FcLines'
<1>1. PICK n \in Nat :
        /\ Len(q_twai_rx) = n
        /\ \/ q_twai_rx' = q_twai_rx
           \/ /\ Len(q_twai_rx') = n + 1 /\ q_twai_rx'[n + 1] = f
              /\ \A i \in 1..n : q_twai_rx'[i] = q_twai_rx[i]
  BY PutOnBus
<1>2. PICK p, o, g : p = q_twai_rx' /\ o = q_twai_tx /\ g = ecu'
  OBVIOUS
<1>3. \A j \in 1..Len(p) : p[j] = f \/ \E i \in 1..Len(q_twai_rx) : p[j] = q_twai_rx[i]
  <2>1. \A j \in 1..(n + 1) : j \in 1..n \/ j = n + 1
    OBVIOUS
  <2> QED BY <1>1, <1>2, <2>1
<1>4. \A i \in 1..Len(o) : o[i].m \in Nat
  <2>1. \A i \in 1..Len(o) : o[i] \in FlowControl
    BY <1>2 DEF Inv, TypeOK
  <2> QED BY <2>1 DEF FlowControl
<1>5. ASSUME NEW d \in Ecus \ crossed PROVE FcInLine(o, p, rx, d, g[d])
  <2>1. FcInLine(o, q_twai_rx, rx, d, ecu[d])
    BY <1>2 DEF FcLines
  <2>2. CASE g[d] = ecu[d] /\ f.id # RespId[d]
    <3>1. Ready(q_twai_rx, rx, d, ecu[d]) => Ready(p, rx, d, ecu[d])
      BY <1>3, <2>2 DEF Ready
    <3> QED BY <2>1, <2>2, <3>1 DEF FcInLine
  <2>3. CASE /\ g[d].m \in Nat /\ ecu[d].m <= g[d].m
             /\ g[d].st = "idle" => ecu[d].m < g[d].m
             /\ g[d].st = "wait_fc" => ecu[d].st = "idle"
    <3>1. ecu[d].m \in Nat
      BY DEF Inv, TypeOK
    <3>2. \A m \in Nat : Began(ecu[d], m) =>
            Began(g[d], m) /\ ~(m = g[d].m /\ g[d].st = "wait_fc")
      BY <2>3, <3>1 DEF Began
    <3> QED BY <1>4, <2>1, <3>2 DEF FcInLine
  <2> QED BY <1>2, <2>2, <2>3
<1> QED BY <1>2, <1>5 DEF FcLines

LEMMA EcuFcLines ==
  ASSUME Inv, FcLines, NEW e \in Ecus, EcuSendSF(e) \/ EcuSendFF(e) \/ EcuSendCF(e) \/ EcuGivesUp(e)
  PROVE  FcLines'
<1> DEFINE Sender == [st : {"idle", "wait_fc", "send"}, m : Nat, len : 0..MaxPayload, k : Nat]
<1>1. ecu \in [Ecus -> Sender] /\ ecu[e] \in Sender
  BY DEF Inv, TypeOK
<1>2. PICK s : s = ecu[e] /\ s.m \in Nat /\ s.k \in Nat
  BY <1>1
<1>3. /\ UNCHANGED <<rx, q_twai_tx, crossed>> /\ \A d \in Ecus : d # e => ecu'[d] = ecu[d]
  BY <1>1 DEF EcuSendSF, EcuSendFF, EcuSendCF, EcuGivesUp, EcuStep
<1>4. /\ ecu'[e].m \in Nat /\ s.m <= ecu'[e].m
      /\ ecu'[e].st = "idle" => s.m < ecu'[e].m
      /\ ecu'[e].st = "wait_fc" => s.st = "idle"
  <2>1. CASE EcuSendSF(e)
    <3>1. ecu' = [ecu EXCEPT ![e] = [s EXCEPT !.m = @ + 1]] /\ s.st = "idle"
      BY <1>2, <2>1 DEF EcuSendSF, EcuStep
    <3> QED BY <1>1, <1>2, <3>1
  <2>2. CASE EcuSendFF(e)
    <3>1. PICK len : /\ ecu' = [ecu EXCEPT ![e] = [s EXCEPT !.st = "wait_fc", !.len = len, !.k = 1]]
                     /\ s.st = "idle"
      BY <1>2, <2>2 DEF EcuSendFF, EcuStep
    <3> QED BY <1>1, <1>2, <3>1
  <2>3. CASE EcuSendCF(e)
    <3>1. /\ \/ ecu' = [ecu EXCEPT ![e] = [s EXCEPT !.k = @ + 1]]
             \/ ecu' = [ecu EXCEPT ![e] = [s EXCEPT !.st = "idle", !.m = @ + 1]]
          /\ s.st = "send"
      BY <1>2, <2>3 DEF EcuSendCF, EcuStep
    <3>2. \/ ecu'[e] = [s EXCEPT !.k = @ + 1]
          \/ ecu'[e] = [s EXCEPT !.st = "idle", !.m = @ + 1]
      BY <1>1, <3>1
    <3>3. PICK g : g = ecu'[e]
      OBVIOUS
    <3>4. CASE g = [s EXCEPT !.k = @ + 1]
      <4>1. g.st = "send" /\ g.m = s.m
        BY <1>1, <1>2, <3>1, <3>4
      <4> QED BY <1>2, <3>3, <4>1
    <3>5. CASE g = [s EXCEPT !.st = "idle", !.m = @ + 1]
      <4>1. g.st = "idle" /\ g.m = s.m + 1
        BY <1>1, <1>2, <3>5
      <4> QED BY <1>2, <3>3, <4>1
    <3> QED BY <3>2, <3>3, <3>4, <3>5
  <2>4. CASE EcuGivesUp(e)
    <3>1. ecu' = [ecu EXCEPT ![e].st = "idle", ![e].m = @ + 1]
      BY <2>4 DEF EcuGivesUp
    <3> QED BY <1>1, <1>2, <3>1
  <2> QED BY <2>1, <2>2, <2>3, <2>4
<1>5. CASE EcuGivesUp(e)
  <2>1. UNCHANGED q_twai_rx
    BY <1>5 DEF EcuGivesUp
  <2>2. PICK g : g = ecu'
    OBVIOUS
  <2>3. \A i \in 1..Len(q_twai_tx) : q_twai_tx[i].m \in Nat
    <3>1. \A i \in 1..Len(q_twai_tx) : q_twai_tx[i] \in FlowControl
      BY DEF Inv, TypeOK
    <3> QED BY <3>1 DEF FlowControl
  <2>4. g[e].st = "idle"
    BY <1>1, <1>5, <2>2 DEF EcuGivesUp
  <2>5. \A m \in Nat : Began(s, m) => Began(g[e], m)
    BY <1>2, <1>4, <2>2, <2>4 DEF Began
  <2>6. \A d \in Ecus \ crossed : FcInLine(q_twai_tx, q_twai_rx, rx, d, g[d])
    BY <1>2, <1>3, <2>2, <2>3, <2>4, <2>5 DEF FcLines, FcInLine
  <2> QED BY <1>3, <2>1, <2>2, <2>6 DEF FcLines
<1>6. CASE EcuSendSF(e) \/ EcuSendFF(e) \/ EcuSendCF(e)
  <2>1. PICK pci, len, sn, k, t : EcuStep(e, Part(e, pci, len, sn, k), t)
    BY <1>6 DEF EcuSendSF, EcuSendFF, EcuSendCF
  <2>2. PICK f : OnBus(f) /\ f.id = RespId[e] /\ f = Part(e, pci, len, sn, k)
    BY <2>1 DEF EcuStep, Part
  <2>3. \A d \in Ecus : d # e => f.id # RespId[d]
    BY <2>2, EcuIds
  <2> QED BY <1>2, <1>3, <1>4, <2>2, <2>3, OnBusFcLines
<1> QED BY <1>5, <1>6

\* twai_task transmits a Flow Control: an ECU it releases was ready for it, or is crossed from
\* then on.
LEMMA TwaiTransmitLines == Inv /\ Lines /\ FcLines /\ TwaiTransmit => Lines' /\ FcLines'
<1> DEFINE Sender == [st : {"idle", "wait_fc", "send"}, m : Nat, len : 0..MaxPayload, k : Nat]
<1> SUFFICES ASSUME Inv, Lines, FcLines, TwaiTransmit PROVE Lines' /\ FcLines'
  OBVIOUS
<1>1. /\ q_twai_tx \in Seq(FlowControl) /\ q_twai_tx # <<>> /\ q_twai_tx' = Tail(q_twai_tx)
      /\ UNCHANGED <<rx, q_twai_rx>> /\ ecu \in [Ecus -> Sender]
  BY DEF TwaiTransmit, Inv, TypeOK
<1>2. PICK fc, o, u, g : fc = Head(q_twai_tx) /\ o = q_twai_tx /\ u = q_twai_tx' /\ g = ecu'
  OBVIOUS
<1>3. /\ 1 \in 1..Len(o) /\ fc = o[1]
      /\ \A i \in 1..Len(u) : i + 1 \in 1..Len(o) /\ u[i] = o[i + 1]
  BY <1>1, <1>2
<1>4. /\ crossed \subseteq crossed'
      /\ \A e \in Ecus \ crossed' :
           \/ g[e] = ecu[e]
           \/ g[e] = [ecu[e] EXCEPT !.st = "send"] /\ ecu[e].st = "wait_fc" /\ Answers(fc, e)
  <2>1. CASE UNCHANGED <<ecu, crossed>>
    BY <1>2, <2>1
  <2>2. CASE /\ ecu' = [e \in Ecus |-> IF e \in Released(fc) THEN [ecu[e] EXCEPT !.st = "send"]
                                                        ELSE ecu[e]]
             /\ crossed' = crossed \cup {e \in Released(fc) : ~Answers(fc, e)}
    BY <1>2, <2>2 DEF Released
  <2> QED BY <1>2, <2>1, <2>2 DEF TwaiTransmit
<1>5. ASSUME NEW e \in Ecus \ crossed'
      PROVE  InLine(q_twai_rx, rx, e, g[e]) /\ FcInLine(u, q_twai_rx, rx, e, g[e])
  <2>1. PICK s : s = ecu[e] /\ InLine(q_twai_rx, rx, e, s) /\ FcInLine(o, q_twai_rx, rx, e, s)
    BY <1>2, <1>4 DEF Lines, FcLines
  <2>2. CASE g[e] = s
    BY <1>3, <2>1, <2>2 DEF FcInLine
  <2>3. CASE g[e] = [s EXCEPT !.st = "send"] /\ s.st = "wait_fc" /\ Answers(fc, e)
    <3>1. PICK t : t = g[e] /\ t.st = "send" /\ t.m = s.m /\ t.len = s.len /\ t.k = s.k
      BY <1>1, <2>1, <2>3
    <3>2. Ready(q_twai_rx, rx, e, s)
      BY <1>3, <2>1, <2>3 DEF FcInLine, Answers
    <3>3. Sending(rx, e, t)
      BY <2>1, <2>3, <3>1, <3>2 DEF InLine, Sending, Ready
    <3>4. FirstWaits(q_twai_rx, e, t) /\ OthersFollow(q_twai_rx, rx, e, t)
      BY <3>2 DEF Ready, FirstWaits, OthersFollow
    <3>5. FcInLine(u, q_twai_rx, rx, e, t)
      BY <1>3, <2>1, <2>3, <3>1 DEF FcInLine, Began
    <3> QED BY <3>1, <3>3, <3>4, <3>5 DEF InLine
  <2> QED BY <1>4, <2>1, <2>2, <2>3
<1>6. rx.active => \A e \in Ecus \ crossed' : Own(rx.buffer, e) => Spaced(rx.buffer)
  BY <1>4 DEF Lines, OneMessage
<1> QED BY <1>1, <1>2, <1>5, <1>6 DEF Lines, FcLines, OneMessage

\* A message that covers its length and has the frames of one message, further and further on,
\* has them all: there is no room for a gap.
LEMMA Complete ==
  ASSUME NEW msg \in Delivered, msg.content # <<>>, CoversLength(msg), Spaced(msg.content)
  PROVE  Whole(msg)
<1>1. PICK c : c = msg.content /\ c \in Seq(Frame) /\ c # <<>> /\ msg.length \in 0..MaxPayload
  BY DEF Delivered
<1>2. PICK n \in Nat : n + 1 = Len(c)
  <2>1. Len(c) \in Nat /\ Len(c) # 0
    BY <1>1
  <2>2. Len(c) - 1 \in Nat /\ (Len(c) - 1) + 1 = Len(c)
    BY <2>1
  <2> QED BY <2>2
<1>3. PICK l : l = CfCount(msg.length)
  OBVIOUS
<1>4. l \in Nat /\ n >= l /\ c[1].len = msg.length
  <2>1. FFData + CFData * (Len(c) - 1) >= msg.length /\ c[1].len = msg.length
    BY <1>1 DEF CoversLength
  <2>2. FFData + CFData * n >= msg.length
    <3>1. Len(c) - 1 = n
      BY <1>2
    <3> QED BY <2>1, <3>1
  <2> QED BY <1>1, <1>3, <2>1, <2>2, CfCounts
<1>5. /\ c[1].k = 0 /\ c[n + 1].k <= l
      /\ \A j \in 1..(n + 1) : c[j].m = c[1].m
      /\ \A i, j \in 1..(n + 1) : i <= j => c[j].k - c[i].k >= j - i
  <2>1. n + 1 \in 1..Len(c)
    BY <1>2
  <2> QED BY <1>1, <1>2, <1>3, <1>4, <2>1 DEF Spaced
<1>6. \A j \in 1..(n + 1) : c[j].k \in Nat
  <2>1. \A j \in 1..(n + 1) : c[j] \in Frame
    BY <1>1, <1>2
  <2> QED BY <2>1 DEF Frame
<1>7. ASSUME NEW j \in 1..(n + 1)
      PROVE  /\ c[j].k >= j - 1 /\ c[n + 1].k - c[j].k >= (n + 1) - j
             /\ c[j].k \in Nat /\ c[n + 1].k \in Nat
  <2>1. 1 \in 1..(n + 1) /\ n + 1 \in 1..(n + 1) /\ 1 <= j /\ j <= n + 1
    OBVIOUS
  <2>2. c[j].k - c[1].k >= j - 1 /\ c[n + 1].k - c[j].k >= (n + 1) - j
    BY <1>5, <2>1
  <2>3. c[j].k \in Nat /\ c[n + 1].k \in Nat
    BY <1>6, <2>1
  <2> QED BY <1>5, <2>2, <2>3
<1>8. n = l
  <2>1. n + 1 \in 1..(n + 1)
    OBVIOUS
  <2>2. c[n + 1].k >= n /\ c[n + 1].k \in Nat
    BY <1>7, <2>1
  <2> QED BY <1>4, <1>5, <2>2
<1>9. ASSUME NEW j \in 1..(n + 1) PROVE c[j].k = j - 1
  <2>1. c[n + 1].k <= n
    BY <1>5, <1>8
  <2> QED BY <1>7, <2>1
<1> QED BY <1>1, <1>2, <1>3, <1>5, <1>8, <1>9 DEF Whole

\* Handing over a message leaves the queue with whole messages.
LEMMA DeliverWhole ==
  ASSUME Inv, AllWhole, NoStaleBytes', q_isotp_rx' \in Seq(Delivered), NEW msg, Deliver(msg),
         UNCHANGED crossed, msg.content # <<>>,
         msg.content[1].pci = "FF" =>
           \A e \in Ecus \ crossed : Own(msg.content, e) => Spaced(msg.content)
  PROVE  AllWhole'
<1>1. PICK p : p = q_isotp_rx' /\ p \in Seq(Delivered)
  OBVIOUS
<1>2. q_isotp_rx \in Seq(Delivered)
  BY DEF Inv, TypeOK
<1>3. \A i \in 1..Len(p) : p[i].content[1].pci = "SF" \/ CoversLength(p[i])
  BY <1>1 DEF NoStaleBytes
<1>4. ASSUME NEW i \in 1..Len(p) PROVE Whole(p[i])
  <2>1. (i \in 1..Len(q_isotp_rx) /\ p[i] = q_isotp_rx[i]) \/ p[i] = msg
    BY <1>1, <1>2 DEF Deliver
  <2>2. CASE i \in 1..Len(q_isotp_rx) /\ p[i] = q_isotp_rx[i]
    BY <2>2 DEF AllWhole
  <2>3. CASE p[i] = msg
    <3>1. msg \in Delivered /\ (msg.content[1].pci = "SF" \/ CoversLength(msg))
      BY <1>1, <1>3, <2>3
    <3>2. CASE msg.content[1].pci = "FF" /\ \E e \in Ecus \ crossed : Own(msg.content, e)
      BY <2>3, <3>1, <3>2, Complete
    <3>3. CASE ~(msg.content[1].pci = "FF" /\ \E e \in Ecus \ crossed : Own(msg.content, e))
      BY <2>3, <3>3 DEF Whole
    <3> QED BY <3>2, <3>3
  <2> QED BY <2>1, <2>2, <2>3
<1> QED BY <1>1, <1>4 DEF AllWhole, Whole

LEMMA HandleSFApart == Inv /\ Apart /\ HandleSF => Apart'
<1> SUFFICES ASSUME Inv, Apart, HandleSF PROVE Lines' /\ FcLines' /\ AllWhole'
  BY DEF Apart
<1>1. TakeFrame("SF") /\ rx' = CheckNCr(rx) /\ UNCHANGED <<q_twai_tx, ecu, crossed>> /\ rx \in Reassembly
  BY DEF HandleSF, Inv, TypeOK
<1>2. Lines /\ FcLines /\ AllWhole
  BY DEF Apart
<1>3. Lines' /\ FcLines'
  BY <1>1, <1>2, QuietNCr, TakeLines, TakeFcLines
<1>4. AllWhole'
  <2>1. NoStaleBytes' /\ q_isotp_rx' \in Seq(Delivered)
    BY HandleSFInv DEF Inv, TypeOK
  <2>2. PICK f : f = Head(q_twai_rx) /\ f.pci = "SF"
    BY <1>1 DEF TakeFrame
  <2>3. Deliver(Message(f.id, f.len, <<f>>)) \/ UNCHANGED q_isotp_rx
    BY <2>2 DEF HandleSF
  <2>4. PICK msg : msg = Message(f.id, f.len, <<f>>)
    OBVIOUS
  <2>5. msg.content # <<>> /\ msg.content[1] = f
    BY <2>4 DEF Message
  <2>6. CASE Deliver(msg)
    BY <1>1, <1>2, <2>1, <2>2, <2>5, <2>6, DeliverWhole
  <2>7. CASE UNCHANGED q_isotp_rx
    BY <1>1, <1>2, <2>7 DEF AllWhole, Whole
  <2> QED BY <2>3, <2>4, <2>6, <2>7
<1> QED BY <1>3, <1>4

LEMMA HandleFFApart == Inv /\ Apart /\ HandleFF => Apart'
<1> SUFFICES ASSUME Inv, Apart, HandleFF PROVE Lines' /\ FcLines' /\ AllWhole'
  BY DEF Apart
<1>1. UNCHANGED <<q_isotp_rx, crossed>>
  BY DEF HandleFF
<1>2. Lines /\ FcLines /\ AllWhole
  BY DEF Apart
<1> QED BY <1>1, <1>2, HandleFFLines DEF AllWhole, Whole

LEMMA HandleCFApart == Inv /\ Apart /\ HandleCF => Apart'
<1> SUFFICES ASSUME Inv, Apart, HandleCF PROVE Lines' /\ FcLines' /\ AllWhole'
  BY DEF Apart
<1> DEFINE f   == Head(q_twai_rx)
           got == rx.received_len + ToCopy(rx)
           all == Append(rx.buffer, f)
<1>1. TakeFrame("CF") /\ UNCHANGED <<q_twai_tx, ecu, crossed>> /\ rx \in Reassembly
  BY DEF HandleCF, Inv, TypeOK
<1>2. Lines /\ FcLines /\ AllWhole
  BY DEF Apart
<1>3. CASE ~rx.active
  <2>1. rx' = CheckNCr(rx) /\ UNCHANGED q_isotp_rx
    BY <1>3 DEF HandleCF
  <2> QED BY <1>1, <1>2, <2>1, QuietNCr, TakeLines, TakeFcLines DEF AllWhole, Whole
<1>4. CASE rx.active /\ f.sn # rx.next_sn
  <2>1. rx' = [rx EXCEPT !.active = FALSE] /\ UNCHANGED q_isotp_rx
    BY <1>4 DEF HandleCF
  <2>2. Quiet(rx, rx')
    BY <1>1, <2>1 DEF Quiet, Reassembly
  <2> QED BY <1>1, <1>2, <2>1, <2>2, TakeLines, TakeFcLines DEF AllWhole, Whole
<1>5. CASE rx.active /\ f.sn = rx.next_sn
  <2>1. /\ rx' = [rx EXCEPT !.received_len = got, !.buffer = all, !.next_sn = NextSn(@),
                            !.age = 0, !.active = got < rx.expected_len]
        /\ IF got >= rx.expected_len THEN Deliver(Message(rx.rx_id, rx.expected_len, all))
                                     ELSE UNCHANGED q_isotp_rx
    BY <1>5 DEF HandleCF
  <2>2. rx'.buffer = all
    BY <1>1, <2>1 DEF Reassembly
  <2>3. Lines' /\ FcLines' /\ \A e \in Ecus \ crossed : Own(all, e) => Spaced(all)
    BY <1>1, <1>2, <1>5, <2>2, JoinLines
  <2>4. AllWhole'
    <3>1. NoStaleBytes' /\ q_isotp_rx' \in Seq(Delivered)
      BY HandleCFInv DEF Inv, TypeOK
    <3>2. PICK msg : msg = Message(rx.rx_id, rx.expected_len, all)
      OBVIOUS
    <3>3. all # <<>>
      <4>1. f \in Frame /\ rx.buffer \in Seq(Frame)
        BY <1>1, TakeFrameType DEF Inv, Reassembly
      <4> QED BY <4>1
    <3> HIDE DEF all, got, f
    <3>4. msg.content = all
      BY <3>2 DEF Message
    <3>5. CASE Deliver(msg)
      BY <1>1, <1>2, <2>3, <3>1, <3>3, <3>4, <3>5, DeliverWhole
    <3>6. CASE UNCHANGED q_isotp_rx
      BY <1>1, <1>2, <3>6 DEF AllWhole, Whole
    <3> QED BY <2>1, <3>2, <3>5, <3>6
  <2> QED BY <2>3, <2>4
<1> QED BY <1>3, <1>4, <1>5

LEMMA ConsumeWhole == Inv /\ AllWhole /\ Consume => AllWhole'
<1> SUFFICES ASSUME Inv, AllWhole, Consume PROVE AllWhole'
  OBVIOUS
<1>1. ASSUME NEW i \in 1..Len(q_isotp_rx')
      PROVE  i + 1 \in 1..Len(q_isotp_rx) /\ q_isotp_rx'[i] = q_isotp_rx[i + 1]
  BY <1>1 DEF Consume, Inv, TypeOK
<1>2. PICK p : p = q_isotp_rx'
  OBVIOUS
<1>3. \A i \in 1..Len(p) : Whole(p[i])
  BY <1>1, <1>2 DEF AllWhole
<1>4. UNCHANGED crossed
  BY DEF Consume
<1> QED BY <1>2, <1>3, <1>4 DEF AllWhole, Whole

LEMMA ApartNext == Inv /\ Apart /\ [Next]_vars => Apart'
<1> SUFFICES ASSUME Inv, Apart, [Next]_vars PROVE Apart'
  OBVIOUS
<1>0. rx \in Reassembly
  BY DEF Inv, TypeOK
<1>1. CASE HandleSF \/ HandleFF \/ HandleCF
  BY <1>1, HandleSFApart, HandleFFApart, HandleCFApart
<1>2. CASE HandleOther
  <2>1. /\ TakeFrame("OTHER") /\ rx' = CheckNCr(rx)
        /\ UNCHANGED <<q_isotp_rx, q_twai_tx, ecu, crossed>>
    BY <1>2 DEF HandleOther
  <2> QED BY <1>0, <2>1, QuietNCr, TakeLines, TakeFcLines DEF Apart, AllWhole, Whole
<1>3. ASSUME Quiet(rx, rx'), UNCHANGED <<q_twai_rx, q_twai_tx, ecu, crossed>>
      PROVE  Lines' /\ FcLines'
  BY <1>3, QuietLines, QuietFcLines DEF Apart
<1>4. CASE IdleIteration
  <2>1. rx' = CheckNCr(rx) /\ UNCHANGED <<q_twai_rx, q_isotp_rx, q_twai_tx, ecu, crossed>>
    BY <1>4 DEF IdleIteration
  <2> QED BY <1>0, <1>3, <2>1, QuietNCr DEF Apart, AllWhole, Whole
<1>5. CASE \/ SendSingle \/ \E e \in Ecus : SendMulti(e)
           \/ StoreTxId \/ StoreRxId \/ SendReturns
  <2>1. UNCHANGED <<rx, q_twai_rx, q_isotp_rx, q_twai_tx, ecu, crossed>>
    BY <1>5 DEF SendSingle, SendMulti, StoreTxId, StoreRxId, SendReturns
  <2> QED BY <1>3, <2>1 DEF Quiet, Apart, AllWhole, Whole
<1>6. CASE Consume
  <2>1. UNCHANGED <<rx, q_twai_rx, q_twai_tx, ecu, crossed>>
    BY <1>6 DEF Consume
  <2> QED BY <1>3, <1>6, <2>1, ConsumeWhole DEF Quiet, Apart
<1>7. CASE \E e \in Ecus : EcuSendSF(e) \/ EcuSendFF(e) \/ EcuSendCF(e) \/ EcuGivesUp(e)
  <2>1. UNCHANGED <<q_isotp_rx, crossed>>
    BY <1>7 DEF EcuSendSF, EcuSendFF, EcuSendCF, EcuGivesUp, EcuStep
  <2>2. Lines /\ FcLines => Lines' /\ FcLines'
    BY <1>7, EcuSendLines, EcuGivesUpLines, EcuFcLines
  <2> QED BY <2>1, <2>2 DEF Apart, AllWhole, Whole
<1>8. CASE TwaiTransmit
  <2>1. Lines' /\ FcLines' /\ UNCHANGED q_isotp_rx
    BY <1>8, TwaiTransmitLines DEF Apart, TwaiTransmit
  <2>2. crossed \subseteq crossed'
    BY <1>8 DEF TwaiTransmit
  <2> QED BY <2>1, <2>2 DEF Apart, AllWhole, Whole
<1>9. CASE OtherNode
  <2>1. PICK f \in Noise : OnBus(f) /\ UNCHANGED <<rx, q_isotp_rx, q_twai_tx, ecu, crossed>>
    BY <1>9 DEF OtherNode
  <2>2. f \in Frame /\ \A d \in Ecus : f.id # RespId[d]
    BY RxConstants, EcuIds
  <2>3. FcLines'
    BY <2>1, <2>2, OnBusFcLines DEF Apart
  <2> QED BY <1>9, <2>1, <2>3, OtherNodeLines DEF Apart, AllWhole, Whole
<1>10. CASE Tick
  <2>1. UNCHANGED <<q_twai_rx, q_isotp_rx, q_twai_tx, ecu, crossed>> /\ Quiet(rx, rx')
    BY <1>0, <1>10 DEF Tick, Quiet, Reassembly
  <2> QED BY <1>3, <2>1 DEF Apart, AllWhole, Whole
<1>11. CASE UNCHANGED vars
  <2>1. UNCHANGED <<rx, q_twai_rx, q_isotp_rx, q_twai_tx, ecu, crossed>>
    BY <1>11 DEF vars
  <2> QED BY <1>3, <2>1 DEF Quiet, Apart, AllWhole, Whole
<1> QED BY <1>1, <1>2, <1>4, <1>5, <1>6, <1>7, <1>8, <1>9, <1>10, <1>11 DEF Next, IsoTpTask

LEMMA InitApart == Init => Apart
BY DEF Init, Apart, Lines, FcLines, FcInLine, AllWhole, OneMessage, InLine, Sending, FirstWaits,
       OthersFollow

\* A multi-frame message made of one ECU's frames is one message of it, whole, whatever the full
\* queues dropped and whenever the ECU gave up, unless a Flow Control released that ECU for
\* another message than it answered: without one, missing frames leave no reassembly to go on with.
THEOREM MessagesAreWhole == Spec => []WholeUnlessForeign
<1>1. Inv /\ Apart /\ [Next]_vars => (Inv /\ Apart)'
  BY HandleSFInv, HandleFFInv, HandleCFInv, HandleOtherInv, IdleIterationInv,
     CallersInv, ConsumeInv, EcuInv, TwaiTransmitInv, OtherNodeInv, TickInv, StutterInv, ApartNext
     DEF Next, IsoTpTask
<1>2. Inv /\ Apart => WholeUnlessForeign
  <2> SUFFICES ASSUME Inv, Apart, NEW i \in DOMAIN q_isotp_rx, NEW e \in Ecus \ crossed,
                      q_isotp_rx[i].content[1].pci = "FF",
                      \A j \in DOMAIN q_isotp_rx[i].content : q_isotp_rx[i].content[j].id = RespId[e]
               PROVE  /\ Len(q_isotp_rx[i].content) = 1 + CfCount(q_isotp_rx[i].length)
                      /\ \A j \in DOMAIN q_isotp_rx[i].content :
                           /\ q_isotp_rx[i].content[j].m = q_isotp_rx[i].content[1].m
                           /\ q_isotp_rx[i].content[j].k = j - 1
    BY DEF WholeUnlessForeign
  <2>1. q_isotp_rx \in Seq(Delivered)
    BY DEF Inv, TypeOK
  <2>2. i \in 1..Len(q_isotp_rx) /\ q_isotp_rx[i] \in Delivered
    BY <2>1
  <2>3. PICK msg : msg = q_isotp_rx[i] /\ Whole(msg) /\ msg.content \in Seq(Frame)
    BY <2>2 DEF Apart, AllWhole, Delivered
  <2>4. DOMAIN msg.content = 1..Len(msg.content)
    BY <2>3
  <2> QED BY <2>3, <2>4 DEF Whole, Own
<1> QED BY InitInv, InitApart, <1>1, <1>2, PTL DEF Spec

=============================================================================
