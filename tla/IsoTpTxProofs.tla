--------------------------- MODULE IsoTpTxProofs ---------------------------
(***************************************************************************)
(* isotp_send against isotp_task: the result a caller gets, what an ECU    *)
(* receives and when, for any callers, ECUs, payloads, queue depths, Flow  *)
(* Controls and timeouts.                                                  *)
(***************************************************************************)
EXTENDS IsoTpTx, SequenceTheorems, FiniteSetTheorems, TLAPS

-----------------------------------------------------------------------------
(* Types *)

Pcs == {"none", "sf", "drain", "arm", "tx_id", "rx_id", "buffer", "length", "rest", "start", "ff",
        "wait", "finish", "return"}
TxStates == {"TX_IDLE", "TX_WAIT_FC", "TX_SENDING_CF", "TX_DONE", "TX_ERROR"}

MaxLen == 4095

TxType ==
  [state : TxStates, tx_id : Ecus \cup {NoEcu}, rx_id : Ecus \cup {NoEcu}, buffer : 0..MaxCalls,
   length : 0..MaxLen, offset : 0..(U16 - 1), sn : 0..(SnMod - 1), bs : 0..255,
   bs_counter : 0..255, stmin_ms : 0..127, wait_fc_count : 0..255,
   fcAge : 0..(NBs + 1), cfAge : 0..NoCf, sem : BOOLEAN]

FrameType ==
  [pci : {"SF", "FF", "CF"}, to : Ecus \cup {NoEcu}, m : 0..MaxCalls, sn : 0..(SnMod - 1),
   off : 0..(U16 - 1), n : 0..CFData, len : 0..MaxLen]

FcType == [from : Ecus, m : 0..MaxCalls, fs : {"CTS", "WAIT", "OVFL"}, bs : 0..255, stmin : 0..255]

CallType ==
  [who : Callers \cup {NoCaller}, pc : Pcs, m : 0..MaxCalls, len : 0..MaxLen, age : 0..SendTimeout,
   sent : 0..MaxLen, ok : BOOLEAN]

ItaskType == [cf : BOOLEAN, frame : FrameType, call : 0..MaxCalls]

HistType == [raced : BOOLEAN, late : BOOLEAN, lost : BOOLEAN]

EcuType ==
  [st : {"idle", "recv"}, m : 0..MaxCalls, len : 0..MaxLen, got : Nat, sn : 0..(SnMod - 1), owes : BOOLEAN,
   waits : Nat, left : 0..255, mixed : BOOLEAN, bad : BOOLEAN, overrun : BOOLEAN]

Types ==
  /\ tx \in TxType /\ itask \in ItaskType /\ call \in CallType /\ hist \in HistType
  /\ waiting \subseteq Callers /\ IsFiniteSet(waiting)
  /\ q_twai_tx \in Seq(FrameType) /\ Len(q_twai_tx) <= QTxCap
  /\ q_twai_rx \in Seq(FcType) /\ Len(q_twai_rx) <= QRxCap
  /\ ecu \in [Ecus -> EcuType]

-----------------------------------------------------------------------------
(* Where the caller is *)

\* The caller has not stored its buffer; it is storing the rest; it has stored everything.
Preparing == {"sf", "drain", "arm", "tx_id", "rx_id", "buffer"}
Filling   == {"tx_id", "rx_id", "buffer", "length", "rest"}
Loaded    == {"rest", "start", "ff", "wait", "finish"}

\* Who is in isotp_send, and with what.
Placed(c) ==
  /\ (c.pc = "none") <=> (c.who = NoCaller)
  /\ c.pc = "sf" => c.len <= 7
  /\ c.pc \notin {"sf", "none", "return"} => c.len > 7
  /\ c.sent <= c.len

\* What of its message tx_state holds.
Filled(t, c) ==
  /\ t.buffer <= c.m
  /\ c.pc \in Preparing => t.buffer < c.m /\ c.sent = 0
  /\ c.pc = "length" => t.buffer = c.m /\ c.sent = 0
  /\ c.pc \in Loaded \/ (c.pc = "return" /\ c.len > 7) => t.buffer = c.m /\ t.length = c.len
  /\ c.pc = "return" /\ c.len <= 7 => t.buffer < c.m

\* wait_fc_count: a Flow Control may be counted before the caller resets it.
Counted(t, c, i) ==
  LET more == IF c.pc \in Filling THEN 1 ELSE 0 IN
  /\ t.wait_fc_count <= FcWaitMax + 1 + more
  /\ i.cf \/ t.state \in {"TX_WAIT_FC", "TX_SENDING_CF"} => t.wait_fc_count <= FcWaitMax + more

\* offset does not wrap: past the end of the message one frame more ends it.
Room(t, c, i) ==
  /\ t.offset <= MaxLen + (IF c.pc \in Filling THEN CFData ELSE 0)
                        + (IF i.cf \/ t.state \in {"TX_WAIT_FC", "TX_SENDING_CF"} THEN 0 ELSE CFData)
  /\ t.offset = 0 /\ c.pc # "rest" => t.length = 0

\* The frame isotp_task is blocked on is of a message begun, and does not reach over its end.
BlockedOn(t, c, i) ==
  i.cf =>
    /\ i.frame.m <= t.buffer
    /\ i.frame.m = c.m /\ c.who # NoCaller /\ i.frame.off = c.sent =>
         i.frame.off + i.frame.n <= c.len
    /\ c.pc = "length" /\ i.frame.m = c.m /\ i.frame.off = 0 => i.frame.n = 0

Sound(t, c, i) == Placed(c) /\ Filled(t, c) /\ Counted(t, c, i) /\ Room(t, c, i) /\ BlockedOn(t, c, i)

Base == Types /\ Sound(tx, call, itask) /\ call.m + Cardinality(waiting) <= MaxCalls

-----------------------------------------------------------------------------
(* Data *)

LEMMA Consts ==
  /\ \A c \in Callers : Peer[c] \in Ecus
  /\ NoCaller \notin Callers /\ NoEcu \notin Ecus
  /\ \A len \in Lens : len \in 1..4095
  /\ MaxCalls \in Nat /\ MaxEcuWaits \in Nat
  /\ \A p \in FcParams : p[1] \in 0..255 /\ p[2] \in 0..255
  /\ QTxCap \in Nat \ {0} /\ QRxCap \in Nat \ {0}
  /\ SnMod \in Nat /\ SnMod >= 2
  /\ NBs \in Nat /\ FcWaitMax \in 0..253 /\ SendTimeout \in Nat
<1>1. \A len \in Lens : len \in 1..4095
  BY TxConstants
<1>2. \A p \in FcParams : p \in (0..255) \X (0..255)
  BY TxConstants
<1>3. SnMod \in Nat \ {0, 1}
  BY TxConstants
<1>4. SnMod \in Nat /\ SnMod >= 2
  BY <1>3
<1> QED
  BY <1>1, <1>2, <1>4, TxConstants

\* The wide ranges stay under their names, which the provers take better than numbers.
LEMMA Widths ==
  /\ MaxLen \in Nat /\ U16 \in Nat /\ MaxLen + 3 * CFData < U16 /\ FFData + CFData < MaxLen
  /\ CFData \in Nat /\ CFData > 0 /\ FFData \in Nat /\ FFData > 0 /\ FFData < 7
  /\ \A x \in 0..MaxLen : x \in Nat /\ x <= MaxLen
  /\ \A x \in Nat : x <= MaxLen => x \in 0..MaxLen
  /\ \A x \in 0..(U16 - 1) : x \in Nat /\ x < U16
  /\ \A x \in Nat : x < U16 => x \in 0..(U16 - 1)
<1>1. MaxLen \in Nat /\ U16 \in Nat /\ MaxLen + 3 * CFData < U16 /\ FFData + CFData < MaxLen
      /\ CFData \in Nat /\ CFData > 0 /\ FFData \in Nat /\ FFData > 0 /\ FFData < 7
  BY DEF MaxLen, U16, CFData, FFData
<1>2. MaxLen \in Nat /\ U16 \in Nat
  BY <1>1
<1>3. /\ \A x \in 0..MaxLen : x \in Nat /\ x <= MaxLen
      /\ \A x \in Nat : x <= MaxLen => x \in 0..MaxLen
  BY <1>2
<1>4. /\ \A x \in 0..(U16 - 1) : x \in Nat /\ x < U16
      /\ \A x \in Nat : x < U16 => x \in 0..(U16 - 1)
  BY <1>2
<1> QED
  BY <1>1, <1>3, <1>4

\* The fields of a record of each type.
LEMMA TxFields ==
  ASSUME NEW t \in TxType
  PROVE  /\ t.state \in TxStates /\ t.tx_id \in Ecus \cup {NoEcu} /\ t.rx_id \in Ecus \cup {NoEcu}
         /\ t.buffer \in 0..MaxCalls /\ t.length \in Nat /\ t.length <= MaxLen
         /\ t.offset \in Nat /\ t.offset < U16
         /\ t.sn \in 0..(SnMod - 1) /\ t.bs \in 0..255 /\ t.bs_counter \in 0..255
         /\ t.stmin_ms \in 0..127 /\ t.wait_fc_count \in 0..255 /\ t.fcAge \in 0..(NBs + 1)
         /\ t.cfAge \in 0..NoCf /\ t.sem \in BOOLEAN
<1>1. t.length \in 0..MaxLen /\ t.offset \in 0..(U16 - 1)
  BY DEF TxType
<1>2. /\ t.state \in TxStates /\ t.tx_id \in Ecus \cup {NoEcu} /\ t.rx_id \in Ecus \cup {NoEcu}
      /\ t.buffer \in 0..MaxCalls /\ t.sn \in 0..(SnMod - 1) /\ t.bs \in 0..255
      /\ t.bs_counter \in 0..255 /\ t.stmin_ms \in 0..127 /\ t.wait_fc_count \in 0..255
      /\ t.fcAge \in 0..(NBs + 1) /\ t.cfAge \in 0..NoCf /\ t.sem \in BOOLEAN
  BY DEF TxType
<1> QED
  BY <1>1, <1>2, Widths

LEMMA CallFields ==
  ASSUME NEW c \in CallType
  PROVE  /\ c.who \in Callers \cup {NoCaller} /\ c.pc \in Pcs /\ c.m \in 0..MaxCalls
         /\ c.len \in Nat /\ c.len <= MaxLen
         /\ c.age \in 0..SendTimeout /\ c.sent \in Nat /\ c.sent <= MaxLen /\ c.ok \in BOOLEAN
<1>1. /\ c.who \in Callers \cup {NoCaller} /\ c.pc \in Pcs /\ c.m \in 0..MaxCalls
      /\ c.len \in 0..MaxLen /\ c.age \in 0..SendTimeout /\ c.sent \in 0..MaxLen /\ c.ok \in BOOLEAN
  BY DEF CallType
<1> QED
  BY <1>1, Widths

LEMMA FrameFields ==
  ASSUME NEW f \in FrameType
  PROVE  /\ f.pci \in {"SF", "FF", "CF"} /\ f.to \in Ecus \cup {NoEcu} /\ f.m \in 0..MaxCalls
         /\ f.sn \in 0..(SnMod - 1) /\ f.off \in Nat /\ f.off < U16
         /\ f.n \in 0..CFData /\ f.len \in Nat /\ f.len <= MaxLen
<1>1. /\ f.pci \in {"SF", "FF", "CF"} /\ f.to \in Ecus \cup {NoEcu} /\ f.m \in 0..MaxCalls
      /\ f.sn \in 0..(SnMod - 1) /\ f.off \in 0..(U16 - 1) /\ f.n \in 0..CFData
      /\ f.len \in 0..MaxLen
  BY DEF FrameType
<1> QED
  BY <1>1, Widths

LEMMA NotBlockedTyped == NotBlocked \in ItaskType /\ ~NotBlocked.cf
<1>1. 0 \in 0..MaxCalls /\ 0 \in 0..(SnMod - 1) /\ 0 \in 0..(U16 - 1) /\ 0 \in 0..CFData
      /\ 0 \in 0..MaxLen /\ FALSE \in BOOLEAN
  BY Consts DEF U16, CFData, MaxLen
<1> QED
  BY <1>1 DEF NotBlocked, Frame, ItaskType, FrameType

\* A field may take any value of its range.
LEMMA TxSet ==
  ASSUME NEW t \in TxType
  PROVE  /\ \A x \in TxStates : [t EXCEPT !.state = x] \in TxType
         /\ \A x \in Ecus \cup {NoEcu} : [t EXCEPT !.tx_id = x] \in TxType
         /\ \A x \in Ecus \cup {NoEcu} : [t EXCEPT !.rx_id = x] \in TxType
         /\ \A x \in 0..MaxCalls : [t EXCEPT !.buffer = x] \in TxType
         /\ \A x \in 0..MaxLen : [t EXCEPT !.length = x] \in TxType
         /\ \A x \in 0..(U16 - 1) : [t EXCEPT !.offset = x] \in TxType
         /\ \A x \in 0..(SnMod - 1) : [t EXCEPT !.sn = x] \in TxType
         /\ \A x \in 0..255 : [t EXCEPT !.bs = x] \in TxType
         /\ \A x \in 0..255 : [t EXCEPT !.bs_counter = x] \in TxType
         /\ \A x \in 0..127 : [t EXCEPT !.stmin_ms = x] \in TxType
         /\ \A x \in 0..255 : [t EXCEPT !.wait_fc_count = x] \in TxType
         /\ \A x \in 0..(NBs + 1) : [t EXCEPT !.fcAge = x] \in TxType
         /\ \A x \in 0..NoCf : [t EXCEPT !.cfAge = x] \in TxType
         /\ \A x \in BOOLEAN : [t EXCEPT !.sem = x] \in TxType
<1>1. \A x \in TxStates : [t EXCEPT !.state = x] \in TxType
  BY DEF TxType
<1>2. \A x \in Ecus \cup {NoEcu} : [t EXCEPT !.tx_id = x] \in TxType
  BY DEF TxType
<1>3. \A x \in Ecus \cup {NoEcu} : [t EXCEPT !.rx_id = x] \in TxType
  BY DEF TxType
<1>4. \A x \in 0..MaxCalls : [t EXCEPT !.buffer = x] \in TxType
  BY DEF TxType
<1>5. \A x \in 0..MaxLen : [t EXCEPT !.length = x] \in TxType
  BY DEF TxType
<1>6. \A x \in 0..(U16 - 1) : [t EXCEPT !.offset = x] \in TxType
  BY DEF TxType
<1>7. \A x \in 0..(SnMod - 1) : [t EXCEPT !.sn = x] \in TxType
  BY DEF TxType
<1>8. \A x \in 0..255 : [t EXCEPT !.bs = x] \in TxType
  BY DEF TxType
<1>9. \A x \in 0..255 : [t EXCEPT !.bs_counter = x] \in TxType
  BY DEF TxType
<1>10. \A x \in 0..127 : [t EXCEPT !.stmin_ms = x] \in TxType
  BY DEF TxType
<1>11. \A x \in 0..255 : [t EXCEPT !.wait_fc_count = x] \in TxType
  BY DEF TxType
<1>12. \A x \in 0..(NBs + 1) : [t EXCEPT !.fcAge = x] \in TxType
  BY DEF TxType
<1>13. \A x \in 0..NoCf : [t EXCEPT !.cfAge = x] \in TxType
  BY DEF TxType
<1>14. \A x \in BOOLEAN : [t EXCEPT !.sem = x] \in TxType
  BY DEF TxType
<1> QED
  BY <1>1, <1>2, <1>3, <1>4, <1>5, <1>6, <1>7, <1>8, <1>9, <1>10, <1>11, <1>12, <1>13, <1>14

LEMMA GiveErrorTyped ==
  ASSUME NEW t \in TxType
  PROVE  LET g == GiveError(t) IN
         /\ g \in TxType /\ g.state = "TX_ERROR" /\ g.sem
         /\ g.tx_id = t.tx_id /\ g.rx_id = t.rx_id /\ g.buffer = t.buffer /\ g.length = t.length
         /\ g.offset = t.offset /\ g.sn = t.sn /\ g.wait_fc_count = t.wait_fc_count
         /\ g.bs = t.bs /\ g.bs_counter = t.bs_counter
<1>1. "TX_ERROR" \in TxStates /\ TRUE \in BOOLEAN
  BY DEF TxStates
<1>2. GiveError(t) \in TxType
  BY <1>1, TxSet DEF GiveError
<1>3. /\ GiveError(t).state = "TX_ERROR" /\ GiveError(t).sem
      /\ GiveError(t).tx_id = t.tx_id /\ GiveError(t).rx_id = t.rx_id
      /\ GiveError(t).buffer = t.buffer /\ GiveError(t).length = t.length
      /\ GiveError(t).offset = t.offset /\ GiveError(t).sn = t.sn
      /\ GiveError(t).wait_fc_count = t.wait_fc_count
      /\ GiveError(t).bs = t.bs /\ GiveError(t).bs_counter = t.bs_counter
  BY DEF GiveError, TxType
<1> QED
  BY <1>2, <1>3

LEMMA ModIs ==
  ASSUME NEW N \in Nat, N # 0, NEW a \in Int
  PROVE  a % N \in 0..(N - 1) /\ (a >= 0 /\ a < N => a % N = a)
OBVIOUS

\* The next frame: where the message goes on, and no more than is left.
LEMMA ChunkIs ==
  ASSUME NEW t \in TxType
  PROVE  /\ Chunk(t) \in 0..CFData
         /\ t.offset <= t.length => t.offset + Chunk(t) <= t.length
         /\ t.offset < t.length => Chunk(t) # 0
<1>1. t.offset \in Nat /\ t.offset < U16 /\ t.length \in Nat /\ t.length <= MaxLen
  BY TxFields
<1> DEFINE r == (t.length - t.offset) % U16
<1>2. CFData \in Nat /\ CFData > 0 /\ U16 \in Nat /\ U16 # 0 /\ MaxLen \in Nat /\ MaxLen < U16
  BY Widths
<1>3. r \in 0..(U16 - 1)
  <2>1. t.length - t.offset \in Int
    BY <1>1
  <2> QED
    BY <1>2, <2>1, ModIs
<1>4. t.offset <= t.length => r = t.length - t.offset
  <2>1. t.offset <= t.length =>
          t.length - t.offset \in Int /\ t.length - t.offset >= 0 /\ t.length - t.offset < U16
    BY <1>1, <1>2
  <2> QED
    BY <1>2, <2>1, ModIs
<1>5. Chunk(t) = IF r > CFData THEN CFData ELSE r
  BY DEF Chunk
<1> HIDE DEF r
<1> QED
  BY <1>1, <1>2, <1>3, <1>4, <1>5

LEMMA CfOfTyped ==
  ASSUME NEW t \in TxType
  PROVE  /\ CfOf(t) \in FrameType
         /\ CfOf(t).pci = "CF" /\ CfOf(t).to = t.tx_id /\ CfOf(t).m = t.buffer /\ CfOf(t).sn = t.sn
         /\ CfOf(t).off = t.offset /\ CfOf(t).n = Chunk(t)
<1>1. Chunk(t) \in 0..CFData /\ 0 \in 0..MaxLen
  BY ChunkIs, Widths
<1>2. /\ t.tx_id \in Ecus \cup {NoEcu} /\ t.buffer \in 0..MaxCalls /\ t.sn \in 0..(SnMod - 1)
      /\ t.offset \in 0..(U16 - 1)
  BY TxFields, Widths
<1>3. CfOf(t) \in FrameType
  BY <1>1, <1>2 DEF CfOf, Frame, FrameType
<1> QED
  BY <1>3 DEF CfOf, Frame

\* A Flow Control that is not for the current wait changes nothing; one that is says to go
\* on, to wait once more, or to give up.
LEMMA HandleFcIs ==
  ASSUME NEW t \in TxType, NEW fc \in FcType,
         t.state = "TX_WAIT_FC" => t.wait_fc_count <= FcWaitMax + 1
  PROVE  LET h == HandleFc(t, fc) IN
         /\ h \in TxType
         /\ h.tx_id = t.tx_id /\ h.rx_id = t.rx_id /\ h.buffer = t.buffer /\ h.length = t.length
         /\ h.offset = t.offset /\ h.sn = t.sn
         /\ \/ h = t
            \/ /\ t.state = "TX_WAIT_FC" /\ fc.from = t.rx_id
               /\ \/ /\ fc.fs = "CTS" /\ h.state = "TX_SENDING_CF" /\ (h.sem <=> t.sem)
                     /\ h.wait_fc_count = t.wait_fc_count /\ h.bs = fc.bs /\ h.bs_counter = 0
                  \/ /\ fc.fs = "WAIT" /\ h.state = "TX_WAIT_FC" /\ (h.sem <=> t.sem)
                     /\ h.wait_fc_count <= FcWaitMax
                  \/ /\ fc.fs # "CTS" /\ h.state = "TX_ERROR" /\ h.sem
                     /\ h.wait_fc_count <= t.wait_fc_count + 1
<1> DEFINE h == HandleFc(t, fc)
<1>1. /\ fc.fs \in {"CTS", "WAIT", "OVFL"} /\ fc.bs \in 0..255 /\ fc.stmin \in 0..255
  BY DEF FcType
<1>2. /\ t.wait_fc_count \in 0..255 /\ FcWaitMax \in 0..253 /\ NBs \in Nat
  BY TxFields, Consts
<1>3. CASE ~FcForUs(t, fc)
  BY <1>3 DEF HandleFc
<1>4. CASE FcForUs(t, fc) /\ fc.fs = "CTS"
  <2> DEFINE st == StMinToMs(fc.stmin)
             c == [t EXCEPT !.bs = fc.bs, !.bs_counter = 0, !.cfAge = NoCf, !.stmin_ms = st,
                            !.state = "TX_SENDING_CF"]
  <2>1. h = c
    BY <1>4 DEF HandleFc
  <2>2. st \in 0..127 /\ 0 \in 0..255 /\ NoCf \in 0..NoCf /\ "TX_SENDING_CF" \in TxStates
    BY <1>1 DEF StMinToMs, NoCf, TxStates
  <2> HIDE DEF st
  <2>3. c \in TxType
    BY <1>1, <2>2, TxSet
  <2>4. /\ c.tx_id = t.tx_id /\ c.rx_id = t.rx_id /\ c.buffer = t.buffer /\ c.length = t.length
        /\ c.offset = t.offset /\ c.sn = t.sn /\ c.state = "TX_SENDING_CF"
        /\ c.wait_fc_count = t.wait_fc_count /\ c.bs = fc.bs /\ c.bs_counter = 0
    BY DEF TxType
  <2>5. c.sem <=> t.sem
    BY DEF TxType
  <2> QED
    BY <1>4, <2>1, <2>3, <2>4, <2>5 DEF FcForUs
<1>5. CASE FcForUs(t, fc) /\ fc.fs = "WAIT"
  <2> DEFINE n == t.wait_fc_count + 1
             w == [t EXCEPT !.wait_fc_count = n, !.fcAge = 0]
  <2>1. t.state = "TX_WAIT_FC" /\ fc.from = t.rx_id /\ fc.fs = "WAIT"
    BY <1>5 DEF FcForUs
  <2>2. n \in 0..255 /\ n \in Nat /\ 0 \in 0..(NBs + 1)
    BY <1>2, <2>1
  <2>3. w = [t EXCEPT !.wait_fc_count = @ + 1, !.fcAge = 0]
    OBVIOUS
  <2> HIDE DEF n
  <2>4. w \in TxType
    BY <2>2, TxSet
  <2>5. /\ w.tx_id = t.tx_id /\ w.rx_id = t.rx_id /\ w.buffer = t.buffer /\ w.length = t.length
        /\ w.offset = t.offset /\ w.sn = t.sn /\ w.state = t.state /\ w.wait_fc_count = n
    BY DEF TxType
  <2>6. w.sem <=> t.sem
    BY DEF TxType
  <2>7. h = IF w.wait_fc_count > FcWaitMax THEN GiveError(w) ELSE w
    BY <1>5, <2>3 DEF HandleFc
  <2> HIDE DEF w, h
  <2>8. CASE w.wait_fc_count > FcWaitMax
    <3>1. h = GiveError(w)
      BY <2>7, <2>8
    <3>2. /\ h \in TxType /\ h.state = "TX_ERROR" /\ h.sem
          /\ h.tx_id = w.tx_id /\ h.rx_id = w.rx_id /\ h.buffer = w.buffer /\ h.length = w.length
          /\ h.offset = w.offset /\ h.sn = w.sn /\ h.wait_fc_count = w.wait_fc_count
      BY <2>4, <3>1, GiveErrorTyped
    <3>3. h.wait_fc_count <= t.wait_fc_count + 1
      BY <1>2, <2>5, <3>2 DEF n
    <3> QED
      BY <2>1, <2>5, <3>2, <3>3 DEF h
  <2>9. CASE ~(w.wait_fc_count > FcWaitMax)
    <3>1. h = w
      BY <2>7, <2>9
    <3>2. h.wait_fc_count <= FcWaitMax
      BY <1>2, <2>2, <2>5, <2>9, <3>1
    <3> QED
      BY <2>1, <2>4, <2>5, <2>6, <3>1, <3>2 DEF h
  <2> QED
    BY <2>8, <2>9
<1>6. CASE FcForUs(t, fc) /\ fc.fs = "OVFL"
  <2>1. h = GiveError(t)
    BY <1>6 DEF HandleFc
  <2>2. t.wait_fc_count <= t.wait_fc_count + 1
    BY <1>2
  <2> QED
    BY <1>6, <2>1, <2>2, GiveErrorTyped DEF FcForUs
<1> QED
  BY <1>1, <1>3, <1>4, <1>5, <1>6

\* What tx_pump makes of tx_state once a frame of n bytes is in the queue.
LEMMA AfterCfIs ==
  ASSUME NEW t \in TxType, NEW n \in 0..CFData, t.offset + n < U16
  PROVE  LET a == AfterCf(t, n) IN
         /\ a \in TxType /\ a.offset = t.offset + n /\ a.sn = NextSn(t.sn)
         /\ a.tx_id = t.tx_id /\ a.rx_id = t.rx_id /\ a.buffer = t.buffer /\ a.length = t.length
         /\ a.wait_fc_count = t.wait_fc_count /\ a.bs = t.bs
         /\ a.bs_counter = (t.bs_counter + 1) % 256
         /\ IF t.offset + n >= t.length THEN a.state = "TX_DONE" /\ a.sem
            ELSE /\ a.sem <=> t.sem
                 /\ IF BlockFull(a) THEN a.state = "TX_WAIT_FC" ELSE a.state = t.state
<1> DEFINE off == (t.offset + n) % U16
           sn == NextSn(t.sn)
           b == (t.bs_counter + 1) % 256
           s == [t EXCEPT !.offset = off, !.sn = sn, !.bs_counter = b, !.cfAge = 0]
           a == AfterCf(t, n)
<1>1. t.offset \in Nat /\ t.sn \in 0..(SnMod - 1) /\ t.bs_counter \in 0..255
  BY TxFields
<1>2. U16 \in Nat /\ U16 # 0 /\ CFData \in Nat /\ SnMod \in Nat /\ SnMod >= 2 /\ NBs \in Nat
  BY Widths, Consts
<1>3. off = t.offset + n /\ off \in 0..(U16 - 1)
  BY <1>1, <1>2
<1>4. sn \in 0..(SnMod - 1)
  BY <1>1, <1>2 DEF NextSn
<1>5. b \in 0..255 /\ 0 \in 0..NoCf /\ 0 \in 0..(NBs + 1)
  BY <1>1, <1>2 DEF NoCf
<1>6. a = IF s.offset >= s.length THEN [s EXCEPT !.state = "TX_DONE", !.sem = TRUE]
          ELSE IF BlockFull(s) THEN [s EXCEPT !.state = "TX_WAIT_FC", !.fcAge = 0] ELSE s
  BY DEF AfterCf
<1> HIDE DEF off, sn, b, a
<1>7. s \in TxType
  BY <1>3, <1>4, <1>5, TxSet
<1>8. /\ s.offset = off /\ s.length = t.length /\ s.bs = t.bs /\ s.bs_counter = b /\ s.sn = sn
      /\ s.tx_id = t.tx_id /\ s.rx_id = t.rx_id /\ s.buffer = t.buffer /\ s.state = t.state
      /\ s.wait_fc_count = t.wait_fc_count
  BY DEF TxType
<1>9. s.sem <=> t.sem
  BY DEF TxType
<1> HIDE DEF s
<1>10. "TX_DONE" \in TxStates /\ "TX_WAIT_FC" \in TxStates /\ TRUE \in BOOLEAN
  BY DEF TxStates
<1>11. /\ [s EXCEPT !.state = "TX_DONE", !.sem = TRUE] \in TxType
       /\ [s EXCEPT !.state = "TX_WAIT_FC", !.fcAge = 0] \in TxType
  BY <1>5, <1>7, <1>10, TxSet
<1>12. a \in TxType
  BY <1>6, <1>7, <1>11
<1>13. /\ a.offset = s.offset /\ a.length = s.length /\ a.bs = s.bs
       /\ a.bs_counter = s.bs_counter /\ a.sn = s.sn
       /\ a.tx_id = s.tx_id /\ a.rx_id = s.rx_id /\ a.buffer = s.buffer
       /\ a.wait_fc_count = s.wait_fc_count
  BY <1>6, <1>7 DEF TxType
<1>14. s.offset >= s.length => a.state = "TX_DONE" /\ a.sem
  BY <1>6, <1>7 DEF TxType
<1>15. ~(s.offset >= s.length) =>
         /\ a.sem <=> s.sem
         /\ IF BlockFull(s) THEN a.state = "TX_WAIT_FC" ELSE a.state = s.state
  BY <1>6, <1>7 DEF TxType
<1>16. BlockFull(a) <=> BlockFull(s)
  BY <1>13 DEF BlockFull
<1>17. /\ a.offset = t.offset + n /\ a.sn = NextSn(t.sn) /\ a.bs_counter = (t.bs_counter + 1) % 256
       /\ s.offset = t.offset + n
  BY <1>3, <1>8, <1>13 DEF sn, b
<1> QED
  BY <1>8, <1>9, <1>12, <1>13, <1>14, <1>15, <1>16, <1>17 DEF a

-----------------------------------------------------------------------------
(* isotp_task *)

\* The numbers in a Sound state, with no operator in them.
LEMMA Numbers ==
  ASSUME NEW t \in TxType, NEW c \in CallType
  PROVE  /\ t.buffer \in Nat /\ t.length \in Nat /\ t.length <= MaxLen /\ t.offset \in Nat
         /\ t.wait_fc_count \in Nat
         /\ c.m \in Nat /\ c.len \in Nat /\ c.len <= MaxLen /\ c.sent \in Nat
         /\ FcWaitMax \in Nat /\ FcWaitMax <= 253 /\ CFData \in Nat /\ MaxLen \in Nat
         /\ FFData \in Nat /\ FFData < 7 /\ FFData > 0
<1>1. t.buffer \in 0..MaxCalls /\ t.wait_fc_count \in 0..255 /\ c.m \in 0..MaxCalls /\ MaxCalls \in Nat
  BY TxFields, CallFields, Consts
<1>2. t.buffer \in Nat /\ t.wait_fc_count \in Nat /\ c.m \in Nat
  BY <1>1
<1> QED
  BY <1>2, TxFields, CallFields, Consts, Widths

LEMMA SoundError ==
  ASSUME NEW t \in TxType, NEW c \in CallType, NEW i, ~i.cf, Sound(t, c, i)
  PROVE  Sound(GiveError(t), c, i)
<1> DEFINE g == GiveError(t)
<1>1. /\ g.state = "TX_ERROR" /\ g.buffer = t.buffer /\ g.length = t.length /\ g.offset = t.offset
      /\ g.wait_fc_count = t.wait_fc_count
  BY GiveErrorTyped
<1> HIDE DEF g
<1>2. Placed(c) /\ Filled(g, c)
  BY <1>1 DEF Sound, Filled
<1>3. Counted(g, c, i)
  BY <1>1 DEF Sound, Counted
<1>4. Room(t, c, i) /\ CFData \in Nat /\ t.offset \in Nat /\ MaxLen \in Nat
  BY Numbers DEF Sound
<1>5. Room(g, c, i)
  BY <1>1, <1>4 DEF Room
<1>6. BlockedOn(g, c, i)
  BY DEF BlockedOn
<1> QED
  BY <1>2, <1>3, <1>5, <1>6 DEF Sound, g

LEMMA SoundHandled ==
  ASSUME NEW t \in TxType, NEW c \in CallType, NEW i, ~i.cf, NEW fc \in FcType, Sound(t, c, i)
  PROVE  HandleFc(t, fc) \in TxType /\ Sound(HandleFc(t, fc), c, i)
<1> DEFINE h == HandleFc(t, fc)
<1>1. t.state = "TX_WAIT_FC" => t.wait_fc_count <= FcWaitMax + 1
  BY Numbers DEF Sound, Counted
<1>2. /\ h \in TxType /\ h.buffer = t.buffer /\ h.length = t.length /\ h.offset = t.offset
      /\ \/ h = t
         \/ /\ t.state = "TX_WAIT_FC"
            /\ \/ h.state = "TX_SENDING_CF" /\ h.wait_fc_count = t.wait_fc_count
               \/ h.state = "TX_WAIT_FC" /\ h.wait_fc_count <= FcWaitMax
               \/ h.state = "TX_ERROR" /\ h.wait_fc_count <= t.wait_fc_count + 1
  BY <1>1, HandleFcIs
<1> HIDE DEF h
<1>3. CASE h = t
  BY <1>2, <1>3 DEF h
<1>4. CASE h # t
  <2>1. Placed(c) /\ Filled(h, c) /\ BlockedOn(h, c, i)
    BY <1>2 DEF Sound, Filled, BlockedOn
  <2>2. /\ h.wait_fc_count \in Nat /\ t.wait_fc_count \in Nat /\ FcWaitMax \in Nat
        /\ CFData \in Nat /\ t.offset \in Nat /\ MaxLen \in Nat
    BY <1>2, Numbers
  <2>3. Counted(h, c, i)
    BY <1>2, <1>4, <2>2 DEF Sound, Counted
  <2>4. Room(t, c, i)
    BY DEF Sound
  <2>5. Room(h, c, i)
    BY <1>2, <1>4, <2>2, <2>4 DEF Room
  <2> QED
    BY <1>2, <2>1, <2>3, <2>5 DEF Sound, h
<1> QED
  BY <1>3, <1>4

\* The frame send_cf blocks on is cut from a Sound tx_state.
LEMMA SoundBlocks ==
  ASSUME NEW t \in TxType, NEW c \in CallType, NEW i, Sound(t, c, i), t.state = "TX_SENDING_CF"
  PROVE  LET j == [cf |-> TRUE, frame |-> CfOf(t), call |-> c.m] IN
         j \in ItaskType /\ Sound(t, c, j)
<1> DEFINE j == [cf |-> TRUE, frame |-> CfOf(t), call |-> c.m]
<1>1. c.m \in 0..MaxCalls /\ CfOf(t) \in FrameType /\ TRUE \in BOOLEAN
  BY CallFields, CfOfTyped
<1>2. j \in ItaskType
  BY <1>1 DEF ItaskType
<1>3. j.cf /\ j.frame.m = t.buffer /\ j.frame.off = t.offset /\ j.frame.n = Chunk(t)
  BY CfOfTyped
<1> HIDE DEF j
<1>4. Placed(c) /\ Filled(t, c) /\ Counted(t, c, j)
  BY <1>3 DEF Sound, Counted
<1>5. Room(t, c, j)
  BY <1>3 DEF Sound, Room
<1>6. /\ t.offset <= t.length => t.offset + Chunk(t) <= t.length
      /\ Chunk(t) \in 0..CFData
  BY ChunkIs
<1>7. c.pc = "length" /\ t.buffer = c.m /\ t.offset = 0 => Chunk(t) = 0
  <2> SUFFICES ASSUME c.pc = "length", t.offset = 0 PROVE Chunk(t) = 0
    OBVIOUS
  <2>1. t.length = 0
    BY DEF Sound, Room
  <2> QED
    BY <1>6, <2>1, Numbers, Widths
<1>8. ASSUME t.buffer = c.m, c.who # NoCaller, t.offset = c.sent
      PROVE  t.offset + Chunk(t) <= c.len
  <2>1. c.sent <= c.len /\ c.pc # "none" /\ c.pc \in Pcs /\ c.pc \notin Preparing
    BY <1>8, Numbers, CallFields DEF Sound, Filled, Placed
  <2>2. CASE c.pc = "length"
    <3>1. c.sent = 0
      BY <2>2 DEF Sound, Filled
    <3>2. Chunk(t) = 0
      BY <1>7, <1>8, <2>2, <3>1
    <3> QED
      BY <1>8, <2>1, <3>2, Numbers
  <2>3. CASE c.pc # "length"
    <3>1. c.pc \in Loaded \/ c.pc = "return"
      BY <2>1, <2>3 DEF Pcs, Preparing, Loaded
    <3>2. c.pc = "return" /\ c.len <= 7 => t.buffer < c.m
      BY DEF Sound, Filled
    <3>3. c.pc \in Loaded \/ (c.pc = "return" /\ c.len > 7)
      BY <1>8, <3>1, <3>2, Numbers
    <3>4. t.length = c.len
      BY <3>3 DEF Sound, Filled
    <3> QED
      BY <1>6, <1>8, <2>1, <3>4
  <2> QED
    BY <2>2, <2>3
<1>9. t.buffer <= t.buffer
  BY Numbers
<1>10. BlockedOn(t, c, j)
  BY <1>3, <1>7, <1>8, <1>9 DEF BlockedOn
<1> QED
  BY <1>2, <1>4, <1>5, <1>10 DEF Sound, j

\* sent counts a frame only when it goes on where the call's message is.
LEMMA SentAfterIs ==
  ASSUME NEW f
  PROVE  \/ SentAfter(f) = call.sent
         \/ /\ call.who # NoCaller /\ f.m = call.m /\ f.to = Peer[call.who] /\ f.off = call.sent
            /\ SentAfter(f) = f.off + f.n
BY DEF SentAfter

LEMMA CallSent ==
  ASSUME NEW c \in CallType, NEW n \in Nat, n <= MaxLen
  PROVE  LET d == [c EXCEPT !.sent = n] IN
         /\ d \in CallType /\ d.who = c.who /\ d.pc = c.pc /\ d.m = c.m /\ d.len = c.len
         /\ d.age = c.age /\ d.sent = n /\ (d.ok <=> c.ok)
<1>1. n \in 0..MaxLen
  BY Widths
<1>2. [c EXCEPT !.sent = n] \in CallType
  BY <1>1 DEF CallType
<1>3. [c EXCEPT !.sent = n].ok <=> c.ok
  BY DEF CallType
<1> QED
  BY <1>2, <1>3 DEF CallType

LEMMA SoundSent ==
  ASSUME NEW t \in TxType, NEW i \in ItaskType, i.cf, call \in CallType, Sound(t, call, i),
         NEW k, ~k.cf
  PROVE  /\ AfterCf(t, i.frame.n) \in TxType
         /\ [call EXCEPT !.sent = SentAfter(i.frame)] \in CallType
         /\ Sound(AfterCf(t, i.frame.n), [call EXCEPT !.sent = SentAfter(i.frame)], k)
<1> DEFINE f == i.frame
           a == AfterCf(t, i.frame.n)
           d == [call EXCEPT !.sent = SentAfter(i.frame)]
<1>1. f \in FrameType
  BY DEF ItaskType
<1>2. f.n \in 0..CFData /\ f.n \in Nat /\ f.n <= CFData /\ f.off \in Nat /\ f.m \in Nat
  <2>1. f.n \in 0..CFData /\ f.off \in Nat /\ f.m \in 0..MaxCalls
    BY <1>1, FrameFields
  <2> QED
    BY <2>1, Consts, Widths
<1>3. /\ call.pc \in Pcs
      /\ t.buffer \in Nat /\ t.length \in Nat /\ t.length <= MaxLen /\ t.offset \in Nat
      /\ call.m \in Nat /\ call.len \in Nat /\ call.len <= MaxLen /\ call.sent \in Nat
      /\ MaxLen \in Nat /\ CFData \in Nat
  BY Numbers, CallFields
<1>4. t.offset <= MaxLen + (IF call.pc \in Filling THEN CFData ELSE 0)
  BY <1>3 DEF Sound, Room
<1>5. t.offset + f.n < U16
  BY <1>2, <1>3, <1>4, Widths
<1>6. /\ a \in TxType /\ a.offset = t.offset + f.n
      /\ a.buffer = t.buffer /\ a.length = t.length /\ a.wait_fc_count = t.wait_fc_count
      /\ t.offset + f.n >= t.length => a.state = "TX_DONE"
  BY <1>2, <1>5, AfterCfIs
<1>7. /\ f.m <= t.buffer
      /\ f.m = call.m /\ call.who # NoCaller /\ f.off = call.sent => f.off + f.n <= call.len
      /\ call.pc = "length" /\ f.m = call.m /\ f.off = 0 => f.n = 0
  BY DEF Sound, BlockedOn
<1> HIDE DEF a, f
<1>8. Placed(call) /\ Filled(t, call) /\ Counted(t, call, i) /\ Room(t, call, i)
  BY DEF Sound
<1>9. PICK n \in Nat : /\ n = SentAfter(f) /\ n <= call.len
                       /\ n = call.sent \/ (call.who # NoCaller /\ f.m = call.m /\ f.off = call.sent
                                            /\ n = f.off + f.n)
  <2>1. SentAfter(f) \in Nat /\ SentAfter(f) <= call.len
    BY <1>2, <1>3, <1>7, <1>8, SentAfterIs DEF Placed
  <2> QED
    BY <2>1, SentAfterIs
<1>10. /\ d \in CallType /\ d.who = call.who /\ d.pc = call.pc /\ d.m = call.m /\ d.len = call.len
       /\ d.sent = n
  BY <1>3, <1>9, CallSent DEF f
<1> HIDE DEF d
<1>11. call.pc \in Preparing \cup {"length"} => n = 0
  <2>1. CASE call.pc \in Preparing
    BY <1>2, <1>3, <1>7, <1>8, <1>9, <2>1 DEF Filled
  <2>2. CASE call.pc = "length"
    BY <1>2, <1>3, <1>7, <1>8, <1>9, <2>2 DEF Filled
  <2> QED
    BY <2>1, <2>2
<1>12. Placed(d) /\ Filled(a, d)
  BY <1>6, <1>8, <1>9, <1>10, <1>11 DEF Placed, Filled
<1>13. Counted(a, d, k)
  BY <1>6, <1>8, <1>10 DEF Counted
<1>14. Room(a, d, k)
  BY <1>2, <1>3, <1>4, <1>6, <1>8, <1>10 DEF Room
<1>15. BlockedOn(a, d, k)
  BY DEF BlockedOn
<1> QED
  BY <1>6, <1>10, <1>12, <1>13, <1>14, <1>15 DEF Sound, a, d

LEMMA Enqueues ==
  ASSUME Types, NEW f \in FrameType, Enqueue(f)
  PROVE  /\ q_twai_tx' \in Seq(FrameType) /\ Len(q_twai_tx') = Len(q_twai_tx) + 1
         /\ Len(q_twai_tx') <= QTxCap /\ Len(q_twai_tx) < QTxCap
         /\ \A k \in 1..Len(q_twai_tx) : q_twai_tx'[k] = q_twai_tx[k]
         /\ q_twai_tx'[Len(q_twai_tx) + 1] = f
<1>1. /\ q_twai_tx \in Seq(FrameType) /\ Len(q_twai_tx) < QTxCap
      /\ q_twai_tx' = Append(q_twai_tx, f)
  BY DEF Types, Enqueue
<1>2. Len(q_twai_tx) \in Nat /\ QTxCap \in Nat
  BY <1>1, Consts, LenProperties
<1>3. /\ Append(q_twai_tx, f) \in Seq(FrameType)
      /\ Len(Append(q_twai_tx, f)) = Len(q_twai_tx) + 1
      /\ \A k \in 1..Len(q_twai_tx) : Append(q_twai_tx, f)[k] = q_twai_tx[k]
      /\ Append(q_twai_tx, f)[Len(q_twai_tx) + 1] = f
  BY <1>1, AppendProperties
<1>4. Len(q_twai_tx) + 1 <= QTxCap
  BY <1>1, <1>2
<1> QED
  BY <1>1, <1>3, <1>4

\* tx_pump keeps the types and what tx_state holds of the message.
LEMMA Pumps ==
  ASSUME Types, NEW t \in TxType, Sound(t, call, itask), ~itask.cf, Pump(t)
  PROVE  /\ tx' \in TxType /\ itask' \in ItaskType /\ call' \in CallType /\ call'.m = call.m
         /\ q_twai_tx' \in Seq(FrameType) /\ Len(q_twai_tx') <= QTxCap
         /\ Sound(tx', call', itask')
<1> DEFINE j == [cf |-> TRUE, frame |-> CfOf(t), call |-> call.m]
           a == AfterCf(t, Chunk(t))
           d == [call EXCEPT !.sent = SentAfter(CfOf(t))]
<1>1. /\ itask \in ItaskType /\ call \in CallType
      /\ q_twai_tx \in Seq(FrameType) /\ Len(q_twai_tx) <= QTxCap
  BY DEF Types
<1>2. CASE ~CfDue(t) /\ tx' = CheckNBs(t) /\ UNCHANGED <<itask, call, q_twai_tx>>
  <2>1. CheckNBs(t) \in TxType /\ Sound(CheckNBs(t), call, itask)
    BY <1>1, GiveErrorTyped, SoundError DEF CheckNBs
  <2> QED
    BY <1>1, <1>2, <2>1
<1>3. CfDue(t) => j \in ItaskType /\ Sound(t, call, j) /\ j.cf /\ j.frame = CfOf(t) /\ j.frame.n = Chunk(t)
  BY <1>1, SoundBlocks, CfOfTyped DEF CfDue
<1>4. CASE CfDue(t) /\ Enqueue(CfOf(t)) /\ tx' = a /\ call' = d /\ UNCHANGED itask
  <2> HIDE DEF j
  <2>1. a \in TxType /\ d \in CallType /\ Sound(a, d, itask)
    <3>1. /\ AfterCf(t, j.frame.n) \in TxType
          /\ [call EXCEPT !.sent = SentAfter(j.frame)] \in CallType
          /\ Sound(AfterCf(t, j.frame.n), [call EXCEPT !.sent = SentAfter(j.frame)], itask)
      BY <1>1, <1>3, <1>4, SoundSent
    <3> QED
      BY <1>3, <1>4, <3>1
  <2>2. d.m = call.m
    BY <1>1 DEF CallType
  <2>3. q_twai_tx' \in Seq(FrameType) /\ Len(q_twai_tx') <= QTxCap
    BY <1>4, CfOfTyped, Enqueues
  <2> QED
    BY <1>1, <1>4, <2>1, <2>2, <2>3
<1>5. CASE CfDue(t) /\ tx' = t /\ itask' = j /\ UNCHANGED <<call, q_twai_tx>>
  BY <1>1, <1>3, <1>5
<1> QED
  BY <1>2, <1>4, <1>5 DEF Pump

LEMMA BaseIterationFc == Base /\ IterationFc => Base'
<1> SUFFICES ASSUME Base, IterationFc PROVE Base'
  OBVIOUS
<1> DEFINE fc == Head(q_twai_rx)
<1>1. Types /\ Sound(tx, call, itask) /\ tx \in TxType /\ call \in CallType /\ hist \in HistType
  BY DEF Base, Types
<1>2. /\ ~itask.cf /\ q_twai_rx \in Seq(FcType) /\ q_twai_rx # <<>> /\ Len(q_twai_rx) <= QRxCap
      /\ q_twai_rx' = Tail(q_twai_rx) /\ Pump(HandleFc(tx, fc))
  BY <1>1 DEF IterationFc, Types
<1>3. /\ fc \in FcType /\ q_twai_rx' \in Seq(FcType) /\ Len(q_twai_rx') <= QRxCap
  <2>1. /\ fc \in FcType /\ Tail(q_twai_rx) \in Seq(FcType)
        /\ Len(Tail(q_twai_rx)) = Len(q_twai_rx) - 1
    BY <1>2, HeadTailProperties
  <2>2. Len(q_twai_rx) \in Nat /\ QRxCap \in Nat
    BY <1>2, Consts, LenProperties
  <2> QED
    BY <1>2, <2>1, <2>2
<1>4. HandleFc(tx, fc) \in TxType /\ Sound(HandleFc(tx, fc), call, itask)
  BY <1>1, <1>2, <1>3, SoundHandled
<1> HIDE DEF fc
<1>5. /\ tx' \in TxType /\ itask' \in ItaskType /\ call' \in CallType /\ call'.m = call.m
      /\ q_twai_tx' \in Seq(FrameType) /\ Len(q_twai_tx') <= QTxCap
      /\ Sound(tx', call', itask')
  BY <1>1, <1>2, <1>4, Pumps
<1>6. PICK r \in BOOLEAN, l \in BOOLEAN : hist' = [hist EXCEPT !.raced = r, !.late = l]
  <2>1. /\ Raced \in BOOLEAN
        /\ (hist.late \/ (FcForUs(tx, fc) /\ fc.m # call.m)) \in BOOLEAN
    BY <1>1 DEF Raced, HistType
  <2>2. hist' = [hist EXCEPT !.raced = Raced,
                             !.late = hist.late \/ (FcForUs(tx, fc) /\ fc.m # call.m)]
    BY DEF IterationFc, fc
  <2> QED
    BY <2>1, <2>2
<1>7. hist' \in HistType
  BY <1>1, <1>6 DEF HistType
<1>8. UNCHANGED <<waiting, ecu>>
  BY <1>2 DEF Pump
<1> QED
  BY <1>3, <1>5, <1>7, <1>8 DEF Base, Types

LEMMA BaseIterationIdle == Base /\ IterationIdle => Base'
<1> SUFFICES ASSUME Base, IterationIdle PROVE Base'
  OBVIOUS
<1>1. Types /\ Sound(tx, call, itask) /\ tx \in TxType /\ call \in CallType /\ hist \in HistType
  BY DEF Base, Types
<1>2. ~itask.cf /\ Pump(tx) /\ UNCHANGED q_twai_rx
  BY DEF IterationIdle
<1>3. /\ tx' \in TxType /\ itask' \in ItaskType /\ call' \in CallType /\ call'.m = call.m
      /\ q_twai_tx' \in Seq(FrameType) /\ Len(q_twai_tx') <= QTxCap
      /\ Sound(tx', call', itask')
  BY <1>1, <1>2, Pumps
<1>4. PICK r \in BOOLEAN : hist' = [hist EXCEPT !.raced = r]
  <2>1. Raced \in BOOLEAN
    BY <1>1 DEF Raced, HistType
  <2> QED
    BY <2>1 DEF IterationIdle
<1>5. hist' \in HistType
  BY <1>1, <1>4 DEF HistType
<1>6. UNCHANGED <<waiting, ecu>>
  BY <1>2 DEF Pump
<1> QED
  BY <1>2, <1>3, <1>5, <1>6 DEF Base, Types

LEMMA BaseCfUnblocked == Base /\ CfUnblocked => Base'
<1> SUFFICES ASSUME Base, CfUnblocked PROVE Base'
  OBVIOUS
<1>1. /\ Types /\ Sound(tx, call, itask) /\ tx \in TxType /\ call \in CallType /\ hist \in HistType
      /\ itask \in ItaskType
  BY DEF Base, Types
<1>2. /\ itask.cf /\ Enqueue(itask.frame) /\ itask' = NotBlocked
      /\ tx' = AfterCf(tx, itask.frame.n)
      /\ call' = [call EXCEPT !.sent = SentAfter(itask.frame)]
      /\ UNCHANGED <<waiting, q_twai_rx, ecu>>
  BY DEF CfUnblocked
<1>3. itask' \in ItaskType /\ ~itask'.cf
  BY <1>2, NotBlockedTyped
<1>4. tx' \in TxType /\ call' \in CallType /\ Sound(tx', call', itask')
  <2>1. PICK k : k = itask'
    OBVIOUS
  <2>2. /\ AfterCf(tx, itask.frame.n) \in TxType
        /\ [call EXCEPT !.sent = SentAfter(itask.frame)] \in CallType
        /\ Sound(AfterCf(tx, itask.frame.n), [call EXCEPT !.sent = SentAfter(itask.frame)], k)
    BY <1>1, <1>2, <1>3, <2>1, SoundSent
  <2> QED
    BY <1>2, <2>1, <2>2
<1>5. call'.m = call.m
  BY <1>1, <1>2 DEF CallType
<1>6. q_twai_tx' \in Seq(FrameType) /\ Len(q_twai_tx') <= QTxCap
  BY <1>1, <1>2, Enqueues DEF ItaskType
<1>7. PICK r \in BOOLEAN : hist' = [hist EXCEPT !.raced = r]
  <2>1. (hist.raced \/ call.m # itask.call \/ call.pc # "wait") \in BOOLEAN
    BY <1>1 DEF HistType
  <2> QED
    BY <2>1 DEF CfUnblocked
<1>8. hist' \in HistType
  BY <1>1, <1>7 DEF HistType
<1> QED
  BY <1>2, <1>3, <1>4, <1>5, <1>6, <1>8 DEF Base, Types

LEMMA BaseCfTimeout == Base /\ CfTimeout => Base'
<1> SUFFICES ASSUME Base, CfTimeout PROVE Base'
  OBVIOUS
<1>1. /\ itask.cf /\ itask' = NotBlocked
      /\ UNCHANGED <<tx, call, waiting, q_twai_tx, q_twai_rx, ecu, hist>>
  BY DEF CfTimeout
<1>2. itask' \in ItaskType /\ ~itask'.cf
  BY <1>1, NotBlockedTyped
<1>3. Types'
  BY <1>1, <1>2 DEF Base, Types
<1>4. Sound(tx, call, itask) /\ tx \in TxType /\ call \in CallType
  BY DEF Base, Types
<1>5. PICK k : k = itask'
  OBVIOUS
<1>6. Placed(call) /\ Filled(tx, call) /\ Counted(tx, call, k) /\ BlockedOn(tx, call, k)
  BY <1>1, <1>2, <1>4, <1>5 DEF Sound, Counted, BlockedOn
<1>7. Room(tx, call, itask) /\ tx.offset \in Nat /\ MaxLen \in Nat /\ CFData \in Nat
  BY <1>4, Numbers DEF Sound
<1>8. Room(tx, call, k)
  BY <1>1, <1>2, <1>5, <1>7 DEF Room
<1>9. Sound(tx', call', itask')
  BY <1>1, <1>5, <1>6, <1>8 DEF Sound
<1> QED
  BY <1>1, <1>3, <1>9 DEF Base

-----------------------------------------------------------------------------
(* isotp_send *)

\* The call d that call is once it has gone to next.
Moved(d, next) ==
  /\ d \in CallType /\ d.pc = next /\ d.who = call.who /\ d.m = call.m /\ d.len = call.len
  /\ d.sent = call.sent /\ (d.ok <=> call.ok)

LEMMA CallerNumbers ==
  ASSUME Base
  PROVE  /\ tx.buffer \in Nat /\ tx.length \in Nat /\ tx.offset \in Nat /\ tx.wait_fc_count \in Nat
         /\ call.m \in Nat /\ call.len \in Nat /\ call.len <= MaxLen /\ call.sent \in Nat
         /\ FcWaitMax \in Nat /\ CFData \in Nat /\ MaxLen \in Nat
         /\ FFData \in Nat /\ FFData < 7 /\ FFData > 0 /\ FFData < MaxLen
         /\ itask.frame.m \in Nat
<1>1. tx \in TxType /\ call \in CallType /\ itask.frame \in FrameType
  BY DEF Base, Types, ItaskType
<1>2. itask.frame.m \in 0..MaxCalls /\ MaxCalls \in Nat
  BY <1>1, FrameFields, Consts
<1>3. itask.frame.m \in Nat
  BY <1>2
<1> QED
  BY <1>1, <1>3, Numbers, Widths

LEMMA StepMoves ==
  ASSUME Types, NEW pc, NEW next \in Pcs, NEW t, Step(pc, next, t)
  PROVE  Moved(call', next) /\ call.pc = pc /\ tx' = t /\ (itask.cf => TxFull)
<1>1. call \in CallType /\ call' = [call EXCEPT !.pc = next] /\ call.pc = pc /\ tx' = t
      /\ IsotpBlocked
  BY DEF Types, Step
<1>2. call' \in CallType
  BY <1>1 DEF CallType
<1>3. call'.ok <=> call.ok
  BY <1>1 DEF CallType
<1> QED
  BY <1>1, <1>2, <1>3 DEF Moved, CallType, IsotpBlocked

\* A step of the caller keeps Base if it leaves what tx_state holds of the message Sound.
LEMMA StepKeeps ==
  ASSUME Base, NEW pc, NEW next \in Pcs, NEW t \in TxType, Step(pc, next, t),
         \A d : Moved(d, next) => Sound(t, d, itask)
  PROVE  Base'
<1>1. Types
  BY DEF Base
<1>2. Moved(call', next) /\ tx' = t
  BY <1>1, StepMoves
<1>3. UNCHANGED <<itask, waiting, q_twai_tx, q_twai_rx, ecu, hist>>
  BY DEF Step
<1>4. PICK d : d = call'
  OBVIOUS
<1>5. Sound(tx', call', itask')
  BY <1>2, <1>3, <1>4
<1>6. call' \in CallType /\ call'.m = call.m
  BY <1>2, <1>4 DEF Moved
<1> QED
  BY <1>2, <1>3, <1>5, <1>6 DEF Base, Types

LEMMA BaseDrain == Base /\ Drain => Base'
<1> SUFFICES ASSUME Base, Drain PROVE Base'
  OBVIOUS
<1> DEFINE t == [tx EXCEPT !.sem = FALSE]
<1>1. Step("drain", "arm", t) /\ "arm" \in Pcs
  BY DEF Drain, Pcs
<1>2. /\ Sound(tx, call, itask) /\ tx \in TxType /\ call \in CallType /\ call.pc = "drain"
      /\ call.who \in Callers \cup {NoCaller}
  BY <1>1, CallFields DEF Base, Types, Step
<1>4. t \in TxType
  <2>1. FALSE \in BOOLEAN
    BY Consts, Widths DEF TxStates
  <2> QED
    BY <1>2, <2>1, TxSet
<1>5. t.state = tx.state /\ t.buffer = tx.buffer /\ t.length = tx.length
      /\ t.offset = tx.offset /\ t.wait_fc_count = tx.wait_fc_count
  BY <1>2 DEF TxType
<1> HIDE DEF t
<1>6. ASSUME NEW d, Moved(d, "arm") PROVE Sound(t, d, itask)
  <2>1. /\ d.pc = "arm" /\ d.who = call.who /\ d.m = call.m /\ d.len = call.len
        /\ d.sent = call.sent
    BY <1>6 DEF Moved
  <2>2. Placed(d)
    BY <1>2, <2>1 DEF Sound, Placed
  <2>3. Filled(t, d)
    BY <1>2, <1>5, <2>1, CallerNumbers DEF Sound, Filled, Placed, Preparing, Loaded
  <2>4. Counted(t, d, itask)
    BY <1>2, <1>5, <2>1, CallerNumbers DEF Sound, Counted, Filling
  <2>5. Room(t, d, itask)
    BY <1>2, <1>5, <2>1, CallerNumbers DEF Sound, Room, Placed, Filling
  <2>6. BlockedOn(t, d, itask)
    BY <1>2, <1>5, <2>1, CallerNumbers DEF Sound, BlockedOn, Filled, Preparing, Loaded
  <2> QED
    BY <2>2, <2>3, <2>4, <2>5, <2>6 DEF Sound
<1> QED
  BY <1>1, <1>4, <1>6, StepKeeps

LEMMA BaseArm == Base /\ Arm => Base'
<1> SUFFICES ASSUME Base, Arm PROVE Base'
  OBVIOUS
<1> DEFINE t == [tx EXCEPT !.state = "TX_WAIT_FC"]
<1>1. Step("arm", "tx_id", t) /\ "tx_id" \in Pcs
  BY DEF Arm, Pcs
<1>2. /\ Sound(tx, call, itask) /\ tx \in TxType /\ call \in CallType /\ call.pc = "arm"
      /\ call.who \in Callers \cup {NoCaller}
  BY <1>1, CallFields DEF Base, Types, Step
<1>4. t \in TxType
  <2>1. "TX_WAIT_FC" \in TxStates
    BY Consts, Widths DEF TxStates
  <2> QED
    BY <1>2, <2>1, TxSet
<1>5. t.state = "TX_WAIT_FC" /\ t.buffer = tx.buffer /\ t.length = tx.length
      /\ t.offset = tx.offset /\ t.wait_fc_count = tx.wait_fc_count
  BY <1>2 DEF TxType
<1> HIDE DEF t
<1>6. ASSUME NEW d, Moved(d, "tx_id") PROVE Sound(t, d, itask)
  <2>1. /\ d.pc = "tx_id" /\ d.who = call.who /\ d.m = call.m /\ d.len = call.len
        /\ d.sent = call.sent
    BY <1>6 DEF Moved
  <2>2. Placed(d)
    BY <1>2, <2>1 DEF Sound, Placed
  <2>3. Filled(t, d)
    BY <1>2, <1>5, <2>1, CallerNumbers DEF Sound, Filled, Placed, Preparing, Loaded
  <2>4. Counted(t, d, itask)
    BY <1>2, <1>5, <2>1, CallerNumbers DEF Sound, Counted, Filling
  <2>5. Room(t, d, itask)
    BY <1>2, <1>5, <2>1, CallerNumbers DEF Sound, Room, Placed, Filling
  <2>6. BlockedOn(t, d, itask)
    BY <1>2, <1>5, <2>1, CallerNumbers DEF Sound, BlockedOn, Filled, Preparing, Loaded
  <2> QED
    BY <2>2, <2>3, <2>4, <2>5, <2>6 DEF Sound
<1> QED
  BY <1>1, <1>4, <1>6, StepKeeps

LEMMA BaseStoreTxId == Base /\ StoreTxId => Base'
<1> SUFFICES ASSUME Base, StoreTxId PROVE Base'
  OBVIOUS
<1> DEFINE t == [tx EXCEPT !.tx_id = Peer[call.who]]
<1>1. Step("tx_id", "rx_id", t) /\ "rx_id" \in Pcs
  BY DEF StoreTxId, Pcs
<1>2. /\ Sound(tx, call, itask) /\ tx \in TxType /\ call \in CallType /\ call.pc = "tx_id"
      /\ call.who \in Callers \cup {NoCaller}
  BY <1>1, CallFields DEF Base, Types, Step
<1>3. call.who \in Callers
  BY <1>2 DEF Sound, Placed
<1>4. t \in TxType
  <2>1. Peer[call.who] \in Ecus \cup {NoEcu}
    BY <1>3, Consts
  <2> QED
    BY <1>2, <2>1, TxSet
<1>5. t.state = tx.state /\ t.buffer = tx.buffer /\ t.length = tx.length
      /\ t.offset = tx.offset /\ t.wait_fc_count = tx.wait_fc_count
  BY <1>2 DEF TxType
<1> HIDE DEF t
<1>6. ASSUME NEW d, Moved(d, "rx_id") PROVE Sound(t, d, itask)
  <2>1. /\ d.pc = "rx_id" /\ d.who = call.who /\ d.m = call.m /\ d.len = call.len
        /\ d.sent = call.sent
    BY <1>6 DEF Moved
  <2>2. Placed(d)
    BY <1>2, <2>1 DEF Sound, Placed
  <2>3. Filled(t, d)
    BY <1>2, <1>5, <2>1, CallerNumbers DEF Sound, Filled, Placed, Preparing, Loaded
  <2>4. Counted(t, d, itask)
    BY <1>2, <1>5, <2>1, CallerNumbers DEF Sound, Counted, Filling
  <2>5. Room(t, d, itask)
    BY <1>2, <1>5, <2>1, CallerNumbers DEF Sound, Room, Placed, Filling
  <2>6. BlockedOn(t, d, itask)
    BY <1>2, <1>5, <2>1, CallerNumbers DEF Sound, BlockedOn, Filled, Preparing, Loaded
  <2> QED
    BY <2>2, <2>3, <2>4, <2>5, <2>6 DEF Sound
<1> QED
  BY <1>1, <1>4, <1>6, StepKeeps

LEMMA BaseStoreRxId == Base /\ StoreRxId => Base'
<1> SUFFICES ASSUME Base, StoreRxId PROVE Base'
  OBVIOUS
<1> DEFINE t == [tx EXCEPT !.rx_id = Peer[call.who]]
<1>1. Step("rx_id", "buffer", t) /\ "buffer" \in Pcs
  BY DEF StoreRxId, Pcs
<1>2. /\ Sound(tx, call, itask) /\ tx \in TxType /\ call \in CallType /\ call.pc = "rx_id"
      /\ call.who \in Callers \cup {NoCaller}
  BY <1>1, CallFields DEF Base, Types, Step
<1>3. call.who \in Callers
  BY <1>2 DEF Sound, Placed
<1>4. t \in TxType
  <2>1. Peer[call.who] \in Ecus \cup {NoEcu}
    BY <1>3, Consts
  <2> QED
    BY <1>2, <2>1, TxSet
<1>5. t.state = tx.state /\ t.buffer = tx.buffer /\ t.length = tx.length
      /\ t.offset = tx.offset /\ t.wait_fc_count = tx.wait_fc_count
  BY <1>2 DEF TxType
<1> HIDE DEF t
<1>6. ASSUME NEW d, Moved(d, "buffer") PROVE Sound(t, d, itask)
  <2>1. /\ d.pc = "buffer" /\ d.who = call.who /\ d.m = call.m /\ d.len = call.len
        /\ d.sent = call.sent
    BY <1>6 DEF Moved
  <2>2. Placed(d)
    BY <1>2, <2>1 DEF Sound, Placed
  <2>3. Filled(t, d)
    BY <1>2, <1>5, <2>1, CallerNumbers DEF Sound, Filled, Placed, Preparing, Loaded
  <2>4. Counted(t, d, itask)
    BY <1>2, <1>5, <2>1, CallerNumbers DEF Sound, Counted, Filling
  <2>5. Room(t, d, itask)
    BY <1>2, <1>5, <2>1, CallerNumbers DEF Sound, Room, Placed, Filling
  <2>6. BlockedOn(t, d, itask)
    BY <1>2, <1>5, <2>1, CallerNumbers DEF Sound, BlockedOn, Filled, Preparing, Loaded
  <2> QED
    BY <2>2, <2>3, <2>4, <2>5, <2>6 DEF Sound
<1> QED
  BY <1>1, <1>4, <1>6, StepKeeps

LEMMA BaseStoreBuffer == Base /\ StoreBuffer => Base'
<1> SUFFICES ASSUME Base, StoreBuffer PROVE Base'
  OBVIOUS
<1> DEFINE t == [tx EXCEPT !.buffer = call.m]
<1>1. Step("buffer", "length", t) /\ "length" \in Pcs
  BY DEF StoreBuffer, Pcs
<1>2. /\ Sound(tx, call, itask) /\ tx \in TxType /\ call \in CallType /\ call.pc = "buffer"
      /\ call.who \in Callers \cup {NoCaller}
  BY <1>1, CallFields DEF Base, Types, Step
<1>4. t \in TxType
  <2>1. call.m \in 0..MaxCalls
    BY <1>2, CallFields, Widths
  <2> QED
    BY <1>2, <2>1, TxSet
<1>5. t.state = tx.state /\ t.buffer = call.m /\ t.length = tx.length
      /\ t.offset = tx.offset /\ t.wait_fc_count = tx.wait_fc_count
  BY <1>2 DEF TxType
<1> HIDE DEF t
<1>6. ASSUME NEW d, Moved(d, "length") PROVE Sound(t, d, itask)
  <2>1. /\ d.pc = "length" /\ d.who = call.who /\ d.m = call.m /\ d.len = call.len
        /\ d.sent = call.sent
    BY <1>6 DEF Moved
  <2>2. Placed(d)
    BY <1>2, <2>1 DEF Sound, Placed
  <2>3. Filled(t, d)
    BY <1>2, <1>5, <2>1, CallerNumbers DEF Sound, Filled, Placed, Preparing, Loaded
  <2>4. Counted(t, d, itask)
    BY <1>2, <1>5, <2>1, CallerNumbers DEF Sound, Counted, Filling
  <2>5. Room(t, d, itask)
    BY <1>2, <1>5, <2>1, CallerNumbers DEF Sound, Room, Placed, Filling
  <2>6. BlockedOn(t, d, itask)
    BY <1>2, <1>5, <2>1, CallerNumbers DEF Sound, BlockedOn, Filled, Preparing, Loaded
  <2> QED
    BY <2>2, <2>3, <2>4, <2>5, <2>6 DEF Sound
<1> QED
  BY <1>1, <1>4, <1>6, StepKeeps

LEMMA BaseStoreLength == Base /\ StoreLength => Base'
<1> SUFFICES ASSUME Base, StoreLength PROVE Base'
  OBVIOUS
<1> DEFINE t == [tx EXCEPT !.length = call.len]
<1>1. Step("length", "rest", t) /\ "rest" \in Pcs
  BY DEF StoreLength, Pcs
<1>2. /\ Sound(tx, call, itask) /\ tx \in TxType /\ call \in CallType /\ call.pc = "length"
      /\ call.who \in Callers \cup {NoCaller}
  BY <1>1, CallFields DEF Base, Types, Step
<1>4. t \in TxType
  <2>1. call.len \in 0..MaxLen
    BY <1>2, CallFields, Widths
  <2> QED
    BY <1>2, <2>1, TxSet
<1>5. t.state = tx.state /\ t.buffer = tx.buffer /\ t.length = call.len
      /\ t.offset = tx.offset /\ t.wait_fc_count = tx.wait_fc_count
  BY <1>2 DEF TxType
<1> HIDE DEF t
<1>6. ASSUME NEW d, Moved(d, "rest") PROVE Sound(t, d, itask)
  <2>1. /\ d.pc = "rest" /\ d.who = call.who /\ d.m = call.m /\ d.len = call.len
        /\ d.sent = call.sent
    BY <1>6 DEF Moved
  <2>2. Placed(d)
    BY <1>2, <2>1 DEF Sound, Placed
  <2>3. Filled(t, d)
    BY <1>2, <1>5, <2>1, CallerNumbers DEF Sound, Filled, Placed, Preparing, Loaded
  <2>4. Counted(t, d, itask)
    BY <1>2, <1>5, <2>1, CallerNumbers DEF Sound, Counted, Filling
  <2>5. Room(t, d, itask)
    BY <1>2, <1>5, <2>1, CallerNumbers DEF Sound, Room, Placed, Filling
  <2>6. BlockedOn(t, d, itask)
    BY <1>2, <1>5, <2>1, CallerNumbers DEF Sound, BlockedOn, Filled, Preparing, Loaded
  <2> QED
    BY <2>2, <2>3, <2>4, <2>5, <2>6 DEF Sound
<1> QED
  BY <1>1, <1>4, <1>6, StepKeeps

LEMMA BaseStoreRest == Base /\ StoreRest => Base'
<1> SUFFICES ASSUME Base, StoreRest PROVE Base'
  OBVIOUS
<1> DEFINE t == [tx EXCEPT !.offset = FFData, !.sn = 1, !.bs = 0, !.bs_counter = 0, !.stmin_ms = 0,
                   !.wait_fc_count = 0]
<1>1. Step("rest", "start", t) /\ "start" \in Pcs
  BY DEF StoreRest, Pcs
<1>2. /\ Sound(tx, call, itask) /\ tx \in TxType /\ call \in CallType /\ call.pc = "rest"
      /\ call.who \in Callers \cup {NoCaller}
  BY <1>1, CallFields DEF Base, Types, Step
<1>4. t \in TxType
  <2>1. /\ FFData \in 0..(U16 - 1) /\ 1 \in 0..(SnMod - 1) /\ 0 \in 0..255 /\ 0 \in 0..127
    BY Consts, Widths DEF TxStates
  <2> QED
    BY <1>2, <2>1, TxSet
<1>5. t.state = tx.state /\ t.buffer = tx.buffer /\ t.length = tx.length
      /\ t.offset = FFData /\ t.wait_fc_count = 0
  BY <1>2 DEF TxType
<1> HIDE DEF t
<1>6. ASSUME NEW d, Moved(d, "start") PROVE Sound(t, d, itask)
  <2>1. /\ d.pc = "start" /\ d.who = call.who /\ d.m = call.m /\ d.len = call.len
        /\ d.sent = call.sent
    BY <1>6 DEF Moved
  <2>2. Placed(d)
    BY <1>2, <2>1 DEF Sound, Placed
  <2>3. Filled(t, d)
    BY <1>2, <1>5, <2>1, CallerNumbers DEF Sound, Filled, Placed, Preparing, Loaded
  <2>4. Counted(t, d, itask)
    BY <1>2, <1>5, <2>1, CallerNumbers DEF Sound, Counted, Filling
  <2>5. Room(t, d, itask)
    BY <1>2, <1>5, <2>1, CallerNumbers DEF Sound, Room, Placed, Filling
  <2>6. BlockedOn(t, d, itask)
    BY <1>2, <1>5, <2>1, CallerNumbers DEF Sound, BlockedOn, Filled, Preparing, Loaded
  <2> QED
    BY <2>2, <2>3, <2>4, <2>5, <2>6 DEF Sound
<1> QED
  BY <1>1, <1>4, <1>6, StepKeeps

LEMMA BaseStartWait == Base /\ StartWait => Base'
<1> SUFFICES ASSUME Base, StartWait PROVE Base'
  OBVIOUS
<1> DEFINE t == [tx EXCEPT !.fcAge = 0]
<1>1. Step("start", "ff", t) /\ "ff" \in Pcs
  BY DEF StartWait, Pcs
<1>2. /\ Sound(tx, call, itask) /\ tx \in TxType /\ call \in CallType /\ call.pc = "start"
      /\ call.who \in Callers \cup {NoCaller}
  BY <1>1, CallFields DEF Base, Types, Step
<1>4. t \in TxType
  <2>1. 0 \in 0..(NBs + 1)
    BY Consts, Widths DEF TxStates
  <2> QED
    BY <1>2, <2>1, TxSet
<1>5. t.state = tx.state /\ t.buffer = tx.buffer /\ t.length = tx.length
      /\ t.offset = tx.offset /\ t.wait_fc_count = tx.wait_fc_count
  BY <1>2 DEF TxType
<1> HIDE DEF t
<1>6. ASSUME NEW d, Moved(d, "ff") PROVE Sound(t, d, itask)
  <2>1. /\ d.pc = "ff" /\ d.who = call.who /\ d.m = call.m /\ d.len = call.len
        /\ d.sent = call.sent
    BY <1>6 DEF Moved
  <2>2. Placed(d)
    BY <1>2, <2>1 DEF Sound, Placed
  <2>3. Filled(t, d)
    BY <1>2, <1>5, <2>1, CallerNumbers DEF Sound, Filled, Placed, Preparing, Loaded
  <2>4. Counted(t, d, itask)
    BY <1>2, <1>5, <2>1, CallerNumbers DEF Sound, Counted, Filling
  <2>5. Room(t, d, itask)
    BY <1>2, <1>5, <2>1, CallerNumbers DEF Sound, Room, Placed, Filling
  <2>6. BlockedOn(t, d, itask)
    BY <1>2, <1>5, <2>1, CallerNumbers DEF Sound, BlockedOn, Filled, Preparing, Loaded
  <2> QED
    BY <2>2, <2>3, <2>4, <2>5, <2>6 DEF Sound
<1> QED
  BY <1>1, <1>4, <1>6, StepKeeps

LEMMA BaseFinish == Base /\ Finish => Base'
<1> SUFFICES ASSUME Base, Finish PROVE Base'
  OBVIOUS
<1> DEFINE t == [tx EXCEPT !.state = "TX_IDLE"]
<1>1. Step("finish", "return", t) /\ "return" \in Pcs
  BY DEF Finish, Pcs
<1>2. /\ Sound(tx, call, itask) /\ tx \in TxType /\ call \in CallType /\ call.pc = "finish"
      /\ call.who \in Callers \cup {NoCaller}
  BY <1>1, CallFields DEF Base, Types, Step
<1>4. t \in TxType
  <2>1. "TX_IDLE" \in TxStates
    BY Consts, Widths DEF TxStates
  <2> QED
    BY <1>2, <2>1, TxSet
<1>5. t.state = "TX_IDLE" /\ t.buffer = tx.buffer /\ t.length = tx.length
      /\ t.offset = tx.offset /\ t.wait_fc_count = tx.wait_fc_count
  BY <1>2 DEF TxType
<1> HIDE DEF t
<1>6. ASSUME NEW d, Moved(d, "return") PROVE Sound(t, d, itask)
  <2>1. /\ d.pc = "return" /\ d.who = call.who /\ d.m = call.m /\ d.len = call.len
        /\ d.sent = call.sent
    BY <1>6 DEF Moved
  <2>2. Placed(d)
    BY <1>2, <2>1 DEF Sound, Placed
  <2>3. Filled(t, d)
    BY <1>2, <1>5, <2>1, CallerNumbers DEF Sound, Filled, Placed, Preparing, Loaded
  <2>4. Counted(t, d, itask)
    BY <1>2, <1>5, <2>1, CallerNumbers DEF Sound, Counted, Filling
  <2>5. Room(t, d, itask)
    BY <1>2, <1>5, <2>1, CallerNumbers DEF Sound, Room, Placed, Filling
  <2>6. BlockedOn(t, d, itask)
    BY <1>2, <1>5, <2>1, CallerNumbers DEF Sound, BlockedOn, Filled, Preparing, Loaded
  <2> QED
    BY <2>2, <2>3, <2>4, <2>5, <2>6 DEF Sound
<1> QED
  BY <1>1, <1>4, <1>6, StepKeeps

LEMMA SfTyped ==
  ASSUME Base, call.pc = "sf"
  PROVE  /\ Frame("SF", Peer[call.who], call.m, 0, 0, call.len, call.len) \in FrameType
         /\ call.who \in Callers
<1>1. call.who \in Callers /\ call \in CallType /\ call.len <= 7
  BY CallFields DEF Base, Types, Sound, Placed
<1>2. /\ Peer[call.who] \in Ecus \cup {NoEcu} /\ call.m \in 0..MaxCalls /\ call.len \in 0..CFData
      /\ call.len \in 0..MaxLen /\ 0 \in 0..(SnMod - 1) /\ 0 \in 0..(U16 - 1)
  BY <1>1, CallFields, Consts, Widths DEF CFData
<1> QED
  BY <1>1, <1>2 DEF Frame, FrameType

LEMMA FfTyped ==
  ASSUME Base, call.pc = "ff"
  PROVE  /\ Frame("FF", Peer[call.who], call.m, 0, 0, FFData, call.len) \in FrameType
         /\ call.who \in Callers
<1>1. call.who \in Callers /\ call \in CallType
  BY CallFields DEF Base, Types, Sound, Placed
<1>2. /\ Peer[call.who] \in Ecus \cup {NoEcu} /\ call.m \in 0..MaxCalls /\ FFData \in 0..CFData
      /\ call.len \in 0..MaxLen /\ 0 \in 0..(SnMod - 1) /\ 0 \in 0..(U16 - 1)
  BY <1>1, CallFields, Consts, Widths DEF CFData, FFData
<1> QED
  BY <1>1, <1>2 DEF Frame, FrameType

\* What the end of a step of isotp_send has to be for Base to hold there.
LEMMA Keeps ==
  ASSUME Base, tx' \in TxType, call' \in CallType, call'.m = call.m, Sound(tx', call', itask),
         q_twai_tx' \in Seq(FrameType), Len(q_twai_tx') <= QTxCap,
         UNCHANGED <<itask, waiting, q_twai_rx, ecu, hist>>
  PROVE  Base'
<1>1. Sound(tx', call', itask')
  OBVIOUS
<1> QED
  BY <1>1 DEF Base, Types

LEMMA BaseSendSf == Base /\ SendSf => Base'
<1> SUFFICES ASSUME Base, SendSf PROVE Base'
  OBVIOUS
<1> DEFINE f == Frame("SF", Peer[call.who], call.m, 0, 0, call.len, call.len)
<1>1. /\ call.pc = "sf" /\ UNCHANGED <<itask, waiting, q_twai_rx, ecu, hist>>
      /\ \/ /\ Enqueue(f) /\ call' = [call EXCEPT !.pc = "return", !.ok = TRUE, !.sent = call.len]
            /\ tx' = tx
         \/ call' = [call EXCEPT !.pc = "return"] /\ tx' = tx /\ q_twai_tx' = q_twai_tx
  BY DEF SendSf, SendFrame
<1>2. /\ Types /\ Sound(tx, call, itask) /\ tx \in TxType /\ call \in CallType
      /\ q_twai_tx \in Seq(FrameType) /\ Len(q_twai_tx) <= QTxCap /\ Len(q_twai_tx) \in Nat
      /\ call.len \in 0..MaxLen
  BY CallFields, Widths, LenProperties DEF Base, Types
<1>3. "return" \in Pcs /\ TRUE \in BOOLEAN
  BY DEF Pcs
<1>4. call' \in CallType
  <2>1. [call EXCEPT !.pc = "return"] \in CallType
    BY <1>2, <1>3 DEF CallType
  <2>2. [call EXCEPT !.pc = "return", !.ok = TRUE, !.sent = call.len] \in CallType
    BY <1>2, <1>3 DEF CallType
  <2> QED
    BY <1>1, <2>1, <2>2
<1>5. PICK d : d = call'
  OBVIOUS
<1>6. /\ d.pc = "return" /\ d.who = call.who /\ d.m = call.m /\ d.len = call.len
      /\ d.sent = call.sent \/ (d.sent = call.len /\ ~itask.cf)
  <2>1. Enqueue(f) => ~itask.cf
    BY <1>2, Consts DEF SendSf, SendFrame, IsotpBlocked, TxFull, Enqueue
  <2> QED
    BY <1>1, <1>2, <1>5, <2>1 DEF CallType
<1>7. q_twai_tx' \in Seq(FrameType) /\ Len(q_twai_tx') <= QTxCap
  BY <1>1, <1>2, SfTyped, Enqueues
<1>8. Placed(d)
  BY <1>1, <1>2, <1>6, CallerNumbers DEF Sound, Placed
<1>9. Filled(tx, d)
  BY <1>1, <1>2, <1>6, CallerNumbers DEF Sound, Filled, Placed, Preparing, Loaded
<1>10. Counted(tx, d, itask)
  BY <1>1, <1>2, <1>6, CallerNumbers DEF Sound, Counted, Filling
<1>11. Room(tx, d, itask)
  BY <1>1, <1>2, <1>6, CallerNumbers DEF Sound, Room, Filling
<1>12. BlockedOn(tx, d, itask)
  BY <1>1, <1>2, <1>6, CallerNumbers DEF Sound, BlockedOn, Filled, Preparing
<1>13. Sound(tx', call', itask) /\ tx' \in TxType /\ call'.m = call.m
  BY <1>1, <1>2, <1>5, <1>6, <1>8, <1>9, <1>10, <1>11, <1>12 DEF Sound
<1> QED
  BY <1>1, <1>4, <1>7, <1>13, Keeps

LEMMA BaseSendFf == Base /\ SendFf => Base'
<1> SUFFICES ASSUME Base, SendFf PROVE Base'
  OBVIOUS
<1> DEFINE f == Frame("FF", Peer[call.who], call.m, 0, 0, FFData, call.len)
<1>1. /\ call.pc = "ff" /\ UNCHANGED <<itask, waiting, q_twai_rx, ecu, hist>>
      /\ \/ /\ Enqueue(f) /\ call' = [call EXCEPT !.pc = "wait", !.sent = FFData] /\ tx' = tx
         \/ /\ call' = [call EXCEPT !.pc = "return"] /\ tx' = [tx EXCEPT !.state = "TX_IDLE"]
            /\ q_twai_tx' = q_twai_tx
  BY DEF SendFf, SendFrame
<1>2. /\ Types /\ Sound(tx, call, itask) /\ tx \in TxType /\ call \in CallType
      /\ q_twai_tx \in Seq(FrameType) /\ Len(q_twai_tx) <= QTxCap /\ Len(q_twai_tx) \in Nat
  BY LenProperties DEF Base, Types
<1>3. "return" \in Pcs /\ "wait" \in Pcs /\ FFData \in 0..MaxLen /\ "TX_IDLE" \in TxStates
  BY Widths DEF Pcs, TxStates
<1>4. call' \in CallType
  <2>1. [call EXCEPT !.pc = "return"] \in CallType
    BY <1>2, <1>3 DEF CallType
  <2>2. [call EXCEPT !.pc = "wait", !.sent = FFData] \in CallType
    BY <1>2, <1>3 DEF CallType
  <2> QED
    BY <1>1, <2>1, <2>2
<1>5. PICK d : d = call'
  OBVIOUS
<1>6. /\ d.who = call.who /\ d.m = call.m /\ d.len = call.len
      /\ \/ d.pc = "return" /\ d.sent = call.sent
         \/ d.pc = "wait" /\ d.sent = FFData /\ ~itask.cf
  <2>1. Enqueue(f) => ~itask.cf
    BY <1>2, Consts DEF SendFf, SendFrame, IsotpBlocked, TxFull, Enqueue
  <2> QED
    BY <1>1, <1>2, <1>5, <2>1 DEF CallType
<1>7. q_twai_tx' \in Seq(FrameType) /\ Len(q_twai_tx') <= QTxCap
  BY <1>1, <1>2, FfTyped, Enqueues
<1>8. PICK t : t = tx'
  OBVIOUS
<1>9. /\ t \in TxType /\ t.buffer = tx.buffer /\ t.length = tx.length /\ t.offset = tx.offset
      /\ t.wait_fc_count = tx.wait_fc_count /\ t.state \in {tx.state, "TX_IDLE"}
  <2> DEFINE u == [tx EXCEPT !.state = "TX_IDLE"]
  <2>1. u \in TxType
    BY <1>2, <1>3, TxSet
  <2>2. /\ u.buffer = tx.buffer /\ u.length = tx.length /\ u.offset = tx.offset
        /\ u.wait_fc_count = tx.wait_fc_count /\ u.state = "TX_IDLE"
    BY <1>2 DEF TxType
  <2>3. t = tx \/ t = u
    BY <1>1, <1>8
  <2> HIDE DEF u
  <2> QED
    BY <1>2, <2>1, <2>2, <2>3
<1>10. Placed(d)
  BY <1>1, <1>2, <1>6, CallerNumbers DEF Sound, Placed
<1>11. Filled(t, d)
  BY <1>1, <1>2, <1>6, <1>9, CallerNumbers DEF Sound, Filled, Placed, Preparing, Loaded
<1>12. Counted(t, d, itask)
  BY <1>1, <1>2, <1>6, <1>9, CallerNumbers DEF Sound, Counted, Filling
<1>13. Room(t, d, itask)
  BY <1>1, <1>2, <1>6, <1>9, CallerNumbers DEF Sound, Room, Filling
<1>14. BlockedOn(t, d, itask)
  BY <1>1, <1>2, <1>6, <1>9, CallerNumbers DEF Sound, BlockedOn, Filled, Preparing
<1>15. Sound(tx', call', itask) /\ tx' \in TxType /\ call'.m = call.m
  BY <1>1, <1>5, <1>6, <1>8, <1>9, <1>10, <1>11, <1>12, <1>13, <1>14 DEF Sound
<1> QED
  BY <1>1, <1>4, <1>7, <1>15, Keeps

LEMMA BaseWaits == Base /\ (WaitTaken \/ WaitTimeout) => Base'
<1> SUFFICES ASSUME Base, WaitTaken \/ WaitTimeout PROVE Base'
  OBVIOUS
<1>1. /\ call.pc = "wait" /\ UNCHANGED <<itask, waiting, q_twai_tx, q_twai_rx, ecu, hist>>
      /\ \/ /\ call' = [call EXCEPT !.pc = "finish", !.ok = tx.state = "TX_DONE"]
            /\ tx' = [tx EXCEPT !.sem = FALSE]
         \/ call' = [call EXCEPT !.pc = "finish"] /\ tx' = tx
  BY DEF WaitTaken, WaitTimeout
<1>2. /\ Types /\ Sound(tx, call, itask) /\ tx \in TxType /\ call \in CallType
      /\ q_twai_tx \in Seq(FrameType) /\ Len(q_twai_tx) <= QTxCap
  BY DEF Base, Types
<1>3. "finish" \in Pcs /\ FALSE \in BOOLEAN
  BY DEF Pcs
<1>4. call' \in CallType
  <2>1. [call EXCEPT !.pc = "finish"] \in CallType
    BY <1>2, <1>3 DEF CallType
  <2>2. \A w \in BOOLEAN : [call EXCEPT !.pc = "finish", !.ok = w] \in CallType
    BY <1>2, <1>3 DEF CallType
  <2>3. (tx.state = "TX_DONE") \in BOOLEAN
    OBVIOUS
  <2> QED
    BY <1>1, <2>1, <2>2, <2>3
<1>5. PICK d : d = call'
  OBVIOUS
<1>6. /\ d.pc = "finish" /\ d.who = call.who /\ d.m = call.m /\ d.len = call.len
      /\ d.sent = call.sent
  BY <1>1, <1>2, <1>5 DEF CallType
<1>7. PICK t : t = tx'
  OBVIOUS
<1>8. /\ t \in TxType /\ t.buffer = tx.buffer /\ t.length = tx.length /\ t.offset = tx.offset
      /\ t.wait_fc_count = tx.wait_fc_count /\ t.state = tx.state
  <2> DEFINE u == [tx EXCEPT !.sem = FALSE]
  <2>1. u \in TxType
    BY <1>2, <1>3, TxSet
  <2>2. /\ u.buffer = tx.buffer /\ u.length = tx.length /\ u.offset = tx.offset
        /\ u.wait_fc_count = tx.wait_fc_count /\ u.state = tx.state
    BY <1>2 DEF TxType
  <2>3. t = tx \/ t = u
    BY <1>1, <1>7
  <2> HIDE DEF u
  <2> QED
    BY <1>2, <2>1, <2>2, <2>3
<1>9. Placed(d)
  BY <1>1, <1>2, <1>6, CallerNumbers DEF Sound, Placed
<1>10. Filled(t, d)
  BY <1>1, <1>2, <1>6, <1>8, CallerNumbers DEF Sound, Filled, Placed, Preparing, Loaded
<1>11. Counted(t, d, itask)
  BY <1>1, <1>2, <1>6, <1>8, CallerNumbers DEF Sound, Counted, Filling
<1>12. Room(t, d, itask)
  BY <1>1, <1>2, <1>6, <1>8, CallerNumbers DEF Sound, Room, Filling
<1>13. BlockedOn(t, d, itask)
  BY <1>1, <1>2, <1>6, <1>8, CallerNumbers DEF Sound, BlockedOn, Filled, Preparing
<1>14. Sound(tx', call', itask) /\ tx' \in TxType /\ call'.m = call.m
  BY <1>1, <1>5, <1>6, <1>7, <1>8, <1>9, <1>10, <1>11, <1>12, <1>13 DEF Sound
<1>15. q_twai_tx' \in Seq(FrameType) /\ Len(q_twai_tx') <= QTxCap
  BY <1>1, <1>2
<1> QED
  BY <1>1, <1>4, <1>14, <1>15, Keeps

LEMMA BaseReturn == Base /\ Return => Base'
<1> SUFFICES ASSUME Base, Return PROVE Base'
  OBVIOUS
<1>1. /\ call.pc = "return" /\ call' = [NoCall EXCEPT !.m = call.m]
      /\ UNCHANGED <<tx, itask, waiting, q_twai_tx, q_twai_rx, ecu, hist>>
  BY DEF Return
<1>2. /\ Types /\ Sound(tx, call, itask) /\ tx \in TxType /\ call \in CallType
      /\ q_twai_tx \in Seq(FrameType) /\ Len(q_twai_tx) <= QTxCap /\ call.m \in 0..MaxCalls
  BY CallFields DEF Base, Types
<1>3. PICK d : d = [NoCall EXCEPT !.m = call.m]
  OBVIOUS
<1>4. /\ d.pc = "none" /\ d.who = NoCaller /\ d.m = call.m /\ d.len = 0 /\ d.sent = 0
      /\ d \in CallType
  <2>1. d = [who |-> NoCaller, pc |-> "none", m |-> call.m, len |-> 0, age |-> 0, sent |-> 0,
             ok |-> FALSE]
    BY <1>3 DEF NoCall
  <2>2. 0 \in 0..MaxLen /\ 0 \in 0..SendTimeout /\ "none" \in Pcs /\ FALSE \in BOOLEAN
    BY Consts, Widths DEF Pcs
  <2> QED
    BY <1>2, <2>1, <2>2 DEF CallType
<1>5. Placed(d)
  BY <1>4 DEF Placed
<1>6. Filled(tx, d)
  BY <1>1, <1>2, <1>4, CallerNumbers DEF Sound, Filled, Placed, Preparing, Loaded
<1>7. Counted(tx, d, itask)
  BY <1>1, <1>2, <1>4, CallerNumbers DEF Sound, Counted, Filling
<1>8. Room(tx, d, itask)
  BY <1>1, <1>2, <1>4, CallerNumbers DEF Sound, Room, Filling
<1>9. BlockedOn(tx, d, itask)
  BY <1>1, <1>2, <1>4, CallerNumbers DEF Sound, BlockedOn
<1>10. Sound(tx', call', itask) /\ tx' \in TxType /\ call'.m = call.m /\ call' \in CallType
  BY <1>1, <1>2, <1>3, <1>4, <1>5, <1>6, <1>7, <1>8, <1>9 DEF Sound
<1>11. q_twai_tx' \in Seq(FrameType) /\ Len(q_twai_tx') <= QTxCap
  BY <1>1, <1>2
<1> QED
  BY <1>1, <1>10, <1>11, Keeps

-----------------------------------------------------------------------------
(* The environment *)

LEMMA EcuSet ==
  ASSUME NEW r \in EcuType
  PROVE  /\ \A x \in {"idle", "recv"} : [r EXCEPT !.st = x] \in EcuType
         /\ \A x \in 0..MaxCalls : [r EXCEPT !.m = x] \in EcuType
         /\ \A x \in 0..MaxLen : [r EXCEPT !.len = x] \in EcuType
         /\ \A x \in Nat : [r EXCEPT !.got = x] \in EcuType
         /\ \A x \in 0..(SnMod - 1) : [r EXCEPT !.sn = x] \in EcuType
         /\ \A x \in BOOLEAN : [r EXCEPT !.owes = x] \in EcuType
         /\ \A x \in Nat : [r EXCEPT !.waits = x] \in EcuType
         /\ \A x \in 0..255 : [r EXCEPT !.left = x] \in EcuType
         /\ \A x \in BOOLEAN : [r EXCEPT !.mixed = x] \in EcuType
         /\ \A x \in BOOLEAN : [r EXCEPT !.bad = x] \in EcuType
         /\ \A x \in BOOLEAN : [r EXCEPT !.overrun = x] \in EcuType
<1>1. \A x \in {"idle", "recv"} : [r EXCEPT !.st = x] \in EcuType
  BY DEF EcuType
<1>2. \A x \in 0..MaxCalls : [r EXCEPT !.m = x] \in EcuType
  BY DEF EcuType
<1>3. \A x \in 0..MaxLen : [r EXCEPT !.len = x] \in EcuType
  BY DEF EcuType
<1>4. \A x \in Nat : [r EXCEPT !.got = x] \in EcuType
  BY DEF EcuType
<1>5. \A x \in 0..(SnMod - 1) : [r EXCEPT !.sn = x] \in EcuType
  BY DEF EcuType
<1>6. \A x \in BOOLEAN : [r EXCEPT !.owes = x] \in EcuType
  BY DEF EcuType
<1>7. \A x \in Nat : [r EXCEPT !.waits = x] \in EcuType
  BY DEF EcuType
<1>8. \A x \in 0..255 : [r EXCEPT !.left = x] \in EcuType
  BY DEF EcuType
<1>9. \A x \in BOOLEAN : [r EXCEPT !.mixed = x] \in EcuType
  BY DEF EcuType
<1>10. \A x \in BOOLEAN : [r EXCEPT !.bad = x] \in EcuType
  BY DEF EcuType
<1>11. \A x \in BOOLEAN : [r EXCEPT !.overrun = x] \in EcuType
  BY DEF EcuType
<1> QED
  BY <1>1, <1>2, <1>3, <1>4, <1>5, <1>6, <1>7, <1>8, <1>9, <1>10, <1>11

LEMMA EcuFields ==
  ASSUME NEW r \in EcuType
  PROVE  /\ r.st \in {"idle", "recv"} /\ r.m \in 0..MaxCalls /\ r.len \in Nat /\ r.len <= MaxLen
         /\ r.got \in Nat /\ r.sn \in 0..(SnMod - 1) /\ r.owes \in BOOLEAN /\ r.waits \in Nat
         /\ r.left \in 0..255 /\ r.mixed \in BOOLEAN /\ r.bad \in BOOLEAN /\ r.overrun \in BOOLEAN
<1>1. r.len \in 0..MaxLen
  BY DEF EcuType
<1>2. /\ r.st \in {"idle", "recv"} /\ r.m \in 0..MaxCalls
      /\ r.got \in Nat /\ r.sn \in 0..(SnMod - 1) /\ r.owes \in BOOLEAN /\ r.waits \in Nat
      /\ r.left \in 0..255 /\ r.mixed \in BOOLEAN /\ r.bad \in BOOLEAN /\ r.overrun \in BOOLEAN
  BY DEF EcuType
<1> QED
  BY <1>1, <1>2, Widths

LEMMA NoReceptionTyped == NoReception \in EcuType
<1>1. /\ 0 \in 0..MaxCalls /\ 0 \in 0..MaxLen /\ 0 \in 0..(SnMod - 1) /\ 0 \in 0..255 /\ 0 \in Nat
      /\ FALSE \in BOOLEAN /\ "idle" \in {"idle", "recv"}
  BY Consts, Widths
<1> QED
  BY <1>1 DEF NoReception, EcuType

LEMMA EcuIdleIs ==
  ASSUME NEW r \in EcuType
  PROVE  /\ EcuIdle(r) \in EcuType /\ EcuIdle(r).st = "idle" /\ ~EcuIdle(r).owes
         /\ ~EcuIdle(r).mixed /\ (EcuIdle(r).bad <=> r.bad) /\ (EcuIdle(r).overrun <=> r.overrun)
         /\ EcuIdle(r).left = 0
<1>1. r.bad \in BOOLEAN /\ r.overrun \in BOOLEAN
  BY EcuFields
<1>2. EcuIdle(r) \in EcuType
  BY <1>1, NoReceptionTyped, EcuSet DEF EcuIdle
<1>3. EcuIdle(r).st = "idle" /\ EcuIdle(r).left = 0
  BY NoReceptionTyped DEF EcuIdle, NoReception
<1>4. ~EcuIdle(r).owes /\ ~EcuIdle(r).mixed
  BY NoReceptionTyped DEF EcuIdle, NoReception
<1>5. (EcuIdle(r).bad <=> r.bad) /\ (EcuIdle(r).overrun <=> r.overrun)
  BY NoReceptionTyped DEF EcuIdle, EcuType
<1> QED
  BY <1>2, <1>3, <1>4, <1>5

\* A First Frame starts a reception, a Consecutive Frame in sequence goes on with it, and
\* everything else ends it.
LEMMA EcuReceiveIs ==
  ASSUME NEW r \in EcuType, NEW f \in FrameType
  PROVE  LET x == EcuReceive(r, f) IN
         /\ x \in EcuType
         /\ \/ /\ f.pci = "FF" /\ x.st = "recv" /\ x.m = f.m /\ x.got = f.n /\ x.len = f.len
               /\ x.owes /\ x.left = 0 /\ ~x.mixed /\ (x.bad <=> r.bad)
               /\ (x.overrun <=> r.overrun)
            \/ /\ f.pci = "CF" /\ r.st = "recv" /\ f.sn = r.sn /\ x.st = "recv" /\ x.m = r.m
               /\ x.got = r.got + f.n /\ x.len = r.len
               /\ (x.mixed <=> r.mixed \/ f.m # r.m \/ f.off # r.got) /\ (x.bad <=> r.bad)
               /\ (x.overrun <=> r.overrun \/ r.owes)
               /\ IF r.left = 1 THEN x.left = 0 /\ x.owes
                  ELSE x.left = (IF r.left = 0 THEN 0 ELSE r.left - 1) /\ (x.owes <=> r.owes)
            \/ /\ f.pci = "CF" /\ r.st = "recv" /\ f.sn = r.sn /\ x.st = "idle" /\ ~x.owes
               /\ (x.bad <=> r.bad \/ r.mixed \/ f.m # r.m \/ f.off # r.got) /\ ~x.mixed
               /\ (x.overrun <=> r.overrun \/ r.owes)
            \/ /\ x.st = "idle" /\ ~x.owes /\ ~x.mixed /\ (x.bad <=> r.bad)
               /\ (x.overrun <=> r.overrun)
<1> DEFINE x == EcuReceive(r, f)
<1>1. /\ f.pci \in {"SF", "FF", "CF"} /\ f.m \in 0..MaxCalls /\ f.len \in 0..MaxLen /\ f.n \in Nat
      /\ f.off \in Nat
  BY FrameFields, Widths
<1>2. /\ r.m \in 0..MaxCalls /\ r.got \in Nat /\ r.sn \in 0..(SnMod - 1) /\ r.left \in 0..255
  BY EcuFields
<1>3. CASE f.pci = "FF"
  <2> DEFINE e == EcuIdle(r)
             y == [e EXCEPT !.st = "recv", !.m = f.m, !.len = f.len, !.got = f.n, !.sn = 1,
                            !.owes = TRUE]
  <2>1. x = y
    BY <1>3 DEF EcuReceive
  <2>2. /\ e \in EcuType /\ ~e.mixed /\ (e.bad <=> r.bad) /\ (e.overrun <=> r.overrun)
        /\ e.left = 0
    BY EcuIdleIs
  <2> HIDE DEF e
  <2>3. 1 \in 0..(SnMod - 1) /\ TRUE \in BOOLEAN
    BY Consts
  <2>4. y \in EcuType
    BY <1>1, <2>2, <2>3, EcuSet
  <2>5. y.st = "recv" /\ y.m = f.m /\ y.got = f.n /\ y.len = f.len /\ y.left = e.left
    BY <2>2 DEF EcuType
  <2>6. y.owes /\ (y.mixed <=> e.mixed) /\ (y.bad <=> e.bad) /\ (y.overrun <=> e.overrun)
    BY <2>2 DEF EcuType
  <2> QED
    BY <1>3, <2>1, <2>2, <2>4, <2>5, <2>6
<1>4. CASE f.pci = "CF" /\ r.st = "recv" /\ f.sn = r.sn
  <2> DEFINE g == r.got + f.n
             n == (r.sn + 1) % SnMod
             s == [r EXCEPT !.got = g, !.sn = n, !.overrun = r.overrun \/ r.owes,
                            !.mixed = r.mixed \/ f.m # r.m \/ f.off # r.got]
  <2>1. PICK o \in BOOLEAN, v \in BOOLEAN :
               /\ o <=> r.overrun \/ r.owes
               /\ v <=> r.mixed \/ f.m # r.m \/ f.off # r.got
               /\ s = [r EXCEPT !.got = g, !.sn = n, !.overrun = o, !.mixed = v]
    <3>1. /\ (r.overrun \/ r.owes) \in BOOLEAN
          /\ (r.mixed \/ f.m # r.m \/ f.off # r.got) \in BOOLEAN
      BY EcuFields
    <3> QED
      BY <3>1
  <2>2. g \in Nat /\ n \in 0..(SnMod - 1)
    BY <1>1, <1>2, Consts
  <2>3. x = IF s.got >= s.len THEN [EcuIdle(s) EXCEPT !.bad = s.bad \/ s.mixed]
            ELSE IF s.left = 1 THEN [s EXCEPT !.left = 0, !.owes = TRUE, !.waits = 0]
            ELSE [s EXCEPT !.left = IF s.left = 0 THEN 0 ELSE s.left - 1]
    <3> DEFINE z == [r EXCEPT !.got = @ + f.n, !.sn = (@ + 1) % SnMod, !.overrun = @ \/ r.owes,
                              !.mixed = @ \/ f.m # r.m \/ f.off # r.got]
    <3>1. x = IF z.got >= z.len THEN [EcuIdle(z) EXCEPT !.bad = @ \/ z.mixed]
              ELSE IF z.left = 1 THEN [z EXCEPT !.left = 0, !.owes = TRUE, !.waits = 0]
              ELSE [z EXCEPT !.left = IF @ = 0 THEN 0 ELSE @ - 1]
      BY <1>4 DEF EcuReceive
    <3>2. z = s
      OBVIOUS
    <3> HIDE DEF s, x, z
    <3>3. x = IF s.got >= s.len THEN [EcuIdle(s) EXCEPT !.bad = @ \/ s.mixed]
              ELSE IF s.left = 1 THEN [s EXCEPT !.left = 0, !.owes = TRUE, !.waits = 0]
              ELSE [s EXCEPT !.left = IF @ = 0 THEN 0 ELSE @ - 1]
      BY <3>1, <3>2
    <3>4. [EcuIdle(s) EXCEPT !.bad = @ \/ s.mixed] = [EcuIdle(s) EXCEPT !.bad = EcuIdle(s).bad \/ s.mixed]
      OBVIOUS
    <3>5. EcuIdle(s).bad = s.bad
      BY DEF EcuIdle, NoReception
    <3>6. [s EXCEPT !.left = IF @ = 0 THEN 0 ELSE @ - 1]
            = [s EXCEPT !.left = IF s.left = 0 THEN 0 ELSE s.left - 1]
      OBVIOUS
    <3> QED
      BY <3>3, <3>4, <3>5, <3>6
  <2> HIDE DEF g, n, s, x
  <2>4. s \in EcuType
    BY <2>1, <2>2, EcuSet
  <2>5. /\ s.m = r.m /\ s.len = r.len /\ s.got = g /\ s.left = r.left /\ s.st = r.st
    BY <2>1 DEF EcuType
  <2>6. /\ (s.mixed <=> v) /\ (s.overrun <=> o) /\ (s.bad <=> r.bad) /\ (s.owes <=> r.owes)
    BY <2>1 DEF EcuType
  <2>7. CASE s.got >= s.len
    <3> DEFINE e == EcuIdle(s)
    <3>1. /\ e \in EcuType /\ e.st = "idle" /\ ~e.owes /\ ~e.mixed /\ (e.bad <=> s.bad)
          /\ (e.overrun <=> s.overrun)
      BY <2>4, EcuIdleIs
    <3>2. PICK b \in BOOLEAN : x = [e EXCEPT !.bad = b] /\ (b <=> s.bad \/ s.mixed)
      <4>1. (s.bad \/ s.mixed) \in BOOLEAN
        BY <2>4, EcuFields
      <4> QED
        BY <2>3, <2>7, <4>1
    <3> HIDE DEF e
    <3>3. x \in EcuType
      BY <3>1, <3>2, EcuSet
    <3>4. /\ x.st = "idle" /\ (x.owes <=> e.owes) /\ (x.mixed <=> e.mixed) /\ (x.bad <=> b)
          /\ (x.overrun <=> e.overrun)
      BY <3>1, <3>2 DEF EcuType
    <3> QED
      BY <1>4, <2>1, <2>6, <3>1, <3>2, <3>3, <3>4 DEF x
  <2>8. CASE ~(s.got >= s.len) /\ s.left = 1
    <3>1. x = [s EXCEPT !.left = 0, !.owes = TRUE, !.waits = 0]
      BY <2>3, <2>8
    <3>2. 0 \in 0..255 /\ TRUE \in BOOLEAN /\ 0 \in Nat
      OBVIOUS
    <3>3. x \in EcuType
      BY <2>4, <3>1, <3>2, EcuSet
    <3>4. x.st = s.st /\ x.m = s.m /\ x.got = s.got /\ x.len = s.len /\ x.left = 0
      BY <2>4, <3>1 DEF EcuType
    <3>5. /\ x.owes /\ (x.mixed <=> s.mixed) /\ (x.bad <=> s.bad) /\ (x.overrun <=> s.overrun)
      BY <2>4, <3>1 DEF EcuType
    <3> QED
      BY <1>4, <2>1, <2>5, <2>6, <2>8, <3>3, <3>4, <3>5 DEF x, g
  <2>9. CASE ~(s.got >= s.len) /\ s.left # 1
    <3> DEFINE l == IF s.left = 0 THEN 0 ELSE s.left - 1
    <3>1. x = [s EXCEPT !.left = l]
      BY <2>3, <2>9
    <3>2. l \in 0..255
      BY <1>2, <2>5
    <3> HIDE DEF l
    <3>3. x \in EcuType
      BY <2>4, <3>1, <3>2, EcuSet
    <3>4. x.st = s.st /\ x.m = s.m /\ x.got = s.got /\ x.len = s.len /\ x.left = l
      BY <2>4, <3>1 DEF EcuType
    <3>5. /\ (x.owes <=> s.owes) /\ (x.mixed <=> s.mixed) /\ (x.bad <=> s.bad)
          /\ (x.overrun <=> s.overrun)
      BY <2>4, <3>1 DEF EcuType
    <3>6. l = IF r.left = 0 THEN 0 ELSE r.left - 1
      BY <2>5 DEF l
    <3> QED
      BY <1>4, <2>1, <2>5, <2>6, <2>9, <3>3, <3>4, <3>5, <3>6 DEF x, g
  <2> QED
    BY <2>7, <2>8, <2>9
<1>5. CASE ~(f.pci = "FF") /\ ~(f.pci = "CF" /\ r.st = "recv" /\ f.sn = r.sn)
  <2>1. x = EcuIdle(r)
    BY <1>5 DEF EcuReceive
  <2> QED
    BY <1>5, <2>1, EcuIdleIs
<1> QED
  BY <1>3, <1>4, <1>5

LEMMA BaseBegin == ASSUME NEW x \in Callers PROVE Base /\ Begin(x) => Base'
<1> SUFFICES ASSUME Base, Begin(x) PROVE Base'
  OBVIOUS
<1>1. /\ x \notin waiting /\ call.m + Cardinality(waiting) < MaxCalls
      /\ waiting' = waiting \cup {x}
      /\ UNCHANGED <<tx, itask, call, q_twai_tx, q_twai_rx, ecu, hist>>
  BY DEF Begin
<1>2. /\ waiting \subseteq Callers /\ IsFiniteSet(waiting) /\ call \in CallType
  BY DEF Base, Types
<1>3. IsFiniteSet(waiting') /\ Cardinality(waiting') = Cardinality(waiting) + 1
  BY <1>1, <1>2, FS_AddElement
<1>4. Cardinality(waiting) \in Nat /\ call.m \in Nat /\ MaxCalls \in Nat
  BY <1>2, Consts, CallerNumbers, FS_CardinalityType
<1>5. call.m + Cardinality(waiting') <= MaxCalls
  BY <1>1, <1>3, <1>4
<1>6. Types'
  BY <1>1, <1>2, <1>3 DEF Base, Types
<1> QED
  BY <1>1, <1>5, <1>6 DEF Base

LEMMA BaseLock == ASSUME NEW x \in Callers PROVE Base /\ Lock(x) => Base'
<1> SUFFICES ASSUME Base, Lock(x) PROVE Base'
  OBVIOUS
<1>1. /\ x \in waiting /\ call.who = NoCaller /\ waiting' = waiting \ {x}
      /\ UNCHANGED <<tx, itask, q_twai_tx, q_twai_rx, ecu, hist>>
  BY DEF Lock
<1>2. PICK len \in Lens : 
        call' = [who |-> x, pc |-> IF len <= 7 THEN "sf" ELSE "drain", m |-> call.m + 1,
                 len |-> len, age |-> 0, sent |-> 0, ok |-> FALSE]
  BY DEF Lock
<1>3. /\ waiting \subseteq Callers /\ IsFiniteSet(waiting) /\ call \in CallType /\ tx \in TxType
      /\ Sound(tx, call, itask) /\ call.m + Cardinality(waiting) <= MaxCalls
  BY DEF Base, Types
<1>4. IsFiniteSet(waiting') /\ Cardinality(waiting') = Cardinality(waiting) - 1
  BY <1>1, <1>3, FS_RemoveElement
<1>5. Cardinality(waiting) \in Nat /\ Cardinality(waiting') \in Nat /\ call.m \in Nat /\ MaxCalls \in Nat
  BY <1>3, <1>4, Consts, CallerNumbers, FS_CardinalityType
<1>6. (call.m + 1) + Cardinality(waiting') <= MaxCalls /\ call.m + 1 \in 0..MaxCalls
  BY <1>3, <1>4, <1>5
<1>7. len \in 0..MaxLen /\ len \in Nat
  <2>1. len \in 1..4095
    BY Consts
  <2>2. len \in Nat /\ len <= MaxLen
    BY <2>1 DEF MaxLen
  <2> QED
    BY <2>2, Widths
<1>8. call' \in CallType
  <2>1. /\ x \in Callers \cup {NoCaller} /\ (IF len <= 7 THEN "sf" ELSE "drain") \in Pcs
        /\ 0 \in 0..SendTimeout /\ 0 \in 0..MaxLen /\ FALSE \in BOOLEAN
    BY Consts, Widths DEF Pcs
  <2> QED
    BY <1>2, <1>6, <1>7, <2>1 DEF CallType
<1>9. PICK d : d = call'
  OBVIOUS
<1>10. /\ d.who = x /\ x # NoCaller /\ d.m = call.m + 1 /\ d.len = len /\ d.sent = 0
       /\ d.pc = IF len <= 7 THEN "sf" ELSE "drain"
  BY <1>2, <1>9, Consts
<1>11. call.pc = "none"
  BY <1>1, <1>3 DEF Sound, Placed
<1>12. Placed(d)
  BY <1>7, <1>10 DEF Placed
<1>13. Filled(tx, d)
  BY <1>3, <1>10, CallerNumbers DEF Sound, Filled, Preparing, Loaded
<1>14. Counted(tx, d, itask)
  BY <1>3, <1>10, <1>11, CallerNumbers DEF Sound, Counted, Filling
<1>15. Room(tx, d, itask)
  BY <1>3, <1>10, <1>11, CallerNumbers DEF Sound, Room, Filling
<1>16. BlockedOn(tx, d, itask)
  BY <1>3, <1>10, CallerNumbers DEF Sound, BlockedOn, Filled
<1>17. Sound(tx', call', itask') /\ call'.m = call.m + 1
  BY <1>1, <1>9, <1>10, <1>12, <1>13, <1>14, <1>15, <1>16 DEF Sound
<1>18. Types'
  BY <1>1, <1>3, <1>4, <1>8 DEF Base, Types
<1> QED
  BY <1>6, <1>17, <1>18 DEF Base

LEMMA BaseTwaiTransmit == Base /\ TwaiTransmit => Base'
<1> SUFFICES ASSUME Base, TwaiTransmit PROVE Base'
  OBVIOUS
<1>1. /\ q_twai_tx # <<>> /\ q_twai_tx' = Tail(q_twai_tx)
      /\ UNCHANGED <<tx, itask, call, waiting, q_twai_rx>>
  BY DEF TwaiTransmit
<1>2. /\ q_twai_tx \in Seq(FrameType) /\ Len(q_twai_tx) <= QTxCap /\ hist \in HistType
      /\ ecu \in [Ecus -> EcuType]
  BY DEF Base, Types
<1>3. /\ Head(q_twai_tx) \in FrameType /\ q_twai_tx' \in Seq(FrameType)
      /\ Len(q_twai_tx') = Len(q_twai_tx) - 1
  BY <1>1, <1>2, HeadTailProperties
<1>4. Len(q_twai_tx') <= QTxCap
  <2>1. Len(q_twai_tx) \in Nat /\ QTxCap \in Nat
    BY <1>2, Consts, LenProperties
  <2> QED
    BY <1>2, <1>3, <2>1
<1>5. ecu' \in [Ecus -> EcuType]
  <2>1. CASE ecu' = [e \in Ecus |-> IF e = Head(q_twai_tx).to THEN EcuReceive(ecu[e], Head(q_twai_tx))
                                    ELSE ecu[e]]
    <3>1. \A e \in Ecus : EcuReceive(ecu[e], Head(q_twai_tx)) \in EcuType
      BY <1>2, <1>3, EcuReceiveIs
    <3> QED
      BY <1>2, <2>1, <3>1
  <2>2. CASE UNCHANGED ecu
    BY <1>2, <2>2
  <2> QED
    BY <2>1, <2>2 DEF TwaiTransmit
<1>6. hist' \in HistType
  <2>1. [hist EXCEPT !.lost = TRUE] \in HistType
    BY <1>2 DEF HistType
  <2> QED
    BY <1>2, <2>1 DEF TwaiTransmit
<1> QED
  BY <1>1, <1>3, <1>4, <1>5, <1>6 DEF Base, Types

\* What an ECU's Flow Control leaves of its reception.
LEMMA EcuSendFcIs ==
  ASSUME Types, NEW e \in Ecus, EcuSendFc(e)
  PROVE  /\ ecu \in [Ecus -> EcuType] /\ ecu' \in [Ecus -> EcuType] /\ ecu[e].owes
         /\ UNCHANGED <<tx, itask, call, waiting, q_twai_tx, hist>>
         /\ \A x \in Ecus : x # e => ecu'[x] = ecu[x]
         /\ (ecu'[e].bad <=> ecu[e].bad) /\ (ecu'[e].overrun <=> ecu[e].overrun)
         /\ (ecu'[e].mixed => ecu[e].mixed)
         /\ ecu'[e].st = "recv" => ecu[e].st = "recv" /\ ecu'[e].m = ecu[e].m /\ ecu'[e].got = ecu[e].got
         /\ \E fc \in FcType :
              /\ fc.from = e /\ fc.m = ecu[e].m
              /\ q_twai_rx' = IF Len(q_twai_rx) < QRxCap THEN Append(q_twai_rx, fc) ELSE q_twai_rx
              /\ \/ fc.fs = "CTS" /\ ~ecu'[e].owes /\ ecu'[e].left = fc.bs
                 \/ /\ fc.fs = "WAIT" /\ ecu'[e].owes /\ ecu'[e].left = ecu[e].left
                    /\ ecu'[e].st = ecu[e].st
                 \/ fc.fs = "OVFL" /\ ~ecu'[e].owes /\ ecu'[e].st = "idle"
<1> DEFINE r == ecu[e]
<1>1. ecu \in [Ecus -> EcuType] /\ r \in EcuType /\ r.owes
  BY DEF Types, EcuSendFc
<1>2. PICK fs \in {"CTS", "WAIT", "OVFL"}, p \in FcParams :
        /\ ecu' = [ecu EXCEPT ![e] = CASE fs = "CTS"  -> [@ EXCEPT !.owes = FALSE, !.left = p[1]]
                                       [] fs = "WAIT" -> [@ EXCEPT !.waits = @ + 1]
                                       [] fs = "OVFL" -> EcuIdle(@)]
        /\ q_twai_rx' = IF Len(q_twai_rx) < QRxCap
                        THEN Append(q_twai_rx, [from |-> e, m |-> ecu[e].m, fs |-> fs,
                                                bs |-> IF fs = "CTS" THEN p[1] ELSE 0,
                                                stmin |-> IF fs = "CTS" THEN p[2] ELSE 0])
                        ELSE q_twai_rx
  BY DEF EcuSendFc
<1>3. UNCHANGED <<tx, itask, call, waiting, q_twai_tx, hist>>
  BY DEF EcuSendFc
<1> DEFINE x == CASE fs = "CTS"  -> [r EXCEPT !.owes = FALSE, !.left = p[1]]
                  [] fs = "WAIT" -> [r EXCEPT !.waits = r.waits + 1]
                  [] fs = "OVFL" -> EcuIdle(r)
           fc == [from |-> e, m |-> r.m, fs |-> fs, bs |-> IF fs = "CTS" THEN p[1] ELSE 0,
                  stmin |-> IF fs = "CTS" THEN p[2] ELSE 0]
<1>4. ecu' = [ecu EXCEPT ![e] = x]
  BY <1>2
<1>5. q_twai_rx' = IF Len(q_twai_rx) < QRxCap THEN Append(q_twai_rx, fc) ELSE q_twai_rx
  BY <1>2
<1>6. p[1] \in 0..255 /\ p[2] \in 0..255 /\ 0 \in 0..255 /\ r.m \in 0..MaxCalls
  BY <1>1, Consts, EcuFields
<1>7. fc \in FcType
  BY <1>6 DEF FcType
<1>8. /\ x \in EcuType
      /\ (x.bad <=> r.bad) /\ (x.overrun <=> r.overrun) /\ (x.mixed => r.mixed)
      /\ x.st = "recv" => r.st = "recv" /\ x.m = r.m /\ x.got = r.got
      /\ \/ fs = "CTS" /\ ~x.owes /\ x.left = fc.bs
         \/ fs = "WAIT" /\ x.owes /\ x.left = r.left /\ x.st = r.st
         \/ fs = "OVFL" /\ ~x.owes /\ x.st = "idle"
  <2> HIDE DEF r
  <2>1. CASE fs = "CTS"
    <3> DEFINE y == [r EXCEPT !.owes = FALSE, !.left = p[1]]
    <3>1. x = y /\ fc.bs = p[1]
      BY <2>1
    <3>2. FALSE \in BOOLEAN
      OBVIOUS
    <3>3. y \in EcuType
      BY <1>1, <1>6, <3>2, EcuSet
    <3>4. y.st = r.st /\ y.m = r.m /\ y.got = r.got /\ y.left = p[1]
      BY <1>1 DEF EcuType
    <3>5. ~y.owes /\ (y.mixed <=> r.mixed) /\ (y.bad <=> r.bad) /\ (y.overrun <=> r.overrun)
      BY <1>1 DEF EcuType
    <3> HIDE DEF x, y, fc
    <3> QED
      BY <2>1, <3>1, <3>3, <3>4, <3>5
  <2>2. CASE fs = "WAIT"
    <3> DEFINE n == r.waits + 1
               y == [r EXCEPT !.waits = n]
    <3>1. x = y
      BY <2>2
    <3>2. n \in Nat
      BY <1>1, EcuFields
    <3> HIDE DEF n
    <3>3. y \in EcuType
      BY <1>1, <3>2, EcuSet
    <3>4. y.st = r.st /\ y.m = r.m /\ y.got = r.got /\ y.left = r.left
      BY <1>1 DEF EcuType
    <3>5. /\ (y.owes <=> r.owes) /\ (y.mixed <=> r.mixed) /\ (y.bad <=> r.bad)
          /\ (y.overrun <=> r.overrun)
      BY <1>1 DEF EcuType
    <3> HIDE DEF x, y, fc
    <3> QED
      BY <1>1, <2>2, <3>1, <3>3, <3>4, <3>5
  <2>3. CASE fs = "OVFL"
    <3>1. x = EcuIdle(r)
      BY <2>3
    <3> HIDE DEF x, fc
    <3> QED
      BY <1>1, <2>3, <3>1, EcuIdleIs
  <2> QED
    BY <2>1, <2>2, <2>3
<1>9. fc.from = e /\ fc.m = r.m /\ fc.fs = fs
  OBVIOUS
<1> HIDE DEF x, fc
<1>10. ecu' \in [Ecus -> EcuType] /\ ecu'[e] = x /\ \A z \in Ecus : z # e => ecu'[z] = ecu[z]
  BY <1>1, <1>4, <1>8
<1> QED
  BY <1>1, <1>3, <1>5, <1>7, <1>8, <1>9, <1>10

LEMMA BaseEcuSendFc == ASSUME NEW e \in Ecus PROVE Base /\ EcuSendFc(e) => Base'
<1> SUFFICES ASSUME Base, EcuSendFc(e) PROVE Base'
  OBVIOUS
<1>1. Types /\ q_twai_rx \in Seq(FcType) /\ Len(q_twai_rx) <= QRxCap
  BY DEF Base, Types
<1>2. /\ ecu' \in [Ecus -> EcuType] /\ UNCHANGED <<tx, itask, call, waiting, q_twai_tx, hist>>
      /\ \E fc \in FcType :
           q_twai_rx' = IF Len(q_twai_rx) < QRxCap THEN Append(q_twai_rx, fc) ELSE q_twai_rx
  BY <1>1, EcuSendFcIs
<1>3. PICK fc \in FcType :
        q_twai_rx' = IF Len(q_twai_rx) < QRxCap THEN Append(q_twai_rx, fc) ELSE q_twai_rx
  BY <1>2
<1>4. Append(q_twai_rx, fc) \in Seq(FcType) /\ Len(Append(q_twai_rx, fc)) = Len(q_twai_rx) + 1
  BY <1>1, AppendProperties
<1>5. Len(q_twai_rx) \in Nat /\ QRxCap \in Nat
  BY <1>1, Consts, LenProperties
<1>6. q_twai_rx' \in Seq(FcType) /\ Len(q_twai_rx') <= QRxCap
  BY <1>1, <1>3, <1>4, <1>5
<1> QED
  BY <1>2, <1>6 DEF Base, Types

LEMMA BaseTick == Base /\ Tick => Base'
<1> SUFFICES ASSUME Base, Tick PROVE Base'
  OBVIOUS
<1> DEFINE f == Older(tx.fcAge, NBs + 1)
           g == Older(tx.cfAge, tx.stmin_ms)
           n == IF call.pc = "wait" THEN Older(call.age, SendTimeout) ELSE call.age
           t == [tx EXCEPT !.fcAge = f, !.cfAge = g]
           d == [call EXCEPT !.age = n]
<1>1. tx' = t /\ call' = d /\ UNCHANGED <<itask, waiting, q_twai_tx, q_twai_rx, ecu, hist>>
  BY DEF Tick
<1>2. tx \in TxType /\ call \in CallType /\ Sound(tx, call, itask) /\ Types
  BY DEF Base, Types
<1>3. f \in 0..(NBs + 1)
  BY <1>2, TxFields, Consts DEF Older
<1>4. g \in 0..NoCf
  <2>1. tx.cfAge \in 0..NoCf /\ tx.stmin_ms \in 0..127
    BY <1>2, TxFields
  <2> QED
    BY <2>1 DEF Older, NoCf
<1>5. n \in 0..SendTimeout
  BY <1>2, CallFields, Consts DEF Older
<1> HIDE DEF f, g, n
<1>6. t \in TxType
  BY <1>2, <1>3, <1>4, TxSet
<1>7. d \in CallType
  BY <1>2, <1>5 DEF CallType
<1>8. /\ t.state = tx.state /\ t.buffer = tx.buffer /\ t.length = tx.length
      /\ t.offset = tx.offset /\ t.wait_fc_count = tx.wait_fc_count
  BY <1>2 DEF TxType
<1>9. /\ d.pc = call.pc /\ d.who = call.who /\ d.m = call.m /\ d.len = call.len
      /\ d.sent = call.sent
  BY <1>2 DEF CallType
<1> HIDE DEF t, d
<1>10. Placed(d) /\ Filled(t, d) /\ Counted(t, d, itask)
  BY <1>2, <1>8, <1>9 DEF Sound, Placed, Filled, Counted
<1>11. Room(t, d, itask) /\ BlockedOn(t, d, itask)
  BY <1>2, <1>8, <1>9 DEF Sound, Room, BlockedOn
<1>12. Sound(tx', call', itask) /\ tx' \in TxType /\ call' \in CallType /\ call'.m = call.m
  BY <1>1, <1>6, <1>7, <1>9, <1>10, <1>11 DEF Sound
<1>13. q_twai_tx' \in Seq(FrameType) /\ Len(q_twai_tx') <= QTxCap
  BY <1>1, <1>2 DEF Types
<1> QED
  BY <1>1, <1>12, <1>13, Keeps

-----------------------------------------------------------------------------
(* Type correctness *)

LEMMA InitBase == Init => Base
<1> SUFFICES ASSUME Init PROVE Base
  OBVIOUS
<1>1. /\ 0 \in 0..MaxCalls /\ 0 \in 0..MaxLen /\ 0 \in 0..(U16 - 1) /\ 0 \in 0..(SnMod - 1)
      /\ 0 \in 0..255 /\ 0 \in 0..127 /\ NBs + 1 \in 0..(NBs + 1) /\ NoCf \in 0..NoCf
      /\ 0 \in 0..SendTimeout /\ FALSE \in BOOLEAN
  BY Consts, Widths DEF NoCf
<1>2. tx \in TxType
  BY <1>1 DEF Init, TxType, TxStates
<1>3. call \in CallType
  BY <1>1 DEF Init, NoCall, CallType, Pcs
<1>4. itask \in ItaskType /\ ~itask.cf
  BY NotBlockedTyped DEF Init
<1>5. ecu \in [Ecus -> EcuType]
  BY NoReceptionTyped DEF Init
<1>6. hist \in HistType
  BY <1>1 DEF Init, HistType
<1>7. /\ q_twai_tx \in Seq(FrameType) /\ q_twai_rx \in Seq(FcType)
      /\ Len(q_twai_tx) = 0 /\ Len(q_twai_rx) = 0
  BY EmptySeq DEF Init
<1>8. waiting = {} /\ IsFiniteSet(waiting) /\ Cardinality(waiting) = 0
  BY FS_EmptySet DEF Init
<1>9. QTxCap \in Nat /\ QRxCap \in Nat /\ MaxCalls \in Nat
  BY Consts
<1>10. Types
  BY <1>2, <1>3, <1>4, <1>5, <1>6, <1>7, <1>8, <1>9 DEF Types
<1>11. /\ call.pc = "none" /\ call.who = NoCaller /\ call.m = 0 /\ call.len = 0 /\ call.sent = 0
       /\ tx.state = "TX_IDLE" /\ tx.buffer = 0 /\ tx.length = 0 /\ tx.offset = 0
       /\ tx.wait_fc_count = 0
  BY DEF Init, NoCall
<1>12. Placed(call) /\ Filled(tx, call) /\ BlockedOn(tx, call, itask)
  BY <1>4, <1>11 DEF Placed, Filled, BlockedOn, Preparing, Loaded
<1>13. Counted(tx, call, itask)
  BY <1>4, <1>11, Consts DEF Counted, Filling
<1>14. Room(tx, call, itask)
  BY <1>4, <1>11, Widths DEF Room, Filling
<1> QED
  BY <1>8, <1>9, <1>10, <1>11, <1>12, <1>13, <1>14 DEF Base, Sound

LEMMA BaseNext == Base /\ [Next]_vars => Base'
<1> SUFFICES ASSUME Base, [Next]_vars PROVE Base'
  OBVIOUS
<1>1. CASE IsotpTask
  BY <1>1, BaseIterationFc, BaseIterationIdle, BaseCfUnblocked, BaseCfTimeout DEF IsotpTask
<1>2. CASE \E x \in Callers : Begin(x) \/ Lock(x)
  BY <1>2, BaseBegin, BaseLock
<1>3. CASE IsotpSend
  BY <1>3, BaseDrain, BaseArm, BaseStoreTxId, BaseStoreRxId, BaseStoreBuffer, BaseStoreLength,
     BaseStoreRest, BaseStartWait, BaseSendSf, BaseSendFf, BaseWaits, BaseFinish, BaseReturn
     DEF IsotpSend
<1>4. CASE TwaiTransmit
  BY <1>4, BaseTwaiTransmit
<1>5. CASE \E e \in Ecus : EcuSendFc(e)
  BY <1>5, BaseEcuSendFc
<1>6. CASE Tick
  BY <1>6, BaseTick
<1>7. CASE UNCHANGED vars
  <2>1. UNCHANGED <<tx, itask, call, waiting, q_twai_tx, q_twai_rx, ecu, hist>>
    BY <1>7 DEF vars
  <2> QED
    BY <2>1 DEF Base, Types
<1> QED
  BY <1>1, <1>2, <1>3, <1>4, <1>5, <1>6, <1>7 DEF Next

LEMMA BaseAlways == Spec => []Base
<1> QED
  BY InitBase, BaseNext, PTL DEF Spec

\* TypeOK holds in every behaviour: in particular wait_fc_count, a uint8_t, never wraps, and
\* the bytes counted as sent are never more than the message has (nor does offset wrap: Room).
THEOREM TypeCorrect == Spec => []TypeOK
<1>1. Base => TypeOK
  <2> SUFFICES ASSUME Base PROVE TypeOK
    OBVIOUS
  <2>1. /\ tx \in TxType /\ itask \in ItaskType /\ call \in CallType /\ waiting \subseteq Callers
        /\ Len(q_twai_tx) <= QTxCap /\ Len(q_twai_rx) <= QRxCap
    BY DEF Base, Types
  <2>2. TxType =
          [state : {"TX_IDLE", "TX_WAIT_FC", "TX_SENDING_CF", "TX_DONE", "TX_ERROR"},
           tx_id : Ecus \cup {NoEcu}, rx_id : Ecus \cup {NoEcu}, buffer : 0..MaxCalls,
           length : 0..4095, offset : 0..(U16 - 1), sn : 0..(SnMod - 1), bs : 0..255,
           bs_counter : 0..255, stmin_ms : 0..127, wait_fc_count : 0..255,
           fcAge : 0..(NBs + 1), cfAge : 0..NoCf, sem : BOOLEAN]
    BY Zenon DEF TxType, TxStates, MaxLen
  <2>3. call.sent \in 0..call.len
    BY CallerNumbers DEF Base, Sound, Placed
  <2>4. itask.cf \in BOOLEAN
    BY <2>1 DEF ItaskType
  <2> HIDE DEF Base
  <2> QED
    BY <2>1, <2>2, <2>3, <2>4, CallFields DEF TypeOK
<1> QED
  BY <1>1, BaseAlways, PTL

-----------------------------------------------------------------------------
(* tx_state belongs to the call that holds tx_mutex *)

\* Where the caller leaves tx_state alone, fills it, and waits on it.
Resting == {"none", "sf", "drain", "arm", "return"}
Armed   == {"tx_id", "rx_id", "buffer", "length", "rest", "start", "ff"}
Sending == {"wait", "finish"}

Prepared(t, c) ==
  /\ c.pc \in Resting => t.state = "TX_IDLE"
  /\ c.pc \in Armed => t.state = "TX_WAIT_FC"
  /\ c.pc \in Armed \cup {"arm"} => ~t.sem
  /\ c.pc \in Armed \ {"tx_id"} => t.tx_id = Peer[c.who]
  /\ c.pc \in Armed \ {"tx_id", "rx_id"} => t.rx_id = Peer[c.who]
  /\ c.pc \in {"start", "ff"} => t.offset = FFData

\* done_sem is given exactly when isotp_task is finished with the message; sent is offset;
\* the frame send_cf is blocked on for this call is the next one.
Underway(t, c, i) ==
  /\ c.pc = "wait" => (t.sem <=> t.state \in {"TX_DONE", "TX_ERROR"})
  /\ c.pc \in Sending =>
       /\ t.tx_id = Peer[c.who] /\ t.rx_id = Peer[c.who] /\ t.offset = c.sent
       /\ t.state # "TX_IDLE"
       /\ t.state = "TX_DONE" => c.sent = c.len
       /\ t.state \in {"TX_WAIT_FC", "TX_SENDING_CF"} => c.sent < c.len
       /\ i.cf /\ i.call = c.m => t.state = "TX_SENDING_CF" /\ i.frame = CfOf(t)

Reported(t, c) ==
  /\ c.pc = "finish" /\ c.ok => t.state = "TX_DONE"
  /\ c.pc = "return" /\ c.ok => c.sent = c.len
  /\ c.ok => c.pc \in {"finish", "return"}

Owns(t, c, i) == Prepared(t, c) /\ Underway(t, c, i) /\ Reported(t, c)

Own == ~hist.raced => Owns(tx, call, itask)

LEMMA Where ==
  ASSUME NEW c \in CallType
  PROVE  /\ c.pc \in Resting \cup Armed \cup Sending
         /\ ~(c.pc \in Resting /\ c.pc \in Armed) /\ ~(c.pc \in Resting /\ c.pc \in Sending)
         /\ ~(c.pc \in Armed /\ c.pc \in Sending)
         /\ c.pc \notin Sending => c.pc # "wait"
BY CallFields DEF Pcs, Resting, Armed, Sending

\* A caller that waits talks to an ECU, about a message longer than one frame.
LEMMA Waiter ==
  ASSUME Base, call.pc \in Sending
  PROVE  /\ call.who \in Callers /\ call.who # NoCaller /\ call.len > 7
         /\ tx.buffer = call.m /\ tx.length = call.len
<1>1. call \in CallType
  BY DEF Base, Types
<1>2. call.who \in Callers \cup {NoCaller} /\ call.who # NoCaller
  BY <1>1, CallFields DEF Base, Sound, Placed, Sending
<1>3. call.len > 7 /\ tx.buffer = call.m /\ tx.length = call.len
  BY DEF Base, Sound, Placed, Filled, Sending, Loaded
<1> QED
  BY <1>2, <1>3

\* A state tx_pump may be entered with: what handle_fc makes of tx_state.
Entered(t) ==
  /\ t \in TxType /\ t.tx_id = tx.tx_id /\ t.rx_id = tx.rx_id /\ t.buffer = tx.buffer
  /\ t.length = tx.length /\ t.offset = tx.offset /\ t.sn = tx.sn
  /\ Sound(t, call, itask)

LEMMA EnteredSame == Base => Entered(tx)
BY DEF Base, Types, Entered

LEMMA EnteredFc ==
  ASSUME Base, NEW fc \in FcType, ~itask.cf
  PROVE  Entered(HandleFc(tx, fc))
<1>1. tx \in TxType /\ call \in CallType /\ Sound(tx, call, itask)
  BY DEF Base, Types
<1>2. HandleFc(tx, fc) \in TxType /\ Sound(HandleFc(tx, fc), call, itask)
  BY <1>1, SoundHandled
<1>3. tx.state = "TX_WAIT_FC" => tx.wait_fc_count <= FcWaitMax + 1
  BY <1>1, Numbers DEF Sound, Counted
<1> QED
  BY <1>1, <1>2, <1>3, HandleFcIs DEF Entered

\* handle_fc on a tx_state that is the caller's leaves it the caller's.
LEMMA OwnHandled ==
  ASSUME Base, NEW fc \in FcType, ~itask.cf, Owns(tx, call, itask), call.pc \in Sending
  PROVE  Owns(HandleFc(tx, fc), call, itask)
<1> DEFINE h == HandleFc(tx, fc)
<1>1. tx \in TxType /\ call \in CallType /\ Sound(tx, call, itask)
  BY DEF Base, Types
<1>2. tx.state = "TX_WAIT_FC" => tx.wait_fc_count <= FcWaitMax + 1
  BY <1>1, Numbers DEF Sound, Counted
<1>3. /\ h.tx_id = tx.tx_id /\ h.rx_id = tx.rx_id /\ h.offset = tx.offset
      /\ \/ h = tx
         \/ /\ tx.state = "TX_WAIT_FC"
            /\ \/ h.state \in {"TX_SENDING_CF", "TX_WAIT_FC"} /\ (h.sem <=> tx.sem)
               \/ h.state = "TX_ERROR" /\ h.sem
  BY <1>1, <1>2, HandleFcIs
<1> HIDE DEF h
<1>4. CASE h = tx
  BY <1>4 DEF h
<1>5. CASE h # tx
  <2>1. Prepared(h, call)
    BY <1>1, Where DEF Prepared, Resting, Armed, Sending
  <2>2. Underway(h, call, itask)
    BY <1>3, <1>5 DEF Owns, Underway, Sending
  <2>3. Reported(h, call)
    BY <1>3, <1>5 DEF Owns, Reported, Sending
  <2> QED
    BY <2>1, <2>2, <2>3 DEF Owns, h
<1> QED
  BY <1>4, <1>5

\* So does a frame of it put into the queue, and sent goes on with offset.
LEMMA OwnSent ==
  ASSUME Base, NEW t, Entered(t), Owns(t, call, itask), call.pc \in Sending,
         t.state = "TX_SENDING_CF", NEW k, ~k.cf
  PROVE  /\ SentAfter(CfOf(t)) = t.offset + Chunk(t)
         /\ Owns(AfterCf(t, Chunk(t)), [call EXCEPT !.sent = SentAfter(CfOf(t))], k)
<1> DEFINE n == SentAfter(CfOf(t))
           a == AfterCf(t, Chunk(t))
           d == [call EXCEPT !.sent = n]
<1>1. /\ t \in TxType /\ call \in CallType /\ t.buffer = tx.buffer /\ t.length = tx.length
      /\ t.tx_id = tx.tx_id
  BY DEF Entered, Base, Types
<1>2. /\ t.tx_id = Peer[call.who] /\ t.rx_id = Peer[call.who] /\ t.offset = call.sent
      /\ call.sent < call.len
  BY DEF Owns, Underway
<1>3. t.buffer = call.m /\ t.length = call.len /\ call.who # NoCaller
  BY <1>1, Waiter
<1>4. n = t.offset + Chunk(t)
  BY <1>1, <1>2, <1>3, CfOfTyped DEF SentAfter
<1>5. /\ t.offset \in Nat /\ t.length \in Nat /\ t.length <= MaxLen /\ MaxLen \in Nat /\ U16 \in Nat
      /\ MaxLen < U16 /\ Chunk(t) \in 0..CFData /\ Chunk(t) \in Nat /\ t.offset + Chunk(t) <= t.length
  BY <1>1, <1>2, <1>3, Numbers, ChunkIs, Widths
<1>6. t.offset + Chunk(t) < U16 /\ t.offset + Chunk(t) \in Nat /\ t.offset + Chunk(t) <= MaxLen
  BY <1>5
<1>7. /\ a.offset = t.offset + Chunk(t) /\ a.tx_id = t.tx_id /\ a.rx_id = t.rx_id
      /\ IF t.offset + Chunk(t) >= t.length THEN a.state = "TX_DONE" /\ a.sem
         ELSE (a.sem <=> t.sem) /\ a.state \in {"TX_WAIT_FC", "TX_SENDING_CF"}
  BY <1>1, <1>5, <1>6, AfterCfIs
<1>8. n \in Nat /\ n <= MaxLen
  BY <1>4, <1>6
<1>9. /\ d.who = call.who /\ d.pc = call.pc /\ d.m = call.m /\ d.len = call.len /\ d.sent = n
      /\ (d.ok <=> call.ok)
  BY <1>1, <1>8, CallSent
<1> HIDE DEF a, d, n
<1>10. Prepared(a, d)
  BY <1>1, <1>9, Where DEF Prepared, Resting, Armed, Sending
<1>11. Underway(a, d, k)
  BY <1>2, <1>3, <1>4, <1>5, <1>7, <1>9 DEF Owns, Underway, Sending
<1>12. Reported(a, d)
  BY <1>9 DEF Owns, Reported, Sending
<1> QED
  BY <1>4, <1>10, <1>11, <1>12 DEF Owns, a, d, n

\* tx_pump, entered with a tx_state that is the caller's.
LEMMA OwnPumps ==
  ASSUME Base, NEW t, Entered(t), Owns(t, call, itask), call.pc \in Sending, ~itask.cf, Pump(t)
  PROVE  Owns(tx', call', itask')
<1>1. t \in TxType /\ call \in CallType
  BY DEF Entered, Base, Types
<1>2. CASE tx' = CheckNBs(t) /\ UNCHANGED <<itask, call, q_twai_tx>>
  <2>1. CASE t.state = "TX_WAIT_FC" /\ t.fcAge > NBs
    <3> DEFINE g == GiveError(t)
    <3>1. tx' = g
      BY <1>2, <2>1 DEF CheckNBs
    <3>2. /\ g.state = "TX_ERROR" /\ g.sem /\ g.tx_id = t.tx_id /\ g.rx_id = t.rx_id
          /\ g.offset = t.offset
      BY <1>1, GiveErrorTyped
    <3> HIDE DEF g
    <3>3. Prepared(g, call)
      BY <1>1, Where DEF Prepared, Resting, Armed, Sending
    <3>4. Underway(g, call, itask)
      BY <3>2 DEF Owns, Underway, Sending
    <3>5. Reported(g, call)
      BY <2>1, <3>2 DEF Owns, Reported, Sending
    <3> QED
      BY <1>2, <3>1, <3>3, <3>4, <3>5 DEF Owns
  <2>2. CASE ~(t.state = "TX_WAIT_FC" /\ t.fcAge > NBs)
    BY <1>2, <2>2 DEF CheckNBs
  <2> QED
    BY <2>1, <2>2
<1>3. CASE /\ CfDue(t) /\ tx' = AfterCf(t, Chunk(t))
           /\ call' = [call EXCEPT !.sent = SentAfter(CfOf(t))] /\ UNCHANGED itask
  BY <1>3, OwnSent DEF CfDue
<1>4. CASE /\ CfDue(t) /\ tx' = t /\ itask' = [cf |-> TRUE, frame |-> CfOf(t), call |-> call.m]
           /\ UNCHANGED <<call, q_twai_tx>>
  <2>1. PICK j : j = itask' /\ j.frame = CfOf(t)
    BY <1>4
  <2>2. Prepared(t, call) /\ Reported(t, call)
    BY DEF Owns
  <2>3. t.state = "TX_SENDING_CF"
    BY <1>4 DEF CfDue
  <2>4. Underway(t, call, j)
    BY <2>1, <2>3 DEF Owns, Underway
  <2> QED
    BY <1>4, <2>1, <2>2, <2>4 DEF Owns
<1> QED
  BY <1>2, <1>3, <1>4 DEF Pump

LEMMA ArmedIs == Arming <=> call.pc \in Armed
BY DEF Arming, Armed

\* An iteration of isotp_task: while the caller rests nothing happens to tx_state; while the
\* caller fills it, a change is a race; after that it is tx_pump's.
LEMMA OwnIteration ==
  ASSUME Base, Own, NEW t, Entered(t), ~itask.cf, Pump(t),
         tx.state = "TX_IDLE" => t = tx,
         Owns(tx, call, itask) /\ call.pc \in Sending => Owns(t, call, itask),
         ~hist'.raced => ~hist.raced /\ (Arming => tx' = tx)
  PROVE  Own'
<1> SUFFICES ASSUME ~hist'.raced PROVE Owns(tx', call', itask')
  BY DEF Own
<1>1. Owns(tx, call, itask) /\ (call.pc \in Armed => tx' = tx)
  BY ArmedIs DEF Own
<1>2. call \in CallType /\ Types
  BY DEF Base, Types
<1>3. CASE call.pc \in Resting
  <2>1. tx.state = "TX_IDLE" /\ t = tx
    BY <1>1, <1>3 DEF Owns, Prepared
  <2>2. ~CfDue(t) /\ CheckNBs(t) = tx
    BY <2>1 DEF CfDue, CheckNBs
  <2>3. tx' = tx /\ UNCHANGED <<itask, call>>
    BY <2>2 DEF Pump
  <2> QED
    BY <1>1, <2>3
<1>4. CASE call.pc \in Armed
  <2>1. call' = call \/ call' = [call EXCEPT !.sent = SentAfter(CfOf(t))]
    BY DEF Pump
  <2>2. call'.pc = call.pc /\ call'.who = call.who
    BY <1>2, <2>1 DEF CallType
  <2>3. call'.ok <=> call.ok
    BY <1>2, <2>1 DEF CallType
  <2>4. PICK d, i : d = call' /\ i = itask'
    OBVIOUS
  <2>5. Prepared(tx, d) /\ Reported(tx, d)
    BY <1>1, <1>4, <2>2, <2>3, <2>4 DEF Owns, Prepared, Reported, Armed
  <2>6. Underway(tx, d, i)
    BY <1>4, <2>2, <2>4 DEF Underway, Armed, Sending
  <2> QED
    BY <1>1, <1>4, <2>4, <2>5, <2>6 DEF Owns
<1>5. CASE call.pc \in Sending
  BY <1>1, <1>5, OwnPumps
<1> QED
  BY <1>2, <1>3, <1>4, <1>5, Where

LEMMA OwnIterationFc == Base /\ Own /\ IterationFc => Own'
<1> SUFFICES ASSUME Base, Own, IterationFc PROVE Own'
  OBVIOUS
<1> DEFINE fc == Head(q_twai_rx)
           t == HandleFc(tx, fc)
<1>1. /\ ~itask.cf /\ q_twai_rx \in Seq(FcType) /\ q_twai_rx # <<>> /\ hist \in HistType
      /\ Pump(t)
  BY DEF IterationFc, Base, Types
<1>2. fc \in FcType
  BY <1>1, HeadTailProperties
<1>3. hist' = [hist EXCEPT !.raced = Raced, !.late = hist.late \/ (FcForUs(tx, fc) /\ fc.m # call.m)]
  BY DEF IterationFc
<1>4. hist'.raced <=> Raced
  <2>1. Raced \in BOOLEAN
    BY <1>1 DEF Raced, HistType
  <2> QED
    BY <1>1, <1>3, <2>1 DEF HistType
<1> HIDE DEF fc
<1>5. ~hist'.raced => ~hist.raced /\ (Arming => tx' = tx)
  BY <1>4 DEF Raced
<1>6. tx.state = "TX_IDLE" => t = tx
  BY DEF HandleFc, FcForUs
<1>7. Owns(tx, call, itask) /\ call.pc \in Sending => Owns(t, call, itask)
  BY <1>1, <1>2, OwnHandled
<1>8. Entered(t)
  BY <1>1, <1>2, EnteredFc
<1> HIDE DEF t
<1> QED
  BY <1>1, <1>5, <1>6, <1>7, <1>8, OwnIteration

LEMMA OwnIterationIdle == Base /\ Own /\ IterationIdle => Own'
<1> SUFFICES ASSUME Base, Own, IterationIdle PROVE Own'
  OBVIOUS
<1>1. ~itask.cf /\ hist \in HistType /\ Pump(tx) /\ hist' = [hist EXCEPT !.raced = Raced]
  BY DEF IterationIdle, Base, Types
<1>2. hist'.raced <=> Raced
  <2>1. Raced \in BOOLEAN
    BY <1>1 DEF Raced, HistType
  <2> QED
    BY <1>1, <2>1 DEF HistType
<1>3. ~hist'.raced => ~hist.raced /\ (Arming => tx' = tx)
  BY <1>2 DEF Raced
<1> QED
  BY <1>1, <1>3, EnteredSame, OwnIteration

LEMMA OwnCfUnblocked == Base /\ Own /\ CfUnblocked => Own'
<1> SUFFICES ASSUME Base, Own, CfUnblocked, ~hist'.raced PROVE Owns(tx', call', itask')
  BY DEF Own
<1>1. /\ itask.cf /\ itask' = NotBlocked /\ tx' = AfterCf(tx, itask.frame.n)
      /\ call' = [call EXCEPT !.sent = SentAfter(itask.frame)] /\ hist \in HistType
  BY DEF CfUnblocked, Base, Types
<1>2. ~hist.raced /\ call.m = itask.call /\ call.pc = "wait"
  <2>1. (hist.raced \/ call.m # itask.call \/ call.pc # "wait") \in BOOLEAN
    BY <1>1 DEF HistType
  <2>2. hist' = [hist EXCEPT !.raced = hist.raced \/ call.m # itask.call \/ call.pc # "wait"]
    BY DEF CfUnblocked
  <2>3. hist'.raced <=> hist.raced \/ call.m # itask.call \/ call.pc # "wait"
    BY <1>1, <2>1, <2>2 DEF HistType
  <2> QED
    BY <2>3
<1>3. Owns(tx, call, itask) /\ call.pc \in Sending
  BY <1>2 DEF Own, Sending
<1>4. tx.state = "TX_SENDING_CF" /\ itask.frame = CfOf(tx)
  BY <1>1, <1>2, <1>3 DEF Owns, Underway
<1>5. itask.frame.n = Chunk(tx)
  <2>1. tx \in TxType
    BY DEF Base, Types
  <2> QED
    BY <1>4, <2>1, CfOfTyped
<1>6. PICK k : k = itask' /\ ~k.cf
  BY <1>1, NotBlockedTyped
<1>7. Owns(AfterCf(tx, Chunk(tx)), [call EXCEPT !.sent = SentAfter(CfOf(tx))], k)
  BY <1>3, <1>4, <1>6, EnteredSame, OwnSent
<1> QED
  BY <1>1, <1>4, <1>5, <1>6, <1>7

LEMMA OwnCfTimeout == Base /\ Own /\ CfTimeout => Own'
<1> SUFFICES ASSUME Base, Own, CfTimeout, ~hist'.raced PROVE Owns(tx', call', itask')
  BY DEF Own
<1>1. itask' = NotBlocked /\ UNCHANGED <<tx, call, hist>>
  BY DEF CfTimeout
<1>2. Owns(tx, call, itask)
  BY <1>1 DEF Own
<1>3. PICK k : k = itask' /\ ~k.cf
  BY <1>1, NotBlockedTyped
<1>4. Underway(tx, call, k)
  BY <1>2, <1>3 DEF Owns, Underway
<1> QED
  BY <1>1, <1>2, <1>3, <1>4 DEF Owns

\* A step of the caller keeps Own if it keeps what it says of the caller's place.
LEMMA OwnStep ==
  ASSUME Base, Own, NEW pc, NEW next \in Pcs, NEW t, Step(pc, next, t),
         ASSUME NEW d, Moved(d, next), Owns(tx, call, itask) PROVE Owns(t, d, itask)
  PROVE  Own'
<1>1. Types
  BY DEF Base
<1>2. Moved(call', next) /\ tx' = t
  BY <1>1, StepMoves
<1>3. UNCHANGED <<itask, hist>>
  BY DEF Step
<1>4. PICK d : d = call'
  OBVIOUS
<1> QED
  BY <1>2, <1>3, <1>4 DEF Own

LEMMA OwnDrain == Base /\ Own /\ Drain => Own'
<1> SUFFICES ASSUME Base, Own, Drain PROVE Own'
  OBVIOUS
<1> DEFINE t == [tx EXCEPT !.sem = FALSE]
<1>1. Step("drain", "arm", t) /\ call.pc = "drain" /\ "arm" \in Pcs
  BY DEF Drain, Step, Pcs
<1>2. tx \in TxType
  BY DEF Base, Types
<1>3. t.state = tx.state /\ t.tx_id = tx.tx_id /\ t.rx_id = tx.rx_id
      /\ t.offset = tx.offset
  BY <1>2 DEF TxType
<1>4. ~t.sem
  BY <1>2 DEF TxType
<1> HIDE DEF t
<1>5. ASSUME NEW d, Moved(d, "arm"), Owns(tx, call, itask) PROVE Owns(t, d, itask)
  <2>1. /\ d.pc = "arm" /\ d.who = call.who /\ d.m = call.m /\ d.len = call.len
        /\ d.sent = call.sent /\ (d.ok <=> call.ok)
    BY <1>5 DEF Moved
  <2>2. Prepared(t, d)
    BY <1>1, <1>3, <1>4, <1>5, <2>1 DEF Owns, Prepared, Resting, Armed
  <2>3. Underway(t, d, itask)
    BY <2>1 DEF Underway, Sending
  <2>4. Reported(t, d)
    BY <1>1, <1>5, <2>1 DEF Owns, Reported
  <2> QED
    BY <2>2, <2>3, <2>4 DEF Owns
<1> QED
  BY <1>1, <1>5, OwnStep

LEMMA OwnArm == Base /\ Own /\ Arm => Own'
<1> SUFFICES ASSUME Base, Own, Arm PROVE Own'
  OBVIOUS
<1> DEFINE t == [tx EXCEPT !.state = "TX_WAIT_FC"]
<1>1. Step("arm", "tx_id", t) /\ call.pc = "arm" /\ "tx_id" \in Pcs
  BY DEF Arm, Step, Pcs
<1>2. tx \in TxType
  BY DEF Base, Types
<1>3. t.state = "TX_WAIT_FC" /\ t.tx_id = tx.tx_id /\ t.rx_id = tx.rx_id
      /\ t.offset = tx.offset
  BY <1>2 DEF TxType
<1>4. (t.sem <=> tx.sem)
  BY <1>2 DEF TxType
<1> HIDE DEF t
<1>5. ASSUME NEW d, Moved(d, "tx_id"), Owns(tx, call, itask) PROVE Owns(t, d, itask)
  <2>1. /\ d.pc = "tx_id" /\ d.who = call.who /\ d.m = call.m /\ d.len = call.len
        /\ d.sent = call.sent /\ (d.ok <=> call.ok)
    BY <1>5 DEF Moved
  <2>2. Prepared(t, d)
    BY <1>1, <1>3, <1>4, <1>5, <2>1 DEF Owns, Prepared, Resting, Armed
  <2>3. Underway(t, d, itask)
    BY <2>1 DEF Underway, Sending
  <2>4. Reported(t, d)
    BY <1>1, <1>5, <2>1 DEF Owns, Reported
  <2> QED
    BY <2>2, <2>3, <2>4 DEF Owns
<1> QED
  BY <1>1, <1>5, OwnStep

LEMMA OwnStoreTxId == Base /\ Own /\ StoreTxId => Own'
<1> SUFFICES ASSUME Base, Own, StoreTxId PROVE Own'
  OBVIOUS
<1> DEFINE t == [tx EXCEPT !.tx_id = Peer[call.who]]
<1>1. Step("tx_id", "rx_id", t) /\ call.pc = "tx_id" /\ "rx_id" \in Pcs
  BY DEF StoreTxId, Step, Pcs
<1>2. tx \in TxType
  BY DEF Base, Types
<1>3. t.state = tx.state /\ t.tx_id = Peer[call.who] /\ t.rx_id = tx.rx_id
      /\ t.offset = tx.offset
  BY <1>2 DEF TxType
<1>4. (t.sem <=> tx.sem)
  BY <1>2 DEF TxType
<1> HIDE DEF t
<1>5. ASSUME NEW d, Moved(d, "rx_id"), Owns(tx, call, itask) PROVE Owns(t, d, itask)
  <2>1. /\ d.pc = "rx_id" /\ d.who = call.who /\ d.m = call.m /\ d.len = call.len
        /\ d.sent = call.sent /\ (d.ok <=> call.ok)
    BY <1>5 DEF Moved
  <2>2. Prepared(t, d)
    BY <1>1, <1>3, <1>4, <1>5, <2>1 DEF Owns, Prepared, Resting, Armed
  <2>3. Underway(t, d, itask)
    BY <2>1 DEF Underway, Sending
  <2>4. Reported(t, d)
    BY <1>1, <1>5, <2>1 DEF Owns, Reported
  <2> QED
    BY <2>2, <2>3, <2>4 DEF Owns
<1> QED
  BY <1>1, <1>5, OwnStep

LEMMA OwnStoreRxId == Base /\ Own /\ StoreRxId => Own'
<1> SUFFICES ASSUME Base, Own, StoreRxId PROVE Own'
  OBVIOUS
<1> DEFINE t == [tx EXCEPT !.rx_id = Peer[call.who]]
<1>1. Step("rx_id", "buffer", t) /\ call.pc = "rx_id" /\ "buffer" \in Pcs
  BY DEF StoreRxId, Step, Pcs
<1>2. tx \in TxType
  BY DEF Base, Types
<1>3. t.state = tx.state /\ t.tx_id = tx.tx_id /\ t.rx_id = Peer[call.who]
      /\ t.offset = tx.offset
  BY <1>2 DEF TxType
<1>4. (t.sem <=> tx.sem)
  BY <1>2 DEF TxType
<1> HIDE DEF t
<1>5. ASSUME NEW d, Moved(d, "buffer"), Owns(tx, call, itask) PROVE Owns(t, d, itask)
  <2>1. /\ d.pc = "buffer" /\ d.who = call.who /\ d.m = call.m /\ d.len = call.len
        /\ d.sent = call.sent /\ (d.ok <=> call.ok)
    BY <1>5 DEF Moved
  <2>2. Prepared(t, d)
    BY <1>1, <1>3, <1>4, <1>5, <2>1 DEF Owns, Prepared, Resting, Armed
  <2>3. Underway(t, d, itask)
    BY <2>1 DEF Underway, Sending
  <2>4. Reported(t, d)
    BY <1>1, <1>5, <2>1 DEF Owns, Reported
  <2> QED
    BY <2>2, <2>3, <2>4 DEF Owns
<1> QED
  BY <1>1, <1>5, OwnStep

LEMMA OwnStoreBuffer == Base /\ Own /\ StoreBuffer => Own'
<1> SUFFICES ASSUME Base, Own, StoreBuffer PROVE Own'
  OBVIOUS
<1> DEFINE t == [tx EXCEPT !.buffer = call.m]
<1>1. Step("buffer", "length", t) /\ call.pc = "buffer" /\ "length" \in Pcs
  BY DEF StoreBuffer, Step, Pcs
<1>2. tx \in TxType
  BY DEF Base, Types
<1>3. t.state = tx.state /\ t.tx_id = tx.tx_id /\ t.rx_id = tx.rx_id
      /\ t.offset = tx.offset
  BY <1>2 DEF TxType
<1>4. (t.sem <=> tx.sem)
  BY <1>2 DEF TxType
<1> HIDE DEF t
<1>5. ASSUME NEW d, Moved(d, "length"), Owns(tx, call, itask) PROVE Owns(t, d, itask)
  <2>1. /\ d.pc = "length" /\ d.who = call.who /\ d.m = call.m /\ d.len = call.len
        /\ d.sent = call.sent /\ (d.ok <=> call.ok)
    BY <1>5 DEF Moved
  <2>2. Prepared(t, d)
    BY <1>1, <1>3, <1>4, <1>5, <2>1 DEF Owns, Prepared, Resting, Armed
  <2>3. Underway(t, d, itask)
    BY <2>1 DEF Underway, Sending
  <2>4. Reported(t, d)
    BY <1>1, <1>5, <2>1 DEF Owns, Reported
  <2> QED
    BY <2>2, <2>3, <2>4 DEF Owns
<1> QED
  BY <1>1, <1>5, OwnStep

LEMMA OwnStoreLength == Base /\ Own /\ StoreLength => Own'
<1> SUFFICES ASSUME Base, Own, StoreLength PROVE Own'
  OBVIOUS
<1> DEFINE t == [tx EXCEPT !.length = call.len]
<1>1. Step("length", "rest", t) /\ call.pc = "length" /\ "rest" \in Pcs
  BY DEF StoreLength, Step, Pcs
<1>2. tx \in TxType
  BY DEF Base, Types
<1>3. t.state = tx.state /\ t.tx_id = tx.tx_id /\ t.rx_id = tx.rx_id
      /\ t.offset = tx.offset
  BY <1>2 DEF TxType
<1>4. (t.sem <=> tx.sem)
  BY <1>2 DEF TxType
<1> HIDE DEF t
<1>5. ASSUME NEW d, Moved(d, "rest"), Owns(tx, call, itask) PROVE Owns(t, d, itask)
  <2>1. /\ d.pc = "rest" /\ d.who = call.who /\ d.m = call.m /\ d.len = call.len
        /\ d.sent = call.sent /\ (d.ok <=> call.ok)
    BY <1>5 DEF Moved
  <2>2. Prepared(t, d)
    BY <1>1, <1>3, <1>4, <1>5, <2>1 DEF Owns, Prepared, Resting, Armed
  <2>3. Underway(t, d, itask)
    BY <2>1 DEF Underway, Sending
  <2>4. Reported(t, d)
    BY <1>1, <1>5, <2>1 DEF Owns, Reported
  <2> QED
    BY <2>2, <2>3, <2>4 DEF Owns
<1> QED
  BY <1>1, <1>5, OwnStep

LEMMA OwnStoreRest == Base /\ Own /\ StoreRest => Own'
<1> SUFFICES ASSUME Base, Own, StoreRest PROVE Own'
  OBVIOUS
<1> DEFINE t == [tx EXCEPT !.offset = FFData, !.sn = 1, !.bs = 0, !.bs_counter = 0, !.stmin_ms = 0,
                   !.wait_fc_count = 0]
<1>1. Step("rest", "start", t) /\ call.pc = "rest" /\ "start" \in Pcs
  BY DEF StoreRest, Step, Pcs
<1>2. tx \in TxType
  BY DEF Base, Types
<1>3. t.state = tx.state /\ t.tx_id = tx.tx_id /\ t.rx_id = tx.rx_id
      /\ t.offset = FFData
  BY <1>2 DEF TxType
<1>4. (t.sem <=> tx.sem)
  BY <1>2 DEF TxType
<1> HIDE DEF t
<1>5. ASSUME NEW d, Moved(d, "start"), Owns(tx, call, itask) PROVE Owns(t, d, itask)
  <2>1. /\ d.pc = "start" /\ d.who = call.who /\ d.m = call.m /\ d.len = call.len
        /\ d.sent = call.sent /\ (d.ok <=> call.ok)
    BY <1>5 DEF Moved
  <2>2. Prepared(t, d)
    BY <1>1, <1>3, <1>4, <1>5, <2>1 DEF Owns, Prepared, Resting, Armed
  <2>3. Underway(t, d, itask)
    BY <2>1 DEF Underway, Sending
  <2>4. Reported(t, d)
    BY <1>1, <1>5, <2>1 DEF Owns, Reported
  <2> QED
    BY <2>2, <2>3, <2>4 DEF Owns
<1> QED
  BY <1>1, <1>5, OwnStep

LEMMA OwnStartWait == Base /\ Own /\ StartWait => Own'
<1> SUFFICES ASSUME Base, Own, StartWait PROVE Own'
  OBVIOUS
<1> DEFINE t == [tx EXCEPT !.fcAge = 0]
<1>1. Step("start", "ff", t) /\ call.pc = "start" /\ "ff" \in Pcs
  BY DEF StartWait, Step, Pcs
<1>2. tx \in TxType
  BY DEF Base, Types
<1>3. t.state = tx.state /\ t.tx_id = tx.tx_id /\ t.rx_id = tx.rx_id
      /\ t.offset = tx.offset
  BY <1>2 DEF TxType
<1>4. (t.sem <=> tx.sem)
  BY <1>2 DEF TxType
<1> HIDE DEF t
<1>5. ASSUME NEW d, Moved(d, "ff"), Owns(tx, call, itask) PROVE Owns(t, d, itask)
  <2>1. /\ d.pc = "ff" /\ d.who = call.who /\ d.m = call.m /\ d.len = call.len
        /\ d.sent = call.sent /\ (d.ok <=> call.ok)
    BY <1>5 DEF Moved
  <2>2. Prepared(t, d)
    BY <1>1, <1>3, <1>4, <1>5, <2>1 DEF Owns, Prepared, Resting, Armed
  <2>3. Underway(t, d, itask)
    BY <2>1 DEF Underway, Sending
  <2>4. Reported(t, d)
    BY <1>1, <1>5, <2>1 DEF Owns, Reported
  <2> QED
    BY <2>2, <2>3, <2>4 DEF Owns
<1> QED
  BY <1>1, <1>5, OwnStep

LEMMA OwnFinish == Base /\ Own /\ Finish => Own'
<1> SUFFICES ASSUME Base, Own, Finish PROVE Own'
  OBVIOUS
<1> DEFINE t == [tx EXCEPT !.state = "TX_IDLE"]
<1>1. Step("finish", "return", t) /\ call.pc = "finish" /\ "return" \in Pcs
  BY DEF Finish, Step, Pcs
<1>2. tx \in TxType
  BY DEF Base, Types
<1>3. t.state = "TX_IDLE" /\ t.tx_id = tx.tx_id /\ t.rx_id = tx.rx_id
      /\ t.offset = tx.offset
  BY <1>2 DEF TxType
<1>4. (t.sem <=> tx.sem)
  BY <1>2 DEF TxType
<1> HIDE DEF t
<1>5. ASSUME NEW d, Moved(d, "return"), Owns(tx, call, itask) PROVE Owns(t, d, itask)
  <2>1. /\ d.pc = "return" /\ d.who = call.who /\ d.m = call.m /\ d.len = call.len
        /\ d.sent = call.sent /\ (d.ok <=> call.ok)
    BY <1>5 DEF Moved
  <2>2. Prepared(t, d)
    BY <1>1, <1>3, <1>4, <1>5, <2>1 DEF Owns, Prepared, Resting, Armed
  <2>3. Underway(t, d, itask)
    BY <2>1 DEF Underway, Sending
  <2>4. Reported(t, d)
    BY <1>1, <1>5, <2>1 DEF Owns, Underway, Sending, Reported
  <2> QED
    BY <2>2, <2>3, <2>4 DEF Owns
<1> QED
  BY <1>1, <1>5, OwnStep

LEMMA OwnSendSf == Base /\ Own /\ SendSf => Own'
<1> SUFFICES ASSUME Base, Own, SendSf, ~hist'.raced PROVE Owns(tx', call', itask')
  BY DEF Own
<1>1. /\ call.pc = "sf" /\ tx' = tx /\ UNCHANGED <<itask, hist>> /\ call \in CallType
      /\ \/ call' = [call EXCEPT !.pc = "return", !.ok = TRUE, !.sent = call.len]
         \/ call' = [call EXCEPT !.pc = "return"]
  BY DEF SendSf, SendFrame, Base, Types
<1>2. Owns(tx, call, itask)
  BY <1>1 DEF Own
<1>3. PICK d : d = call'
  OBVIOUS
<1>4. d.pc = "return" /\ d.who = call.who /\ d.len = call.len
  BY <1>1, <1>3 DEF CallType
<1>5. d.sent = d.len \/ (d.ok <=> call.ok)
  BY <1>1, <1>3 DEF CallType
<1>6. Prepared(tx, d)
  BY <1>1, <1>2, <1>4 DEF Owns, Prepared, Resting, Armed
<1>7. Underway(tx, d, itask)
  BY <1>4 DEF Underway, Sending
<1>8. Reported(tx, d)
  BY <1>1, <1>2, <1>4, <1>5 DEF Owns, Reported
<1> QED
  BY <1>1, <1>3, <1>6, <1>7, <1>8 DEF Owns

LEMMA OwnSendFf == Base /\ Own /\ SendFf => Own'
<1> SUFFICES ASSUME Base, Own, SendFf, ~hist'.raced PROVE Owns(tx', call', itask')
  BY DEF Own
<1> DEFINE f == Frame("FF", Peer[call.who], call.m, 0, 0, FFData, call.len)
<1>1. /\ call.pc = "ff" /\ UNCHANGED <<itask, hist>> /\ call \in CallType /\ tx \in TxType
      /\ q_twai_tx \in Seq(FrameType)
      /\ \/ Enqueue(f) /\ call' = [call EXCEPT !.pc = "wait", !.sent = FFData] /\ tx' = tx
         \/ call' = [call EXCEPT !.pc = "return"] /\ tx' = [tx EXCEPT !.state = "TX_IDLE"]
  BY DEF SendFf, SendFrame, Base, Types
<1>2. Owns(tx, call, itask)
  BY <1>1 DEF Own
<1>3. Enqueue(f) => ~itask.cf
  BY <1>1, Consts, LenProperties DEF SendFf, SendFrame, IsotpBlocked, TxFull, Enqueue
<1>4. ~call.ok
  BY <1>1, <1>2 DEF Owns, Reported
<1>5. PICK d, t : d = call' /\ t = tx'
  OBVIOUS
<1>6. CASE Enqueue(f) /\ call' = [call EXCEPT !.pc = "wait", !.sent = FFData] /\ tx' = tx
  <2>1. /\ d.pc = "wait" /\ d.who = call.who /\ d.m = call.m /\ d.len = call.len
        /\ d.sent = FFData /\ t = tx
    BY <1>1, <1>5, <1>6 DEF CallType
  <2>2. d.ok <=> call.ok
    BY <1>1, <1>5, <1>6 DEF CallType
  <2>3. /\ tx.state = "TX_WAIT_FC" /\ ~tx.sem /\ tx.offset = FFData
        /\ tx.tx_id = Peer[call.who] /\ tx.rx_id = Peer[call.who]
    BY <1>1, <1>2 DEF Owns, Prepared, Armed
  <2>4. FFData < call.len
    <3>1. call.len > 7
      BY <1>1 DEF Base, Sound, Placed
    <3> QED
      BY <3>1, CallerNumbers
  <2>5. Prepared(t, d)
    BY <2>1 DEF Prepared, Resting, Armed
  <2>6. Underway(t, d, itask)
    BY <1>3, <1>6, <2>1, <2>3, <2>4 DEF Underway, Sending
  <2>7. Reported(t, d)
    BY <1>4, <2>2 DEF Reported
  <2> QED
    BY <1>1, <1>5, <2>5, <2>6, <2>7 DEF Owns
<1>7. CASE call' = [call EXCEPT !.pc = "return"] /\ tx' = [tx EXCEPT !.state = "TX_IDLE"]
  <2>1. d.pc = "return" /\ t.state = "TX_IDLE"
    BY <1>1, <1>5, <1>7 DEF CallType, TxType
  <2>2. d.ok <=> call.ok
    BY <1>1, <1>5, <1>7 DEF CallType
  <2>3. Prepared(t, d)
    BY <2>1 DEF Prepared, Resting, Armed
  <2>4. Underway(t, d, itask)
    BY <2>1 DEF Underway, Sending
  <2>5. Reported(t, d)
    BY <1>4, <2>2 DEF Reported
  <2> QED
    BY <1>1, <1>5, <2>3, <2>4, <2>5 DEF Owns
<1> QED
  BY <1>1, <1>6, <1>7

LEMMA OwnWaitTaken == Base /\ Own /\ WaitTaken => Own'
<1> SUFFICES ASSUME Base, Own, WaitTaken, ~hist'.raced PROVE Owns(tx', call', itask')
  BY DEF Own
<1>1. /\ call.pc = "wait" /\ tx.sem /\ UNCHANGED <<itask, hist>> /\ call \in CallType /\ tx \in TxType
      /\ call' = [call EXCEPT !.pc = "finish", !.ok = tx.state = "TX_DONE"]
      /\ tx' = [tx EXCEPT !.sem = FALSE]
  BY DEF WaitTaken, Base, Types
<1>2. Owns(tx, call, itask)
  BY <1>1 DEF Own
<1>3. tx.state \in {"TX_DONE", "TX_ERROR"}
  BY <1>1, <1>2 DEF Owns, Underway
<1>4. PICK d, t : d = call' /\ t = tx'
  OBVIOUS
<1>5. d.pc = "finish" /\ d.who = call.who /\ d.m = call.m /\ d.len = call.len /\ d.sent = call.sent
  BY <1>1, <1>4 DEF CallType
<1>6. d.ok <=> tx.state = "TX_DONE"
  <2>1. PICK w \in BOOLEAN : (w <=> tx.state = "TX_DONE") /\ d = [call EXCEPT !.pc = "finish", !.ok = w]
    <3>1. (tx.state = "TX_DONE") \in BOOLEAN
      OBVIOUS
    <3> QED
      BY <1>1, <1>4, <3>1
  <2>2. d.ok <=> w
    BY <1>1, <2>1 DEF CallType
  <2> QED
    BY <2>1, <2>2
<1>7. t.state = tx.state /\ t.tx_id = tx.tx_id /\ t.rx_id = tx.rx_id /\ t.offset = tx.offset
  BY <1>1, <1>4 DEF TxType
<1>8. Prepared(t, d)
  BY <1>5 DEF Prepared, Resting, Armed
<1>9. Underway(t, d, itask)
  BY <1>1, <1>2, <1>3, <1>5, <1>7 DEF Owns, Underway, Sending
<1>10. Reported(t, d)
  BY <1>5, <1>6, <1>7 DEF Reported
<1> QED
  BY <1>1, <1>4, <1>8, <1>9, <1>10 DEF Owns

LEMMA OwnWaitTimeout == Base /\ Own /\ WaitTimeout => Own'
<1> SUFFICES ASSUME Base, Own, WaitTimeout, ~hist'.raced PROVE Owns(tx', call', itask')
  BY DEF Own
<1>1. /\ call.pc = "wait" /\ UNCHANGED <<tx, itask, hist>> /\ call \in CallType
      /\ call' = [call EXCEPT !.pc = "finish"]
  BY DEF WaitTimeout, Base, Types
<1>2. Owns(tx, call, itask)
  BY <1>1 DEF Own
<1>3. PICK d : d = call'
  OBVIOUS
<1>4. d.pc = "finish" /\ d.who = call.who /\ d.m = call.m /\ d.len = call.len /\ d.sent = call.sent
  BY <1>1, <1>3 DEF CallType
<1>5. d.ok <=> call.ok
  BY <1>1, <1>3 DEF CallType
<1>6. Prepared(tx, d)
  BY <1>4 DEF Prepared, Resting, Armed
<1>7. Underway(tx, d, itask)
  BY <1>1, <1>2, <1>4 DEF Owns, Underway, Sending
<1>8. Reported(tx, d)
  BY <1>1, <1>2, <1>4, <1>5 DEF Owns, Reported
<1> QED
  BY <1>1, <1>3, <1>6, <1>7, <1>8 DEF Owns

LEMMA OwnReturn == Base /\ Own /\ Return => Own'
<1> SUFFICES ASSUME Base, Own, Return, ~hist'.raced PROVE Owns(tx', call', itask')
  BY DEF Own
<1>1. /\ call.pc = "return" /\ UNCHANGED <<tx, itask, hist>> /\ call' = [NoCall EXCEPT !.m = call.m]
  BY DEF Return
<1>2. Owns(tx, call, itask)
  BY <1>1 DEF Own
<1>3. PICK d : d = call'
  OBVIOUS
<1>4. d.pc = "none" /\ ~d.ok
  BY <1>1, <1>3 DEF NoCall
<1>5. Prepared(tx, d)
  BY <1>1, <1>2, <1>4 DEF Owns, Prepared, Resting, Armed
<1>6. Underway(tx, d, itask) /\ Reported(tx, d)
  BY <1>4 DEF Underway, Reported, Sending
<1> QED
  BY <1>1, <1>3, <1>5, <1>6 DEF Owns

LEMMA OwnLock == ASSUME NEW x \in Callers PROVE Base /\ Own /\ Lock(x) => Own'
<1> SUFFICES ASSUME Base, Own, Lock(x), ~hist'.raced PROVE Owns(tx', call', itask')
  BY DEF Own
<1>1. /\ call.who = NoCaller /\ UNCHANGED <<tx, itask, hist>>
      /\ call'.pc \in {"sf", "drain"} /\ ~call'.ok
  BY DEF Lock
<1>2. Owns(tx, call, itask) /\ call.pc = "none"
  BY <1>1 DEF Own, Base, Sound, Placed
<1>3. PICK d : d = call'
  OBVIOUS
<1>4. Prepared(tx, d)
  BY <1>1, <1>2, <1>3 DEF Owns, Prepared, Resting, Armed
<1>5. Underway(tx, d, itask) /\ Reported(tx, d)
  BY <1>1, <1>3 DEF Underway, Reported, Sending
<1> QED
  BY <1>1, <1>3, <1>4, <1>5 DEF Owns

LEMMA OwnTick == Base /\ Own /\ Tick => Own'
<1> SUFFICES ASSUME Base, Own, Tick, ~hist'.raced PROVE Owns(tx', call', itask')
  BY DEF Own
<1> DEFINE f == Older(tx.fcAge, NBs + 1)
           g == Older(tx.cfAge, tx.stmin_ms)
           n == IF call.pc = "wait" THEN Older(call.age, SendTimeout) ELSE call.age
           t == [tx EXCEPT !.fcAge = f, !.cfAge = g]
           d == [call EXCEPT !.age = n]
<1>1. /\ tx' = t /\ call' = d /\ UNCHANGED <<itask, hist>> /\ tx \in TxType /\ call \in CallType
  BY DEF Tick, Base, Types
<1>2. Owns(tx, call, itask)
  BY <1>1 DEF Own
<1> HIDE DEF f, g, n
<1>3. /\ t.state = tx.state /\ t.tx_id = tx.tx_id /\ t.rx_id = tx.rx_id /\ t.buffer = tx.buffer
      /\ t.length = tx.length /\ t.offset = tx.offset /\ t.sn = tx.sn
  BY <1>1 DEF TxType
<1>4. t.sem <=> tx.sem
  BY <1>1 DEF TxType
<1>5. /\ d.pc = call.pc /\ d.who = call.who /\ d.m = call.m /\ d.len = call.len
      /\ d.sent = call.sent
  BY <1>1 DEF CallType
<1>6. d.ok <=> call.ok
  BY <1>1 DEF CallType
<1> HIDE DEF t, d
<1>7. CfOf(t) = CfOf(tx)
  BY <1>3 DEF CfOf, Chunk
<1>8. Prepared(t, d)
  BY <1>2, <1>3, <1>4, <1>5 DEF Owns, Prepared
<1>9. Underway(t, d, itask)
  BY <1>2, <1>3, <1>4, <1>5, <1>7 DEF Owns, Underway
<1>10. Reported(t, d)
  BY <1>2, <1>3, <1>5, <1>6 DEF Owns, Reported
<1> QED
  BY <1>1, <1>8, <1>9, <1>10 DEF Owns

LEMMA OwnNext == Base /\ Own /\ [Next]_vars => Own'
<1> SUFFICES ASSUME Base, Own, [Next]_vars PROVE Own'
  OBVIOUS
<1>1. CASE IsotpTask
  BY <1>1, OwnIterationFc, OwnIterationIdle, OwnCfUnblocked, OwnCfTimeout DEF IsotpTask
<1>2. CASE \E x \in Callers : Begin(x) \/ Lock(x)
  <2>1. ASSUME NEW x \in Callers, Begin(x) PROVE Own'
    BY <2>1 DEF Begin, Own
  <2> QED
    BY <1>2, <2>1, OwnLock
<1>3. CASE IsotpSend
  BY <1>3, OwnDrain, OwnArm, OwnStoreTxId, OwnStoreRxId, OwnStoreBuffer, OwnStoreLength,
     OwnStoreRest, OwnStartWait, OwnSendSf, OwnSendFf, OwnWaitTaken, OwnWaitTimeout, OwnFinish,
     OwnReturn DEF IsotpSend
<1>4. CASE TwaiTransmit
  <2>1. hist \in HistType /\ UNCHANGED <<tx, itask, call>>
    BY <1>4 DEF TwaiTransmit, Base, Types
  <2>2. hist'.raced <=> hist.raced
    BY <1>4, <2>1 DEF TwaiTransmit, HistType
  <2> QED
    BY <2>1, <2>2 DEF Own
<1>5. CASE \E e \in Ecus : EcuSendFc(e)
  <2>1. UNCHANGED <<tx, itask, call, hist>>
    BY <1>5 DEF EcuSendFc
  <2> QED
    BY <2>1 DEF Own
<1>6. CASE Tick
  BY <1>6, OwnTick
<1>7. CASE UNCHANGED vars
  BY <1>7 DEF vars, Own
<1> QED
  BY <1>1, <1>2, <1>3, <1>4, <1>5, <1>6, <1>7 DEF Next

LEMMA InitOwn == Init => Own
BY DEF Init, NoCall, Own, Owns, Prepared, Underway, Reported, Resting, Armed, Sending

LEMMA OwnAlways == Spec => [](Base /\ Own)
<1>1. Init => Base /\ Own
  BY InitBase, InitOwn
<1>2. Base /\ Own /\ [Next]_vars => (Base /\ Own)'
  BY BaseNext, OwnNext
<1> QED
  BY <1>1, <1>2, PTL DEF Spec

\* isotp_send never returns true for a message that did not go into q_twai_tx whole and in
\* order, unless isotp_task wrote tx_state while a caller was filling it.
THEOREM TrueMeansSent == Spec => []SendTrueUnlessRaced
<1>1. Base /\ Own => SendTrueUnlessRaced
  <2> SUFFICES ASSUME Base, Own, Succeeded, ~hist.raced PROVE call.sent = call.len
    BY DEF SendTrueUnlessRaced
  <2>1. call.pc \in {"finish", "return"} /\ call.ok /\ Owns(tx, call, itask)
    BY DEF Succeeded, Own
  <2>2. CASE call.pc = "finish"
    BY <2>1, <2>2 DEF Owns, Reported, Underway, Sending
  <2>3. CASE call.pc = "return"
    BY <2>1, <2>3 DEF Owns, Reported
  <2> QED
    BY <2>1, <2>2, <2>3
<1> QED
  BY <1>1, OwnAlways, PTL

\* done_sem speaks of the call that waits for it, and nothing of a call that timed out or was
\* aborted is left in tx_state when the next one starts.
THEOREM ResultIsOwn == Spec => []OwnResult
<1>1. Base /\ Own => OwnResult
  <2> SUFFICES ASSUME Base, Own, ~hist.raced
               PROVE  /\ call.pc = "wait" /\ tx.sem => tx.state \in {"TX_DONE", "TX_ERROR"}
                      /\ call.pc = "wait" => tx.buffer = call.m
                      /\ call.who = NoCaller => tx.state = "TX_IDLE"
    BY DEF OwnResult
  <2>1. Owns(tx, call, itask)
    BY DEF Own
  <2>2. call.pc = "wait" /\ tx.sem => tx.state \in {"TX_DONE", "TX_ERROR"}
    BY <2>1 DEF Owns, Underway
  <2>3. call.pc = "wait" => tx.buffer = call.m
    BY Waiter DEF Sending
  <2>4. call.who = NoCaller => call.pc = "none"
    BY DEF Base, Sound, Placed
  <2>5. call.pc = "none" => tx.state = "TX_IDLE"
    BY <2>1 DEF Owns, Prepared, Resting
  <2> QED
    BY <2>2, <2>3, <2>4, <2>5
<1> QED
  BY <1>1, OwnAlways, PTL

-----------------------------------------------------------------------------
(* What the ECUs receive *)

\* Frame f is followed by the bytes of m for ECU e from off on; a receiver r expects them.
Continues(f, m, e, off) == f.pci \in {"FF", "CF"} /\ f.m = m /\ f.to = e /\ f.off + f.n = off
Expects(r, m, off)      == r.st = "recv" => r.m = m /\ r.got = off

\* The bytes of m for e from off on come next, once queue q has gone out to the ECUs E.
Ready(q, E, m, e, off) ==
  IF q = <<>> THEN Expects(E[e], m, off) ELSE Continues(q[Len(q)], m, e, off)

\* In the queue a Consecutive Frame goes on where the frame before it ends.
Lined(q) ==
  /\ \A k \in 1..Len(q) : q[k].to \in Ecus /\ (q[k].pci = "FF" => q[k].off = 0)
  /\ \A k \in 1..(Len(q) - 1) :
       q[k + 1].pci = "CF" => Continues(q[k], q[k + 1].m, q[k + 1].to, q[k + 1].off)

\* The first frame of the queue is what its ECU expects.
Awaited(q, E) == q # <<>> /\ q[1].pci = "CF" => Expects(E[q[1].to], q[1].m, q[1].off)

Clean(E) == \A e \in Ecus : ~E[e].mixed /\ ~E[e].bad

InOrder(c) ==
  /\ Lined(q_twai_tx) /\ Awaited(q_twai_tx, ecu) /\ Clean(ecu)
  /\ c.pc \in Sending => Ready(q_twai_tx, ecu, c.m, Peer[c.who], c.sent)

Whole == ~hist.raced /\ ~hist.lost => InOrder(call)

\* A frame that goes on where the queue ends keeps the order.
LEMMA LinedEnqueue ==
  ASSUME Base, Lined(q_twai_tx), Awaited(q_twai_tx, ecu), NEW f \in FrameType, Enqueue(f),
         f.to \in Ecus, f.pci = "FF" => f.off = 0,
         f.pci = "CF" => Ready(q_twai_tx, ecu, f.m, f.to, f.off)
  PROVE  /\ Lined(q_twai_tx') /\ Awaited(q_twai_tx', ecu)
         /\ f.pci \in {"FF", "CF"} => Ready(q_twai_tx', ecu, f.m, f.to, f.off + f.n)
<1>1. PICK q : q = q_twai_tx /\ q \in Seq(FrameType)
  BY DEF Base, Types
<1>2. PICK n \in Nat : n = Len(q)
  BY <1>1, LenProperties
<1>3. PICK r : r = q_twai_tx'
  OBVIOUS
<1>4. /\ r \in Seq(FrameType) /\ Len(r) = n + 1
      /\ \A k \in 1..n : r[k] = q[k]
      /\ r[n + 1] = f
  BY <1>1, <1>2, <1>3, Enqueues DEF Base
<1>5. (q = <<>>) <=> (n = 0)
  BY <1>1, <1>2, EmptySeq
<1>6. r # <<>>
  BY <1>1, <1>2, <1>4, EmptySeq
<1>7. \A k \in 1..Len(r) : r[k].to \in Ecus /\ (r[k].pci = "FF" => r[k].off = 0)
  <2>1. \A k \in 1..n : q[k].to \in Ecus /\ (q[k].pci = "FF" => q[k].off = 0)
    BY <1>1, <1>2 DEF Lined
  <2>2. \A k \in 1..(n + 1) : k \in 1..n \/ k = n + 1
    BY <1>1, <1>2
  <2> QED
    BY <1>4, <2>1, <2>2
<1>8. ASSUME NEW k \in 1..n, r[k + 1].pci = "CF"
      PROVE  Continues(r[k], r[k + 1].m, r[k + 1].to, r[k + 1].off)
  <2>1. CASE k = n
    <3>1. r[k + 1] = f /\ r[k] = q[n] /\ q # <<>>
      BY <1>1, <1>2, <1>4, <1>5, <2>1
    <3> QED
      BY <1>1, <1>2, <1>8, <3>1 DEF Ready
  <2>2. CASE k # n
    <3>1. k \in 1..(n - 1) /\ k + 1 \in 1..n
      BY <1>1, <1>2, <2>2
    <3>2. r[k + 1] = q[k + 1] /\ r[k] = q[k]
      BY <1>4, <3>1
    <3>3. q[k + 1].pci = "CF" => Continues(q[k], q[k + 1].m, q[k + 1].to, q[k + 1].off)
      BY <1>1, <1>2, <3>1 DEF Lined
    <3> QED
      BY <1>8, <3>2, <3>3
  <2> QED
    BY <2>1, <2>2
<1>9. Lined(r)
  <2>1. Len(r) - 1 = n
    BY <1>1, <1>2, <1>4
  <2> QED
    BY <1>7, <1>8, <2>1 DEF Lined
<1>10. Awaited(r, ecu)
  <2>1. CASE n = 0
    <3>1. r[1] = f /\ q = <<>>
      BY <1>4, <1>5, <2>1
    <3> QED
      BY <1>1, <1>2, <3>1 DEF Awaited, Ready
  <2>2. CASE n # 0
    <3>1. r[1] = q[1] /\ q # <<>>
      BY <1>1, <1>2, <1>4, <1>5, <2>2
    <3> QED
      BY <1>1, <1>2, <3>1 DEF Awaited
  <2> QED
    BY <2>1, <2>2
<1>11. f.pci \in {"FF", "CF"} => Ready(r, ecu, f.m, f.to, f.off + f.n)
  BY <1>4, <1>6 DEF Ready, Continues
<1> QED
  BY <1>3, <1>9, <1>10, <1>11

\* tx_pump sends for the call that waits, and only then.
LEMMA PumpSends ==
  ASSUME Base, NEW t, Entered(t), Owns(tx, call, itask), ~itask.cf, Pump(t),
         tx.state = "TX_IDLE" => t = tx,
         call.pc \in Sending => Owns(t, call, itask),
         Arming => tx' = tx
  PROVE  \/ UNCHANGED <<call, q_twai_tx>>
         \/ /\ call.pc \in Sending /\ t.state = "TX_SENDING_CF" /\ Owns(t, call, itask)
            /\ Enqueue(CfOf(t)) /\ call' = [call EXCEPT !.sent = SentAfter(CfOf(t))]
<1>1. t \in TxType /\ call \in CallType
  BY DEF Entered, Base, Types
<1>2. CASE call.pc \in Resting
  <2>1. tx.state = "TX_IDLE" /\ t = tx
    BY <1>2 DEF Owns, Prepared
  <2>2. ~CfDue(t)
    BY <2>1 DEF CfDue
  <2> QED
    BY <2>2 DEF Pump
<1>3. CASE call.pc \in Armed
  <2>1. tx.state = "TX_WAIT_FC" /\ tx' = tx
    BY <1>3, ArmedIs DEF Owns, Prepared
  <2>2. CASE CfDue(t) /\ Enqueue(CfOf(t)) /\ tx' = AfterCf(t, Chunk(t))
    <3> DEFINE a == AfterCf(t, Chunk(t))
    <3>1. /\ t.offset \in Nat /\ t.length \in Nat /\ Chunk(t) \in 0..CFData /\ Chunk(t) \in Nat
          /\ t.offset < t.length => Chunk(t) # 0
      BY <1>1, Numbers, ChunkIs, Widths
    <3>2. t.offset + Chunk(t) < U16
      <4>1. Room(t, call, itask)
        BY DEF Entered, Sound
      <4>2. t.offset <= MaxLen + CFData
        BY <1>1, <2>2, <4>1, Numbers DEF Room, CfDue
      <4> QED
        BY <3>1, <4>2, Widths
    <3>3. /\ a.offset = t.offset + Chunk(t)
          /\ t.offset + Chunk(t) >= t.length => a.state = "TX_DONE"
      BY <1>1, <3>1, <3>2, AfterCfIs
    <3>4. a.offset = t.offset /\ a.state = "TX_WAIT_FC"
      BY <2>1, <2>2 DEF Entered
    <3> HIDE DEF a
    <3>5. FALSE
      BY <3>1, <3>3, <3>4
    <3> QED
      BY <3>5
  <2>3. CASE UNCHANGED <<call, q_twai_tx>>
    BY <2>3
  <2> QED
    BY <2>2, <2>3 DEF Pump
<1>4. CASE call.pc \in Sending
  BY <1>4 DEF Pump, CfDue
<1> QED
  BY <1>1, <1>2, <1>3, <1>4, Where

\* The next frame of the call that waits is in order.
LEMMA OrderSent ==
  ASSUME Base, InOrder(call), NEW t, Entered(t), Owns(t, call, itask), call.pc \in Sending,
         t.state = "TX_SENDING_CF", Enqueue(CfOf(t)),
         call' = [call EXCEPT !.sent = SentAfter(CfOf(t))], UNCHANGED ecu
  PROVE  InOrder(call)'
<1> DEFINE f == CfOf(t)
<1>1. /\ t \in TxType /\ call \in CallType /\ t.buffer = tx.buffer
  BY DEF Entered, Base, Types
<1>2. /\ f \in FrameType /\ f.pci = "CF" /\ f.to = t.tx_id /\ f.m = t.buffer /\ f.off = t.offset
      /\ f.n = Chunk(t)
  BY <1>1, CfOfTyped
<1>3. f.to = Peer[call.who] /\ f.off = call.sent /\ f.m = call.m /\ f.to \in Ecus
  BY <1>1, <1>2, Waiter, Consts DEF Owns, Underway
<1>4. PICK k : ~k.cf
  <2>1. ~NotBlocked.cf
    BY NotBlockedTyped
  <2> QED
    BY <2>1
<1>5. SentAfter(f) = f.off + f.n
  BY <1>2, <1>4, OwnSent
<1>6. call'.pc = call.pc /\ call'.who = call.who /\ call'.m = call.m /\ call'.sent = f.off + f.n
  BY <1>1, <1>5 DEF CallType
<1> HIDE DEF f
<1>7. Ready(q_twai_tx, ecu, f.m, f.to, f.off)
  BY <1>3 DEF InOrder
<1>8. /\ Lined(q_twai_tx') /\ Awaited(q_twai_tx', ecu)
      /\ Ready(q_twai_tx', ecu, f.m, f.to, f.off + f.n)
  <2>1. Lined(q_twai_tx) /\ Awaited(q_twai_tx, ecu) /\ Enqueue(f)
    BY DEF InOrder, f
  <2>2. f.pci # "FF" /\ f.pci \in {"FF", "CF"}
    BY <1>2
  <2> QED
    BY <1>2, <1>3, <1>7, <2>1, <2>2, LinedEnqueue
<1>9. PICK q, d : q = q_twai_tx' /\ d = call'
  OBVIOUS
<1>10. Lined(q) /\ Awaited(q, ecu) /\ Clean(ecu) /\ Ready(q, ecu, d.m, Peer[d.who], d.sent)
  BY <1>3, <1>6, <1>8, <1>9 DEF InOrder
<1> QED
  BY <1>9, <1>10 DEF InOrder

\* Where only the caller moves, and not to its wait, the order is kept.
LEMMA WholeStill ==
  ASSUME Whole, UNCHANGED <<q_twai_tx, ecu, hist>>,
         call'.pc \in Sending => /\ call.pc \in Sending /\ call'.m = call.m
                                 /\ call'.who = call.who /\ call'.sent = call.sent
  PROVE  Whole'
<1>1. PICK d : d = call'
  OBVIOUS
<1>2. InOrder(call) => InOrder(d)
  BY <1>1 DEF InOrder
<1>3. ~hist.raced /\ ~hist.lost => InOrder(d)
  BY <1>2 DEF Whole
<1>4. PICK q, E, h : q = q_twai_tx' /\ E = ecu' /\ h = hist'
  OBVIOUS
<1>5. ~h.raced /\ ~h.lost =>
        /\ Lined(q) /\ Awaited(q, E) /\ Clean(E)
        /\ d.pc \in Sending => Ready(q, E, d.m, Peer[d.who], d.sent)
  BY <1>3, <1>4 DEF InOrder
<1> QED
  BY <1>1, <1>4, <1>5 DEF Whole, InOrder

LEMMA WholeStep ==
  ASSUME Base, Whole, NEW pc, NEW next \in Pcs, next \notin Sending, NEW t, Step(pc, next, t)
  PROVE  Whole'
<1>1. Moved(call', next) /\ UNCHANGED <<q_twai_tx, ecu, hist>>
  BY StepMoves DEF Base, Step
<1>2. call'.pc = next
  BY <1>1 DEF Moved
<1> QED
  BY <1>1, <1>2, WholeStill

\* An iteration of isotp_task sends nothing or the next frame of the call that waits.
LEMMA WholeIteration ==
  ASSUME Base, Own, Whole, NEW t, Entered(t), ~itask.cf, Pump(t),
         tx.state = "TX_IDLE" => t = tx,
         Owns(tx, call, itask) /\ call.pc \in Sending => Owns(t, call, itask),
         ~hist'.raced => ~hist.raced /\ (Arming => tx' = tx),
         ~hist'.lost => ~hist.lost
  PROVE  Whole'
<1> SUFFICES ASSUME ~hist'.raced, ~hist'.lost PROVE InOrder(call)'
  BY DEF Whole
<1>1. /\ ~hist.raced /\ Owns(tx, call, itask) /\ (Arming => tx' = tx) /\ InOrder(call)
      /\ UNCHANGED ecu
  BY DEF Own, Whole, Pump
<1>2. \/ UNCHANGED <<call, q_twai_tx>>
      \/ /\ call.pc \in Sending /\ t.state = "TX_SENDING_CF" /\ Owns(t, call, itask)
         /\ Enqueue(CfOf(t)) /\ call' = [call EXCEPT !.sent = SentAfter(CfOf(t))]
  BY <1>1, PumpSends
<1>3. CASE UNCHANGED <<call, q_twai_tx>>
  BY <1>1, <1>3 DEF InOrder
<1> QED
  BY <1>1, <1>2, <1>3, OrderSent

LEMMA WholeIterationFc == Base /\ Own /\ Whole /\ IterationFc => Whole'
<1> SUFFICES ASSUME Base, Own, Whole, IterationFc PROVE Whole'
  OBVIOUS
<1> DEFINE fc == Head(q_twai_rx)
           t == HandleFc(tx, fc)
<1>1. /\ ~itask.cf /\ q_twai_rx \in Seq(FcType) /\ q_twai_rx # <<>> /\ hist \in HistType
      /\ Pump(t)
  BY DEF IterationFc, Base, Types
<1>2. fc \in FcType
  BY <1>1, HeadTailProperties
<1>3. hist' = [hist EXCEPT !.raced = Raced, !.late = hist.late \/ (FcForUs(tx, fc) /\ fc.m # call.m)]
  BY DEF IterationFc
<1>4. (hist'.raced <=> Raced) /\ (hist'.lost <=> hist.lost)
  <2>1. Raced \in BOOLEAN
    BY <1>1 DEF Raced, HistType
  <2> QED
    BY <1>1, <1>3, <2>1 DEF HistType
<1> HIDE DEF fc
<1>5. ~hist'.raced => ~hist.raced /\ (Arming => tx' = tx)
  BY <1>4 DEF Raced
<1>6. tx.state = "TX_IDLE" => t = tx
  BY DEF HandleFc, FcForUs
<1>7. Owns(tx, call, itask) /\ call.pc \in Sending => Owns(t, call, itask)
  BY <1>1, <1>2, OwnHandled
<1>8. Entered(t)
  BY <1>1, <1>2, EnteredFc
<1> HIDE DEF t
<1> QED
  BY <1>1, <1>4, <1>5, <1>6, <1>7, <1>8, WholeIteration

LEMMA WholeIterationIdle == Base /\ Own /\ Whole /\ IterationIdle => Whole'
<1> SUFFICES ASSUME Base, Own, Whole, IterationIdle PROVE Whole'
  OBVIOUS
<1>1. ~itask.cf /\ hist \in HistType /\ Pump(tx) /\ hist' = [hist EXCEPT !.raced = Raced]
  BY DEF IterationIdle, Base, Types
<1>2. (hist'.raced <=> Raced) /\ (hist'.lost <=> hist.lost)
  <2>1. Raced \in BOOLEAN
    BY <1>1 DEF Raced, HistType
  <2> QED
    BY <1>1, <2>1 DEF HistType
<1>3. ~hist'.raced => ~hist.raced /\ (Arming => tx' = tx)
  BY <1>2 DEF Raced
<1> QED
  BY <1>1, <1>2, <1>3, EnteredSame, WholeIteration

LEMMA WholeCfUnblocked == Base /\ Own /\ Whole /\ CfUnblocked => Whole'
<1> SUFFICES ASSUME Base, Own, Whole, CfUnblocked, ~hist'.raced, ~hist'.lost
             PROVE  InOrder(call)'
  BY DEF Whole
<1>1. /\ itask.cf /\ Enqueue(itask.frame) /\ UNCHANGED ecu /\ hist \in HistType
      /\ call' = [call EXCEPT !.sent = SentAfter(itask.frame)]
  BY DEF CfUnblocked, Base, Types
<1>2. ~hist.raced /\ ~hist.lost /\ call.m = itask.call /\ call.pc = "wait"
  <2>1. (hist.raced \/ call.m # itask.call \/ call.pc # "wait") \in BOOLEAN
    BY <1>1 DEF HistType
  <2>2. hist' = [hist EXCEPT !.raced = hist.raced \/ call.m # itask.call \/ call.pc # "wait"]
    BY DEF CfUnblocked
  <2>3. /\ hist'.raced <=> hist.raced \/ call.m # itask.call \/ call.pc # "wait"
        /\ hist'.lost <=> hist.lost
    BY <1>1, <2>1, <2>2 DEF HistType
  <2> QED
    BY <2>3
<1>3. Owns(tx, call, itask) /\ call.pc \in Sending /\ InOrder(call)
  BY <1>2 DEF Own, Whole, Sending
<1>4. tx.state = "TX_SENDING_CF" /\ itask.frame = CfOf(tx)
  BY <1>1, <1>2, <1>3 DEF Owns, Underway
<1> QED
  BY <1>1, <1>3, <1>4, EnteredSame, OrderSent

LEMMA WholeSendSf == Base /\ Whole /\ SendSf => Whole'
<1> SUFFICES ASSUME Base, Whole, SendSf PROVE Whole'
  OBVIOUS
<1> DEFINE f == Frame("SF", Peer[call.who], call.m, 0, 0, call.len, call.len)
<1>1. /\ call.pc = "sf" /\ UNCHANGED <<ecu, hist>> /\ call \in CallType
      /\ \/ /\ Enqueue(f)
            /\ call' = [call EXCEPT !.pc = "return", !.ok = TRUE, !.sent = call.len]
         \/ UNCHANGED q_twai_tx /\ call' = [call EXCEPT !.pc = "return"]
  BY DEF SendSf, SendFrame, Base, Types
<1>2. call'.pc \notin Sending
  BY <1>1 DEF CallType, Sending
<1>3. CASE Enqueue(f)
  <2>1. f \in FrameType /\ f.to \in Ecus /\ f.pci = "SF"
    BY <1>1, SfTyped, Consts DEF Frame
  <2>2. Lined(q_twai_tx) /\ Awaited(q_twai_tx, ecu) =>
          Lined(q_twai_tx') /\ Awaited(q_twai_tx', ecu)
    <3> HIDE DEF f
    <3> QED
      BY <1>3, <2>1, LinedEnqueue
  <2>3. PICK q, d : q = q_twai_tx' /\ d = call'
    OBVIOUS
  <2>4. ~hist.raced /\ ~hist.lost =>
          /\ Lined(q) /\ Awaited(q, ecu) /\ Clean(ecu)
          /\ d.pc \in Sending => Ready(q, ecu, d.m, Peer[d.who], d.sent)
    BY <1>2, <2>2, <2>3 DEF Whole, InOrder
  <2> QED
    BY <1>1, <2>3, <2>4 DEF Whole, InOrder
<1>4. CASE UNCHANGED q_twai_tx
  BY <1>1, <1>2, <1>4, WholeStill
<1> QED
  BY <1>1, <1>3, <1>4

LEMMA WholeSendFf == Base /\ Whole /\ SendFf => Whole'
<1> SUFFICES ASSUME Base, Whole, SendFf PROVE Whole'
  OBVIOUS
<1> DEFINE f == Frame("FF", Peer[call.who], call.m, 0, 0, FFData, call.len)
<1>1. /\ call.pc = "ff" /\ UNCHANGED <<ecu, hist>> /\ call \in CallType
      /\ \/ Enqueue(f) /\ call' = [call EXCEPT !.pc = "wait", !.sent = FFData]
         \/ UNCHANGED q_twai_tx /\ call' = [call EXCEPT !.pc = "return"]
  BY DEF SendFf, SendFrame, Base, Types
<1>2. CASE Enqueue(f) /\ call' = [call EXCEPT !.pc = "wait", !.sent = FFData]
  <2>1. /\ f \in FrameType /\ f.to = Peer[call.who] /\ f.to \in Ecus /\ f.pci = "FF" /\ f.off = 0
        /\ f.n = FFData /\ f.m = call.m
    BY <1>1, FfTyped, Consts DEF Frame
  <2> HIDE DEF f
  <2>2. f.off + f.n = FFData /\ f.pci \in {"FF", "CF"}
    BY <2>1, Widths
  <2>3. PICK q, d : q = q_twai_tx' /\ d = call'
    OBVIOUS
  <2>4. Lined(q_twai_tx) /\ Awaited(q_twai_tx, ecu) =>
          Lined(q) /\ Awaited(q, ecu) /\ Ready(q, ecu, f.m, f.to, f.off + f.n)
    BY <1>2, <2>1, <2>2, <2>3, LinedEnqueue
  <2>5. d.m = call.m /\ d.who = call.who /\ d.sent = FFData
    BY <1>1, <1>2, <2>3 DEF CallType
  <2>6. ~hist.raced /\ ~hist.lost =>
          /\ Lined(q) /\ Awaited(q, ecu) /\ Clean(ecu)
          /\ d.pc \in Sending => Ready(q, ecu, d.m, Peer[d.who], d.sent)
    BY <2>1, <2>2, <2>4, <2>5 DEF Whole, InOrder
  <2> QED
    BY <1>1, <2>3, <2>6 DEF Whole, InOrder
<1>3. CASE UNCHANGED q_twai_tx /\ call' = [call EXCEPT !.pc = "return"]
  <2>1. call'.pc \notin Sending
    BY <1>1, <1>3 DEF CallType, Sending
  <2> QED
    BY <1>1, <1>3, <2>1, WholeStill
<1> QED
  BY <1>1, <1>2, <1>3

\* The ECU that gets the first frame of the queue joins nothing that does not belong to it,
\* and expects what goes on from there.
LEMMA Received ==
  ASSUME NEW r \in EcuType, NEW f \in FrameType, ~r.mixed, ~r.bad,
         f.pci = "FF" => f.off = 0,
         f.pci = "CF" => Expects(r, f.m, f.off)
  PROVE  /\ ~EcuReceive(r, f).mixed /\ ~EcuReceive(r, f).bad
         /\ f.pci \in {"FF", "CF"} => Expects(EcuReceive(r, f), f.m, f.off + f.n)
<1> DEFINE x == EcuReceive(r, f)
<1>1. \/ /\ f.pci = "FF" /\ x.st = "recv" /\ x.m = f.m /\ x.got = f.n /\ ~x.mixed
         /\ (x.bad <=> r.bad)
      \/ /\ f.pci = "CF" /\ r.st = "recv" /\ x.m = r.m /\ x.got = r.got + f.n
         /\ (x.mixed <=> r.mixed \/ f.m # r.m \/ f.off # r.got) /\ (x.bad <=> r.bad)
      \/ /\ f.pci = "CF" /\ r.st = "recv" /\ x.st = "idle"
         /\ (x.bad <=> r.bad \/ r.mixed \/ f.m # r.m \/ f.off # r.got) /\ ~x.mixed
      \/ x.st = "idle" /\ ~x.mixed /\ (x.bad <=> r.bad)
  BY EcuReceiveIs
<1>2. f.n \in Nat /\ f.off \in Nat
  BY FrameFields, Widths
<1> HIDE DEF x
<1>3. ~x.mixed /\ ~x.bad
  BY <1>1 DEF Expects
<1>4. f.pci = "FF" => Expects(x, f.m, f.off + f.n)
  BY <1>1, <1>2 DEF Expects
<1>5. f.pci = "CF" => Expects(x, f.m, f.off + f.n)
  BY <1>1 DEF Expects
<1> QED
  BY <1>3, <1>4, <1>5 DEF x

LEMMA WholeTwaiTransmit == Base /\ Whole /\ TwaiTransmit => Whole'
<1> SUFFICES ASSUME Base, Whole, TwaiTransmit, ~hist'.raced, ~hist'.lost PROVE InOrder(call)'
  BY DEF Whole
<1>1. /\ q_twai_tx # <<>> /\ q_twai_tx' = Tail(q_twai_tx) /\ UNCHANGED call
      /\ q_twai_tx \in Seq(FrameType) /\ hist \in HistType /\ ecu \in [Ecus -> EcuType]
  BY DEF TwaiTransmit, Base, Types
<1> DEFINE f == Head(q_twai_tx)
<1>2. UNCHANGED hist /\ ecu' = [e \in Ecus |-> IF e = f.to THEN EcuReceive(ecu[e], f) ELSE ecu[e]]
  <2>1. ~(hist' = [hist EXCEPT !.lost = TRUE])
    BY <1>1 DEF HistType
  <2> QED
    BY <2>1 DEF TwaiTransmit
<1>3. PICK q, r, E : q = q_twai_tx /\ r = Tail(q) /\ E = ecu'
  OBVIOUS
<1>4. PICK n : n \in Nat /\ n = Len(q)
  BY <1>1, <1>3, LenProperties
<1>5. /\ f \in FrameType /\ f = q[1] /\ r = q_twai_tx' /\ r \in Seq(FrameType) /\ Len(r) = n - 1
      /\ \A k \in 1..(n - 1) : r[k] = q[k + 1]
  <2>1. /\ Head(q) \in FrameType /\ Tail(q) \in Seq(FrameType) /\ Len(Tail(q)) = Len(q) - 1
        /\ \A k \in 1..Len(Tail(q)) : Tail(q)[k] = q[k + 1]
    BY <1>1, <1>3, HeadTailProperties
  <2>2. Head(q) = q[1]
    BY <1>1, <1>3
  <2> QED
    BY <1>1, <1>3, <1>4, <2>1, <2>2
<1>6. n # 0 /\ n >= 1
  BY <1>1, <1>3, <1>4, EmptySeq
<1> HIDE DEF f
<1>7. Lined(q) /\ Awaited(q, ecu) /\ Clean(ecu)
  BY <1>2, <1>3 DEF Whole, InOrder
<1>8. f.to \in Ecus /\ (f.pci = "FF" => f.off = 0) /\ (f.pci = "CF" => Expects(ecu[f.to], f.m, f.off))
  <2>1. 1 \in 1..Len(q)
    BY <1>4, <1>6
  <2> QED
    BY <1>1, <1>3, <1>5, <1>7, <2>1 DEF Lined, Awaited
<1>9. /\ E[f.to] = EcuReceive(ecu[f.to], f)
      /\ \A e \in Ecus : e # f.to => E[e] = ecu[e]
  BY <1>2, <1>3, <1>8
<1>10. /\ ~E[f.to].mixed /\ ~E[f.to].bad
       /\ f.pci \in {"FF", "CF"} => Expects(E[f.to], f.m, f.off + f.n)
  <2>1. ecu[f.to] \in EcuType /\ ~ecu[f.to].mixed /\ ~ecu[f.to].bad
    BY <1>1, <1>7, <1>8 DEF Clean
  <2> QED
    BY <1>5, <1>8, <1>9, <2>1, Received
<1>11. Clean(E)
  BY <1>7, <1>9, <1>10 DEF Clean
<1>12. ASSUME NEW m, NEW e, NEW off, Continues(f, m, e, off) PROVE Expects(E[e], m, off)
  BY <1>10, <1>12 DEF Continues
<1>13. Lined(r)
  <2>1. \A k \in 1..(n - 1) : k + 1 \in 1..n /\ r[k] = q[k + 1]
    BY <1>4, <1>5
  <2>2. \A k \in 1..(n - 1) : r[k].to \in Ecus /\ (r[k].pci = "FF" => r[k].off = 0)
    BY <1>4, <1>7, <2>1 DEF Lined
  <2>3. ASSUME NEW k \in 1..(n - 1 - 1), r[k + 1].pci = "CF"
        PROVE  Continues(r[k], r[k + 1].m, r[k + 1].to, r[k + 1].off)
    <3>1. PICK j \in 1..(n - 1) : j = k + 1
      BY <1>4
    <3>2. r[k] = q[j] /\ r[j] = q[j + 1]
      BY <1>4, <2>1, <3>1
    <3>3. q[j + 1].pci = "CF" => Continues(q[j], q[j + 1].m, q[j + 1].to, q[j + 1].off)
      BY <1>4, <1>7 DEF Lined
    <3> QED
      BY <2>3, <3>1, <3>2, <3>3
  <2> QED
    BY <1>5, <2>2, <2>3 DEF Lined
<1>14. Awaited(r, E)
  <2> SUFFICES ASSUME r # <<>>, r[1].pci = "CF" PROVE Expects(E[r[1].to], r[1].m, r[1].off)
    BY DEF Awaited
  <2>1. Len(r) # 0
    BY <1>5, EmptySeq
  <2>2. 1 \in 1..(n - 1) /\ 1 + 1 = 2
    BY <1>4, <1>5, <1>6, <2>1
  <2>3. r[1] = q[2]
    BY <1>5, <2>2
  <2>4. q[1 + 1].pci = "CF" => Continues(q[1], q[1 + 1].m, q[1 + 1].to, q[1 + 1].off)
    BY <1>4, <1>7, <2>2 DEF Lined
  <2> QED
    BY <1>5, <1>12, <2>2, <2>3, <2>4
<1>15. ASSUME NEW m, NEW e, NEW off, Ready(q, ecu, m, e, off) PROVE Ready(r, E, m, e, off)
  <2>1. Continues(q[n], m, e, off)
    BY <1>1, <1>3, <1>4, <1>15 DEF Ready
  <2>2. CASE r = <<>>
    <3>1. n = 1
      <4>1. Len(r) = 0
        BY <2>2
      <4>2. n \in Nat /\ n - 1 = 0
        BY <1>4, <1>5, <4>1
      <4> QED
        BY <4>2
    <3> QED
      BY <1>5, <1>12, <2>1, <2>2, <3>1 DEF Ready
  <2>3. CASE r # <<>>
    <3>1. PICK j \in 1..(n - 1) : j = n - 1 /\ j + 1 = n
      <4>1. Len(r) # 0
        BY <1>5, <2>3, EmptySeq
      <4> QED
        BY <1>4, <1>5, <1>6, <4>1
    <3>2. r[Len(r)] = q[n]
      BY <1>5, <3>1
    <3> QED
      BY <2>1, <2>3, <3>2 DEF Ready
  <2> QED
    BY <2>2, <2>3
<1>16. call.pc \in Sending => Ready(r, E, call.m, Peer[call.who], call.sent)
  BY <1>2, <1>3, <1>15 DEF Whole, InOrder
<1> QED
  BY <1>1, <1>3, <1>5, <1>11, <1>13, <1>14, <1>16 DEF InOrder

\* A Flow Control changes nothing of what the ECU has received.
LEMMA WholeEcuSendFc == ASSUME NEW e \in Ecus PROVE Base /\ Whole /\ EcuSendFc(e) => Whole'
<1> SUFFICES ASSUME Base, Whole, EcuSendFc(e), ~hist'.raced, ~hist'.lost PROVE InOrder(call)'
  BY DEF Whole
<1>1. Types
  BY DEF Base
<1>2. PICK E : E = ecu'
  OBVIOUS
<1>3. /\ UNCHANGED <<call, q_twai_tx, hist>>
      /\ \A x \in Ecus : x # e => E[x] = ecu[x]
      /\ (E[e].bad <=> ecu[e].bad) /\ (E[e].mixed => ecu[e].mixed)
      /\ E[e].st = "recv" => ecu[e].st = "recv" /\ E[e].m = ecu[e].m /\ E[e].got = ecu[e].got
  BY <1>1, <1>2, EcuSendFcIs
<1>4. InOrder(call)
  BY <1>3 DEF Whole
<1>5. ASSUME NEW x \in Ecus, NEW m, NEW off, Expects(ecu[x], m, off) PROVE Expects(E[x], m, off)
  BY <1>3, <1>5 DEF Expects
<1>6. Clean(E)
  BY <1>3, <1>4 DEF InOrder, Clean
<1>7. Awaited(q_twai_tx, E)
  <2> SUFFICES ASSUME q_twai_tx # <<>>, q_twai_tx[1].pci = "CF"
               PROVE  Expects(E[q_twai_tx[1].to], q_twai_tx[1].m, q_twai_tx[1].off)
    BY DEF Awaited
  <2>1. 1 \in 1..Len(q_twai_tx)
    BY <1>1, LenProperties, EmptySeq DEF Types
  <2>2. q_twai_tx[1].to \in Ecus
    BY <1>4, <2>1 DEF InOrder, Lined
  <2> QED
    BY <1>4, <1>5, <2>2 DEF InOrder, Awaited
<1>8. call.pc \in Sending => Ready(q_twai_tx, E, call.m, Peer[call.who], call.sent)
  <2> SUFFICES ASSUME call.pc \in Sending
               PROVE  Ready(q_twai_tx, E, call.m, Peer[call.who], call.sent)
    OBVIOUS
  <2>1. Peer[call.who] \in Ecus
    BY Waiter, Consts
  <2>2. Ready(q_twai_tx, ecu, call.m, Peer[call.who], call.sent)
    BY <1>4 DEF InOrder
  <2> QED
    BY <1>5, <2>1, <2>2 DEF Ready
<1> QED
  BY <1>2, <1>3, <1>4, <1>6, <1>7, <1>8 DEF InOrder

LEMMA WholeNext == Base /\ Own /\ Whole /\ [Next]_vars => Whole'
<1> SUFFICES ASSUME Base, Own, Whole, [Next]_vars PROVE Whole'
  OBVIOUS
<1>1. CASE IterationFc \/ IterationIdle \/ CfUnblocked
  BY <1>1, WholeIterationFc, WholeIterationIdle, WholeCfUnblocked
<1>2. CASE CfTimeout
  BY <1>2, WholeStill DEF CfTimeout
<1>3. CASE \E x \in Callers : Begin(x) \/ Lock(x)
  <2>1. ASSUME NEW x \in Callers, Begin(x) PROVE Whole'
    BY <2>1, WholeStill DEF Begin
  <2>2. ASSUME NEW x \in Callers, Lock(x) PROVE Whole'
    <3>1. call'.pc \notin Sending /\ UNCHANGED <<q_twai_tx, ecu, hist>>
      BY <2>2 DEF Lock, Sending
    <3> QED
      BY <3>1, WholeStill
  <2> QED
    BY <1>3, <2>1, <2>2
<1>4. CASE \/ Drain \/ Arm \/ StoreTxId \/ StoreRxId \/ StoreBuffer \/ StoreLength \/ StoreRest
           \/ StartWait \/ Finish
  <2>1. PICK pc, next, t : Step(pc, next, t) /\ next \in Pcs /\ next \notin Sending
    <3>1. \A x \in {"arm", "tx_id", "rx_id", "buffer", "length", "rest", "start", "ff", "return"} :
            x \in Pcs /\ x \notin Sending
      BY DEF Pcs, Sending
    <3> QED
      BY <1>4, <3>1 DEF Drain, Arm, StoreTxId, StoreRxId, StoreBuffer, StoreLength, StoreRest,
         StartWait, Finish
  <2> QED
    BY <2>1, WholeStep
<1>5. CASE SendSf \/ SendFf
  BY <1>5, WholeSendSf, WholeSendFf
<1>6. CASE WaitTaken \/ WaitTimeout
  <2>1. /\ call.pc \in Sending /\ call'.m = call.m /\ call'.who = call.who /\ call'.sent = call.sent
        /\ UNCHANGED <<q_twai_tx, ecu, hist>>
    BY <1>6 DEF WaitTaken, WaitTimeout, Base, Types, CallType, Sending
  <2> QED
    BY <2>1, WholeStill
<1>7. CASE Return
  <2>1. call'.pc \notin Sending /\ UNCHANGED <<q_twai_tx, ecu, hist>>
    BY <1>7 DEF Return, NoCall, Sending
  <2> QED
    BY <2>1, WholeStill
<1>8. CASE TwaiTransmit
  BY <1>8, WholeTwaiTransmit
<1>9. CASE \E e \in Ecus : EcuSendFc(e)
  BY <1>9, WholeEcuSendFc
<1>10. CASE Tick
  <2>1. /\ call'.pc = call.pc /\ call'.m = call.m /\ call'.who = call.who /\ call'.sent = call.sent
        /\ UNCHANGED <<q_twai_tx, ecu, hist>>
    BY <1>10 DEF Tick, Base, Types, CallType
  <2> QED
    BY <2>1, WholeStill
<1>11. CASE UNCHANGED vars
  BY <1>11, WholeStill DEF vars
<1> QED
  BY <1>1, <1>2, <1>3, <1>4, <1>5, <1>6, <1>7, <1>8, <1>9, <1>10, <1>11
     DEF Next, IsotpTask, IsotpSend

LEMMA InitWhole == Init => Whole
<1> SUFFICES ASSUME Init PROVE InOrder(call)
  BY DEF Whole
<1>1. q_twai_tx = <<>> /\ call.pc \notin Sending /\ ecu = [e \in Ecus |-> NoReception]
  BY DEF Init, NoCall, Sending
<1>2. Lined(<<>>) /\ Awaited(<<>>, ecu)
  BY DEF Lined, Awaited
<1>3. Clean(ecu)
  BY <1>1 DEF Clean, NoReception
<1> QED
  BY <1>1, <1>2, <1>3 DEF InOrder

LEMMA WholeAlways == Spec => [](Base /\ Own /\ Whole)
<1>1. Init => Base /\ Own /\ Whole
  BY InitBase, InitOwn, InitWhole
<1>2. Base /\ Own /\ Whole /\ [Next]_vars => (Base /\ Own /\ Whole)'
  BY BaseNext, OwnNext, WholeNext
<1> QED
  BY <1>1, <1>2, PTL DEF Spec

\* An ECU never completes a message out of the pieces of two, or out of order, whatever was
\* aborted, timed out or retried before - unless isotp_task wrote tx_state while a caller was
\* filling it, or the bus lost a frame.
THEOREM MessagesArriveWhole == Spec => []EcuIntegrity
<1>1. Whole => EcuIntegrity
  BY DEF Whole, InOrder, Clean, EcuIntegrity
<1> QED
  BY <1>1, WholeAlways, PTL

-----------------------------------------------------------------------------
(* When an ECU receives it *)

\* A message number that frames, Flow Controls and ECUs may bear: that of the call in progress
\* only once its first frame is in the queue.
Unsent == {"sf", "drain", "arm"} \cup Armed

Known(c, m) == IF c.pc \in Unsent THEN m < c.m ELSE m <= c.m

Numbered(q, p, E, c) ==
  /\ \A k \in 1..Len(q) : Known(c, q[k].m)
  /\ \A k \in 1..Len(p) : Known(c, p[k].m)
  /\ \A e \in Ecus : E[e].st = "recv" => Known(c, E[e].m)

\* A receiver takes the Consecutive Frame at off before it next asks for a pause.
Admits(r, off) == r.st = "recv" => ~r.owes /\ (r.left # 0 => off < r.got + CFData * r.left)

\* The Consecutive Frames of a queue are its first frames, all for one ECU, and admitted; only
\* the last of them may be short.
Train(q, E) ==
  \A k \in 1..Len(q) : q[k].pci = "CF" =>
    /\ Admits(E[q[k].to], q[k].off)
    /\ \A j \in 1..(k - 1) : q[j].pci = "CF" /\ q[j].n = CFData /\ q[j].to = q[k].to

Calm(E) == \A e \in Ecus : ~E[e].overrun /\ (E[e].owes => E[e].st = "recv")

\* The queue holds full Consecutive Frames of message m for e, or nothing.
AllFull(q, m, e) ==
  \A k \in 1..Len(q) : q[k].pci = "CF" /\ q[k].n = CFData /\ q[k].to = e /\ q[k].m = m

\* No Flow Control of e for m is waiting.
Unanswered(p, m, e) == \A k \in 1..Len(p) : ~(p[k].from = e /\ p[k].m = m)

\* A receiver that pauses n frames after the byte off.
PausesAt(r, off, n) ==
  r.st = "recv" => ~r.owes /\ r.left # 0 /\ r.got + CFData * r.left = off + CFData * n

\* A Clear To Send of e for m is the last thing e said, and speaks of the block it waits for.
Answers(p, m, e, r) ==
  \A k \in 1..Len(p) : p[k].from = e /\ p[k].m = m /\ p[k].fs = "CTS" =>
    /\ r.st = "recv" => ~r.owes /\ r.left = p[k].bs
    /\ \A j \in (k + 1)..Len(p) : ~(p[j].from = e /\ p[j].m = m)

\* The sender and the receiver of message m agree on the block.
SendsIn(t, q, p, r, m, e) ==
  t.state = "TX_SENDING_CF" =>
    /\ AllFull(q, m, e) /\ Unanswered(p, m, e)
    /\ IF t.bs = 0 THEN r.st = "recv" => ~r.owes /\ r.left = 0
       ELSE t.bs_counter < t.bs /\ PausesAt(r, t.offset, t.bs - t.bs_counter)

\* It waits while its First Frame is in the queue, the rest of a block is, or neither.
WaitsFirst(q, p, r, m, e) ==
  /\ q # <<>> /\ q[Len(q)].pci = "FF" /\ Unanswered(p, m, e)
  /\ r.st = "recv" => r.m # m
  /\ \A k \in 1..(Len(q) - 1) : q[k].m # m

WaitsBlock(t, q, p, r, m, e) ==
  q # <<>> /\ AllFull(q, m, e) /\ Unanswered(p, m, e) /\ PausesAt(r, t.offset, 0)

WaitsIn(t, q, p, r, m, e) ==
  t.state = "TX_WAIT_FC" =>
    \/ WaitsFirst(q, p, r, m, e)
    \/ WaitsBlock(t, q, p, r, m, e)
    \/ q = <<>> /\ Answers(p, m, e, r)

InPace(t, q, p, E, c) ==
  c.pc \in Sending =>
    /\ SendsIn(t, q, p, E[Peer[c.who]], c.m, Peer[c.who])
    /\ WaitsIn(t, q, p, E[Peer[c.who]], c.m, Peer[c.who])

Paced(t, q, p, E, c) == Numbered(q, p, E, c) /\ Train(q, E) /\ Calm(E) /\ InPace(t, q, p, E, c)

Clear(h) == ~h.raced /\ ~h.lost /\ ~h.late

Pace == Clear(hist) => Paced(tx, q_twai_tx, q_twai_rx, ecu, call)

LEMMA Nothing ==
  ASSUME NEW m, NEW e, NEW r, NEW E
  PROVE  Unanswered(<<>>, m, e) /\ Answers(<<>>, m, e, r) /\ AllFull(<<>>, m, e) /\ Train(<<>>, E)
BY DEF Unanswered, Answers, AllFull, Train

\* The parts of tx_state the pace depends on.
Alike(t, u) ==
  u.state = t.state /\ u.bs = t.bs /\ u.bs_counter = t.bs_counter /\ u.offset = t.offset

LEMMA PaceAlike ==
  ASSUME NEW t, NEW u, Alike(t, u), NEW q, NEW p, NEW E, NEW c, NEW d, InPace(t, q, p, E, c),
         d.pc \in Sending => c.pc \in Sending /\ d.m = c.m /\ d.who = c.who
  PROVE  InPace(u, q, p, E, d)
<1> SUFFICES ASSUME d.pc \in Sending PROVE InPace(u, q, p, E, d)
  BY DEF InPace
<1> DEFINE e == Peer[c.who]
           m == c.m
<1>1. SendsIn(t, q, p, E[e], m, e) /\ WaitsIn(t, q, p, E[e], m, e)
  BY DEF InPace
<1>2. e = Peer[d.who] /\ m = d.m
  OBVIOUS
<1> HIDE DEF e, m
<1>3. SendsIn(u, q, p, E[e], m, e)
  BY <1>1 DEF SendsIn, Alike
<1>4. WaitsIn(u, q, p, E[e], m, e)
  BY <1>1 DEF WaitsIn, WaitsBlock, Alike
<1> QED
  BY <1>2, <1>3, <1>4 DEF InPace

\* What is numbered for one state of the call is for the next.
LEMMA StillNumbered ==
  ASSUME Types, NEW c, NEW d, \A m \in Nat : Known(c, m) => Known(d, m),
         Numbered(q_twai_tx, q_twai_rx, ecu, c)
  PROVE  Numbered(q_twai_tx, q_twai_rx, ecu, d)
<1>1. MaxCalls \in Nat
  BY Consts
<1>2. \A k \in 1..Len(q_twai_tx) : q_twai_tx[k].m \in Nat
  <2>1. ASSUME NEW k \in 1..Len(q_twai_tx) PROVE q_twai_tx[k].m \in Nat
    <3>1. q_twai_tx[k] \in FrameType
      BY ElementOfSeq DEF Types
    <3>2. q_twai_tx[k].m \in 0..MaxCalls
      BY <3>1, FrameFields
    <3> QED
      BY <1>1, <3>2
  <2> QED
    BY <2>1
<1>3. \A k \in 1..Len(q_twai_rx) : q_twai_rx[k].m \in Nat
  <2>1. ASSUME NEW k \in 1..Len(q_twai_rx) PROVE q_twai_rx[k].m \in Nat
    <3>1. q_twai_rx[k] \in FcType
      BY ElementOfSeq DEF Types
    <3>2. q_twai_rx[k].m \in 0..MaxCalls
      BY <3>1 DEF FcType
    <3> QED
      BY <1>1, <3>2
  <2> QED
    BY <2>1
<1>4. \A e \in Ecus : ecu[e].m \in Nat
  <2>1. \A e \in Ecus : ecu[e].m \in 0..MaxCalls
    BY EcuFields DEF Types
  <2> QED
    BY <1>1, <2>1
<1> QED
  BY <1>2, <1>3, <1>4 DEF Numbered

LEMMA KnownMoves ==
  ASSUME NEW c \in CallType, NEW d \in CallType,
         \/ d.m = c.m /\ (d.pc \in Unsent => c.pc \in Unsent)
         \/ d.m = c.m + 1
  PROVE  \A m \in Nat : Known(c, m) => Known(d, m)
<1>1. MaxCalls \in Nat /\ c.m \in 0..MaxCalls /\ d.m \in 0..MaxCalls
  BY Consts, CallFields
<1>2. c.m \in Nat /\ d.m \in Nat
  BY <1>1
<1> QED
  BY <1>2 DEF Known

\* Where only the caller moves, and not to its wait, the pace is kept.
LEMMA PaceStill ==
  ASSUME Base, Pace, UNCHANGED <<q_twai_tx, q_twai_rx, ecu>>, Clear(hist') => Clear(hist),
         call' \in CallType,
         \/ call'.m = call.m /\ (call'.pc \in Unsent => call.pc \in Unsent)
         \/ call'.m = call.m + 1,
         call'.pc \in Sending => /\ call.pc \in Sending /\ call'.m = call.m
                                 /\ call'.who = call.who /\ Alike(tx, tx')
  PROVE  Pace'
<1> SUFFICES ASSUME Clear(hist') PROVE Paced(tx', q_twai_tx', q_twai_rx', ecu', call')
  BY DEF Pace
<1>1. Types /\ call \in CallType
  BY DEF Base, Types
<1>2. Paced(tx, q_twai_tx, q_twai_rx, ecu, call)
  BY DEF Pace
<1>3. PICK d, u : d = call' /\ u = tx'
  OBVIOUS
<1>4. Numbered(q_twai_tx, q_twai_rx, ecu, d)
  <2>1. \A m \in Nat : Known(call, m) => Known(d, m)
    BY <1>1, <1>3, KnownMoves
  <2> QED
    BY <1>1, <1>2, <2>1, StillNumbered DEF Paced
<1>5. InPace(u, q_twai_tx, q_twai_rx, ecu, d)
  <2>1. CASE d.pc \in Sending
    BY <1>2, <1>3, <2>1, PaceAlike DEF Paced
  <2>2. CASE d.pc \notin Sending
    BY <2>2 DEF InPace
  <2> QED
    BY <2>1, <2>2
<1>6. Paced(u, q_twai_tx, q_twai_rx, ecu, d)
  BY <1>2, <1>4, <1>5 DEF Paced
<1> QED
  BY <1>3, <1>6

\* Queue r is q with f at its end.
Longer(r, q, f) == Len(r) = Len(q) + 1 /\ (\A k \in 1..Len(q) : r[k] = q[k]) /\ r[Len(q) + 1] = f

\* A frame that is no Consecutive Frame, or one more of those the queue holds, keeps the train.
LEMMA TrainEnqueue ==
  ASSUME NEW q \in Seq(FrameType), NEW E, Train(q, E), NEW f, NEW r,
         Longer(r, q, f),
         f.pci = "CF" => AllFull(q, f.m, f.to) /\ Admits(E[f.to], f.off)
  PROVE  Train(r, E)
<1>1. PICK n : n \in Nat /\ n = Len(q)
  BY LenProperties
<1>2. /\ n \in Nat /\ Len(r) = n + 1 /\ (\A k \in 1..n : r[k] = q[k]) /\ r[n + 1] = f
  BY <1>1 DEF Longer
<1>3. ASSUME NEW k \in 1..(n + 1), r[k].pci = "CF"
      PROVE  /\ Admits(E[r[k].to], r[k].off)
             /\ \A j \in 1..(k - 1) : r[j].pci = "CF" /\ r[j].n = CFData /\ r[j].to = r[k].to
  <2>1. CASE k = n + 1
    <3>1. r[k] = f /\ \A j \in 1..(k - 1) : j \in 1..n /\ r[j] = q[j]
      BY <1>1, <1>2, <2>1
    <3>2. AllFull(q, f.m, f.to) /\ Admits(E[f.to], f.off)
      BY <1>3, <3>1
    <3> QED
      BY <1>1, <1>2, <3>1, <3>2 DEF AllFull
  <2>2. CASE k # n + 1
    <3>1. k \in 1..n /\ \A j \in 1..(k - 1) : j \in 1..n
      BY <1>2, <2>2
    <3>2. r[k] = q[k] /\ \A j \in 1..(k - 1) : r[j] = q[j]
      BY <1>1, <1>2, <3>1
    <3> QED
      BY <1>1, <1>3, <3>1, <3>2 DEF Train
  <2> QED
    BY <2>1, <2>2
<1> QED
  BY <1>1, <1>2, <1>3 DEF Train

LEMMA NumberedEnqueue ==
  ASSUME NEW q \in Seq(FrameType), NEW p, NEW E, NEW c, Numbered(q, p, E, c), NEW f, NEW r,
         Longer(r, q, f), Known(c, f.m)
  PROVE  Numbered(r, p, E, c)
<1>1. PICK n : n \in Nat /\ n = Len(q)
  BY LenProperties
<1>2. /\ n \in Nat /\ Len(r) = n + 1 /\ (\A k \in 1..n : r[k] = q[k]) /\ r[n + 1] = f
  BY <1>1 DEF Longer
<1>3. \A k \in 1..(n + 1) : k \in 1..n \/ k = n + 1
  BY <1>2
<1>4. \A k \in 1..(n + 1) : Known(c, r[k].m)
  BY <1>1, <1>2, <1>3 DEF Numbered
<1> QED
  BY <1>1, <1>2, <1>4 DEF Numbered

LEMMA FullEnqueue ==
  ASSUME NEW q \in Seq(FrameType), NEW m, NEW e, AllFull(q, m, e), NEW f, NEW r,
         Longer(r, q, f),
         f.pci = "CF", f.n = CFData, f.to = e, f.m = m
  PROVE  AllFull(r, m, e)
<1>1. PICK n : n \in Nat /\ n = Len(q)
  BY LenProperties
<1>2. /\ n \in Nat /\ Len(r) = n + 1 /\ (\A k \in 1..n : r[k] = q[k]) /\ r[n + 1] = f
  BY <1>1 DEF Longer
<1>3. \A k \in 1..(n + 1) : k \in 1..n \/ k = n + 1
  BY <1>2
<1> QED
  BY <1>1, <1>2, <1>3 DEF AllFull

\* A frame that does not end the message is full.
LEMMA ChunkFills ==
  ASSUME NEW t \in TxType, t.offset < t.length, t.offset + Chunk(t) < t.length
  PROVE  Chunk(t) = CFData
<1>1. t.offset \in Nat /\ t.offset < U16 /\ t.length \in Nat /\ t.length <= MaxLen
  BY TxFields
<1> DEFINE r == (t.length - t.offset) % U16
<1>2. CFData \in Nat /\ CFData > 0 /\ U16 \in Nat /\ U16 # 0 /\ MaxLen \in Nat /\ MaxLen < U16
  BY Widths
<1>3. t.length - t.offset \in Int /\ t.length - t.offset >= 0 /\ t.length - t.offset < U16
  BY <1>1, <1>2
<1>4. r = t.length - t.offset
  BY <1>2, <1>3, ModIs
<1>5. Chunk(t) = IF r > CFData THEN CFData ELSE r
  BY DEF Chunk
<1> HIDE DEF r
<1> QED
  BY <1>1, <1>2, <1>4, <1>5

LEMMA Byte == \A x \in 0..255 : x \in Nat /\ x <= 255
OBVIOUS

\* What is left of a block of b frames, k of them sent, after one more.
LEMMA Pausing ==
  ASSUME NEW b \in Nat, NEW k \in Nat, NEW x \in Nat, NEW g \in Nat, NEW o \in Nat, k < b,
         g + CFData * x = o + CFData * (b - k)
  PROVE  /\ o < g + CFData * x
         /\ b - k = 1 => g + CFData * x = o + CFData + CFData * 0
         /\ g + CFData * x = o + CFData + CFData * (b - (k + 1))
<1>1. CFData = 7
  BY DEF CFData
<1>2. b - k >= 1 /\ b - (k + 1) = (b - k) - 1
  OBVIOUS
<1>3. PICK n \in Nat : n = b - k
  BY <1>2
<1>4. g + 7 * x = o + 7 * n /\ n >= 1
  BY <1>1, <1>2, <1>3
<1>5. g + 7 * x = o + 7 + 7 * (n - 1) /\ o < g + 7 * x /\ (n = 1 => g + 7 * x = o + 7 + 7 * 0)
  BY <1>4
<1> QED
  BY <1>1, <1>2, <1>3, <1>5

\* The frame sent is one the receiver admits, and after it the two still agree: on the same
\* block, or, at its end, on the pause.
LEMMA PaceSent ==
  ASSUME NEW t \in TxType, NEW q \in Seq(FrameType), NEW p, NEW r \in EcuType, NEW m, NEW e,
         t.state = "TX_SENDING_CF", SendsIn(t, q, p, r, m, e),
         t.offset < t.length, t.offset + Chunk(t) < U16,
         CfOf(t).to = e, CfOf(t).m = m, NEW s, Longer(s, q, CfOf(t))
  PROVE  /\ AllFull(q, m, e) /\ Admits(r, t.offset)
         /\ SendsIn(AfterCf(t, Chunk(t)), s, p, r, m, e)
         /\ WaitsIn(AfterCf(t, Chunk(t)), s, p, r, m, e)
<1> DEFINE a == AfterCf(t, Chunk(t))
           f == CfOf(t)
<1>1. /\ AllFull(q, m, e) /\ Unanswered(p, m, e)
      /\ t.bs = 0 => (r.st = "recv" => ~r.owes /\ r.left = 0)
      /\ t.bs # 0 => t.bs_counter < t.bs /\ PausesAt(r, t.offset, t.bs - t.bs_counter)
  BY DEF SendsIn
<1>2. /\ t.offset \in Nat /\ t.length \in Nat /\ t.bs \in 0..255 /\ t.bs_counter \in 0..255
      /\ t.bs \in Nat /\ t.bs_counter \in Nat /\ r.left \in Nat /\ r.got \in Nat
  <2>1. /\ t.offset \in Nat /\ t.length \in Nat /\ t.bs \in 0..255 /\ t.bs_counter \in 0..255
        /\ r.left \in 0..255 /\ r.got \in Nat
    BY TxFields, EcuFields
  <2> QED
    BY <2>1, Byte
<1>3. Chunk(t) \in 0..CFData /\ Chunk(t) \in Nat
  BY ChunkIs, Widths
<1>4. /\ a.offset = t.offset + Chunk(t) /\ a.bs = t.bs /\ a.bs_counter = (t.bs_counter + 1) % 256
      /\ IF t.offset + Chunk(t) >= t.length THEN a.state = "TX_DONE"
         ELSE IF BlockFull(a) THEN a.state = "TX_WAIT_FC" ELSE a.state = t.state
  BY <1>3, AfterCfIs
<1>5. f.pci = "CF" /\ f.n = Chunk(t)
  BY CfOfTyped
<1> HIDE DEF a, f
<1>6. Admits(r, t.offset)
  <2> SUFFICES ASSUME r.st = "recv", t.bs # 0
               PROVE  ~r.owes /\ t.offset < r.got + CFData * r.left
    BY <1>1 DEF Admits
  <2>1. /\ ~r.owes /\ t.bs_counter < t.bs
        /\ r.got + CFData * r.left = t.offset + CFData * (t.bs - t.bs_counter)
    BY <1>1 DEF PausesAt
  <2> QED
    BY <1>2, <2>1, Pausing
<1>7. CASE t.offset + Chunk(t) >= t.length
  <2>1. a.state = "TX_DONE"
    BY <1>4, <1>7
  <2>2. SendsIn(a, s, p, r, m, e) /\ WaitsIn(a, s, p, r, m, e)
    BY <2>1 DEF SendsIn, WaitsIn
  <2> QED
    BY <1>1, <1>6, <2>2 DEF a
<1>8. CASE ~(t.offset + Chunk(t) >= t.length)
  <2>1. Chunk(t) = CFData
    <3>1. t.offset + Chunk(t) < t.length
      BY <1>2, <1>3, <1>8
    <3> QED
      BY <3>1, ChunkFills
  <2>2. AllFull(s, m, e)
    BY <1>1, <1>5, <2>1, FullEnqueue DEF f
  <2>3. s # <<>>
    <3>1. Len(q) \in Nat
      BY LenProperties
    <3>2. Len(s) # 0
      BY <3>1 DEF Longer
    <3> QED
      BY <3>2
  <2>4. a.offset = t.offset + CFData
    BY <1>4, <2>1
  <2>5. CASE t.bs = 0
    <3>1. a.state = "TX_SENDING_CF" /\ a.bs = 0
      BY <1>4, <1>8, <2>5 DEF BlockFull
    <3>2. SendsIn(a, s, p, r, m, e)
      BY <1>1, <2>2, <2>5, <3>1 DEF SendsIn
    <3>3. WaitsIn(a, s, p, r, m, e)
      BY <3>1 DEF WaitsIn
    <3> QED
      BY <1>1, <1>6, <3>2, <3>3 DEF a
  <2>6. CASE t.bs # 0
    <3>1. PICK b, k, x, g, o :
            b = t.bs /\ k = t.bs_counter /\ x = r.left /\ g = r.got /\ o = t.offset
      OBVIOUS
    <3>6. /\ b \in Nat /\ k \in Nat /\ x \in Nat /\ g \in Nat /\ o \in Nat
          /\ b <= 255 /\ k < b
      <4>1. b <= 255
        BY <1>2, <3>1, Byte
      <4> QED
        BY <1>1, <1>2, <2>6, <3>1, <4>1
    <3>2. a.bs_counter = k + 1 /\ a.bs = b /\ b # 0
      <4>1. (k + 1) % 256 = k + 1
        BY <3>6
      <4> QED
        BY <1>4, <2>6, <3>1, <3>6, <4>1
    <3>3. r.st = "recv" => ~r.owes /\ x # 0 /\ g + CFData * x = o + CFData * (b - k)
      BY <1>1, <2>6, <3>1 DEF PausesAt
    <3>4. CASE k + 1 >= b
      <4>1. b - k = 1
        BY <3>4, <3>6
      <4>2. a.state = "TX_WAIT_FC"
        BY <1>4, <1>8, <3>2, <3>4 DEF BlockFull
      <4>3. PausesAt(r, a.offset, 0)
        <5>1. r.st = "recv" => g + CFData * x = o + CFData + CFData * 0
          <6> SUFFICES ASSUME r.st = "recv" PROVE g + CFData * x = o + CFData + CFData * 0
            OBVIOUS
          <6>1. k < b /\ g + CFData * x = o + CFData * (b - k)
            BY <3>3, <3>6
          <6> QED
            BY <3>6, <4>1, <6>1 DEF CFData
        <5> QED
          BY <2>4, <3>1, <3>3, <5>1 DEF PausesAt
      <4>4. WaitsBlock(a, s, p, r, m, e)
        BY <1>1, <2>2, <2>3, <4>3 DEF WaitsBlock
      <4>5. SendsIn(a, s, p, r, m, e) /\ WaitsIn(a, s, p, r, m, e)
        BY <4>2, <4>4 DEF SendsIn, WaitsIn
      <4> QED
        BY <1>1, <1>6, <4>5 DEF a
    <3>5. CASE ~(k + 1 >= b)
      <4>1. k + 1 < b
        BY <3>5, <3>6
      <4>2. a.state = "TX_SENDING_CF" /\ a.bs_counter < a.bs /\ a.bs # 0
        BY <1>4, <1>8, <3>2, <3>5, <4>1 DEF BlockFull
      <4>3. PausesAt(r, a.offset, a.bs - a.bs_counter)
        <5>1. r.st = "recv" => g + CFData * x = o + CFData + CFData * (b - (k + 1))
          <6> SUFFICES ASSUME r.st = "recv"
                       PROVE  g + CFData * x = o + CFData + CFData * (b - (k + 1))
            OBVIOUS
          <6>1. k < b /\ g + CFData * x = o + CFData * (b - k)
            BY <3>3, <3>6
          <6> QED
            BY <3>6, <6>1 DEF CFData
        <5> QED
          BY <2>4, <3>1, <3>2, <3>3, <5>1 DEF PausesAt
      <4>4. SendsIn(a, s, p, r, m, e)
        BY <1>1, <2>2, <4>2, <4>3 DEF SendsIn
      <4>5. WaitsIn(a, s, p, r, m, e)
        BY <4>2 DEF WaitsIn
      <4> QED
        BY <1>1, <1>6, <4>4, <4>5 DEF a
    <3> QED
      BY <3>4, <3>5
  <2> QED
    BY <2>5, <2>6
<1> QED
  BY <1>7, <1>8

\* A call that waits has been numbered like its frames.
LEMMA SentKnown ==
  ASSUME NEW c \in CallType, c.pc \in Sending PROVE Known(c, c.m)
<1>1. c.m \in 0..MaxCalls /\ MaxCalls \in Nat /\ c.pc \notin Unsent
  BY CallFields, Consts, Where DEF Unsent, Sending, Armed
<1> QED
  BY <1>1 DEF Known

\* The next frame of the call that waits is sent in pace.
LEMMA PaceSends ==
  ASSUME Base, NEW t, Entered(t), Owns(t, call, itask), call.pc \in Sending,
         t.state = "TX_SENDING_CF", Enqueue(CfOf(t)), NEW p,
         Paced(t, q_twai_tx, p, ecu, call), NEW d, d.pc = call.pc, d.m = call.m, d.who = call.who
  PROVE  Paced(AfterCf(t, Chunk(t)), q_twai_tx', p, ecu, d)
<1> DEFINE f == CfOf(t)
           a == AfterCf(t, Chunk(t))
<1>1. Types /\ t \in TxType /\ call \in CallType /\ t.buffer = tx.buffer /\ t.length = tx.length
  BY DEF Entered, Base, Types
<1>2. PICK q, s, e, m : q = q_twai_tx /\ s = q_twai_tx' /\ e = Peer[call.who] /\ m = call.m
  OBVIOUS
<1>3. f \in FrameType /\ f.pci = "CF" /\ f.to = t.tx_id /\ f.m = t.buffer /\ f.off = t.offset
  BY <1>1, CfOfTyped
<1>4. f.to = e /\ f.m = m /\ e \in Ecus /\ t.offset < t.length
  BY <1>1, <1>2, <1>3, Waiter, Consts DEF Owns, Underway
<1>5. q \in Seq(FrameType) /\ Longer(s, q, f)
  BY <1>1, <1>2, <1>3, Enqueues DEF Types, Longer
<1>6. t.offset + Chunk(t) < U16
  <2>1. t.offset \in Nat /\ t.length \in Nat /\ t.length <= MaxLen
    BY <1>1, Numbers
  <2>2. Chunk(t) \in 0..CFData
    BY <1>1, ChunkIs
  <2>3. MaxLen \in Nat /\ CFData \in Nat /\ U16 \in Nat /\ MaxLen + 3 * CFData < U16
    BY Widths
  <2> HIDE DEF f, a
  <2> QED
    BY <1>4, <2>1, <2>2, <2>3
<1>7. /\ Numbered(q, p, ecu, call) /\ Train(q, ecu) /\ Calm(ecu)
      /\ SendsIn(t, q, p, ecu[e], m, e)
  BY <1>2 DEF Paced, InPace
<1>8. ecu[e] \in EcuType
  BY <1>1, <1>4 DEF Types
<1>9. /\ AllFull(q, m, e) /\ Admits(ecu[e], t.offset)
      /\ SendsIn(a, s, p, ecu[e], m, e) /\ WaitsIn(a, s, p, ecu[e], m, e)
  <2> PICK r : r = ecu[e]
    OBVIOUS
  <2>1. r \in EcuType /\ SendsIn(t, q, p, r, m, e)
    BY <1>7, <1>8
  <2>2. CfOf(t).to = e /\ CfOf(t).m = m /\ Longer(s, q, CfOf(t))
    BY <1>4, <1>5
  <2>3. /\ AllFull(q, m, e) /\ Admits(r, t.offset)
        /\ SendsIn(AfterCf(t, Chunk(t)), s, p, r, m, e)
        /\ WaitsIn(AfterCf(t, Chunk(t)), s, p, r, m, e)
    <3> HIDE DEF f, a
    <3> QED
      <4>1. /\ t \in TxType /\ q \in Seq(FrameType) /\ r \in EcuType
            /\ t.state = "TX_SENDING_CF" /\ SendsIn(t, q, p, r, m, e)
            /\ t.offset < t.length /\ t.offset + Chunk(t) < U16
            /\ CfOf(t).to = e /\ CfOf(t).m = m
            /\ Longer(s, q, CfOf(t))
        BY <1>1, <1>4, <1>5, <1>6, <2>1, <2>2
      <4> QED
        BY <4>1, PaceSent
  <2> QED
    BY <2>3
<1> HIDE DEF f, a
<1>10. Train(s, ecu)
  BY <1>3, <1>4, <1>5, <1>7, <1>9, TrainEnqueue
<1>11. Numbered(s, p, ecu, call)
  <2>1. Known(call, f.m)
    BY <1>1, <1>2, <1>4, SentKnown
  <2> QED
    BY <1>5, <1>7, <2>1, NumberedEnqueue
<1>12. Numbered(s, p, ecu, d)
  BY <1>11 DEF Numbered, Known
<1>13. InPace(a, s, p, ecu, d)
  BY <1>2, <1>9 DEF InPace
<1> QED
  BY <1>2, <1>7, <1>10, <1>12, <1>13 DEF Paced, a

\* A Flow Control that is taken from the queue leaves the others.
LEMMA TailIs ==
  ASSUME NEW T, NEW p \in Seq(T), p # <<>>
  PROVE  /\ Tail(p) \in Seq(T) /\ Head(p) \in T /\ Head(p) = p[1] /\ Len(p) \in Nat /\ Len(p) >= 1
         /\ Len(Tail(p)) = Len(p) - 1 /\ \A k \in 1..(Len(p) - 1) : Tail(p)[k] = p[k + 1]
<1>1. /\ Head(p) \in T /\ Tail(p) \in Seq(T) /\ Len(Tail(p)) = Len(p) - 1
      /\ \A k \in 1..Len(Tail(p)) : Tail(p)[k] = p[k + 1]
  BY HeadTailProperties
<1>2. Head(p) = p[1]
  OBVIOUS
<1>3. Len(p) \in Nat /\ Len(p) # 0
  BY LenProperties, EmptySeq
<1>4. Len(p) >= 1
  BY <1>3
<1> QED
  BY <1>1, <1>2, <1>3, <1>4

LEMMA FcTaken ==
  ASSUME NEW p \in Seq(FcType), p # <<>>, NEW m, NEW e, NEW r
  PROVE  /\ Unanswered(p, m, e) =>
              Unanswered(Tail(p), m, e) /\ ~(Head(p).from = e /\ Head(p).m = m)
         /\ Answers(p, m, e, r) => Answers(Tail(p), m, e, r)
         /\ Answers(p, m, e, r) /\ Head(p).from = e /\ Head(p).m = m /\ Head(p).fs = "CTS" =>
              /\ Unanswered(Tail(p), m, e)
              /\ r.st = "recv" => ~r.owes /\ r.left = Head(p).bs
<1>1. PICK n, s : n = Len(p) /\ s = Tail(p)
  OBVIOUS
<1>2. /\ Head(p) = p[1] /\ n \in Nat /\ n >= 1 /\ Len(s) = n - 1
      /\ \A k \in 1..(n - 1) : s[k] = p[k + 1]
  BY <1>1, TailIs
<1>3. 1 \in 1..n /\ \A k \in 1..(n - 1) : k + 1 \in 1..n /\ k + 1 \in (1 + 1)..n
  BY <1>2
<1>4. Unanswered(p, m, e) => Unanswered(s, m, e) /\ ~(p[1].from = e /\ p[1].m = m)
  BY <1>1, <1>2, <1>3 DEF Unanswered
<1>5. ASSUME Answers(p, m, e, r) PROVE Answers(s, m, e, r)
  <2> SUFFICES ASSUME NEW k \in 1..(n - 1), s[k].from = e, s[k].m = m, s[k].fs = "CTS"
               PROVE  /\ r.st = "recv" => ~r.owes /\ r.left = s[k].bs
                      /\ \A j \in (k + 1)..(n - 1) : ~(s[j].from = e /\ s[j].m = m)
    BY <1>2 DEF Answers
  <2>1. PICK i \in 1..n : i = k + 1 /\ s[k] = p[i]
    BY <1>2, <1>3
  <2>2. /\ r.st = "recv" => ~r.owes /\ r.left = p[i].bs
        /\ \A j \in (i + 1)..n : ~(p[j].from = e /\ p[j].m = m)
    BY <1>1, <1>5, <2>1 DEF Answers
  <2>3. ASSUME NEW j \in (k + 1)..(n - 1) PROVE ~(s[j].from = e /\ s[j].m = m)
    <3>1. n \in Nat /\ k \in Nat /\ k >= 1 /\ j \in Int /\ j >= k + 1 /\ j <= n - 1
      BY <1>2
    <3>2. j \in 1..(n - 1) /\ j + 1 \in (i + 1)..n
      BY <2>1, <3>1
    <3> QED
      BY <1>2, <2>2, <3>2
  <2> QED
    BY <2>1, <2>2, <2>3
<1>6. Answers(p, m, e, r) /\ p[1].from = e /\ p[1].m = m /\ p[1].fs = "CTS" =>
        /\ Unanswered(s, m, e)
        /\ r.st = "recv" => ~r.owes /\ r.left = p[1].bs
  <2> SUFFICES ASSUME Answers(p, m, e, r), p[1].from = e, p[1].m = m, p[1].fs = "CTS"
               PROVE  /\ Unanswered(s, m, e)
                      /\ r.st = "recv" => ~r.owes /\ r.left = p[1].bs
    OBVIOUS
  <2>1. /\ r.st = "recv" => ~r.owes /\ r.left = p[1].bs
        /\ \A j \in (1 + 1)..n : ~(p[j].from = e /\ p[j].m = m)
    BY <1>1, <1>3 DEF Answers
  <2>2. Unanswered(s, m, e)
    BY <1>2, <1>3, <2>1 DEF Unanswered
  <2> QED
    BY <2>1, <2>2
<1> QED
  BY <1>1, <1>2, <1>4, <1>5, <1>6

\* handle_fc on the answer to this message: Clear To Send grants the block the receiver waits
\* for.
LEMMA PaceHandled ==
  ASSUME NEW t \in TxType, NEW q, NEW p \in Seq(FcType), p # <<>>, NEW r \in EcuType, NEW m, NEW e,
         t.rx_id = e, FcForUs(t, Head(p)) => Head(p).m = m,
         t.state = "TX_WAIT_FC" => t.wait_fc_count <= FcWaitMax + 1,
         q = <<>> => Expects(r, m, t.offset),
         SendsIn(t, q, p, r, m, e), WaitsIn(t, q, p, r, m, e)
  PROVE  /\ SendsIn(HandleFc(t, Head(p)), q, Tail(p), r, m, e)
         /\ WaitsIn(HandleFc(t, Head(p)), q, Tail(p), r, m, e)
<1>1. PICK fc, s : fc = Head(p) /\ s = Tail(p)
  OBVIOUS
<1>2. fc \in FcType
  BY <1>1, TailIs
<1> DEFINE h == HandleFc(t, fc)
<1>3. /\ h.offset = t.offset
      /\ \/ h = t
         \/ /\ t.state = "TX_WAIT_FC" /\ fc.from = t.rx_id
            /\ \/ /\ fc.fs = "CTS" /\ h.state = "TX_SENDING_CF" /\ h.bs = fc.bs /\ h.bs_counter = 0
               \/ h.state = "TX_WAIT_FC"
               \/ h.state = "TX_ERROR"
  BY <1>2, HandleFcIs
<1>4. /\ Unanswered(p, m, e) => Unanswered(s, m, e) /\ ~(fc.from = e /\ fc.m = m)
      /\ Answers(p, m, e, r) => Answers(s, m, e, r)
      /\ Answers(p, m, e, r) /\ fc.from = e /\ fc.m = m /\ fc.fs = "CTS" =>
           Unanswered(s, m, e) /\ (r.st = "recv" => ~r.owes /\ r.left = fc.bs)
  BY <1>1, FcTaken
<1> HIDE DEF h
<1>5. SendsIn(t, q, s, r, m, e) /\ WaitsIn(t, q, s, r, m, e)
  BY <1>4 DEF SendsIn, WaitsIn, WaitsFirst, WaitsBlock
<1>6. CASE h = t
  BY <1>1, <1>5, <1>6 DEF h
<1>7. CASE t.state = "TX_WAIT_FC" /\ h.state = "TX_WAIT_FC"
  <2>1. SendsIn(h, q, s, r, m, e)
    BY <1>7 DEF SendsIn
  <2>2. WaitsIn(h, q, s, r, m, e)
    BY <1>3, <1>5, <1>7 DEF WaitsIn, WaitsBlock
  <2> QED
    BY <1>1, <2>1, <2>2 DEF h
<1>8. CASE h.state = "TX_ERROR"
  <2>1. SendsIn(h, q, s, r, m, e) /\ WaitsIn(h, q, s, r, m, e)
    BY <1>8 DEF SendsIn, WaitsIn
  <2> QED
    BY <1>1, <2>1 DEF h
<1>9. CASE /\ t.state = "TX_WAIT_FC" /\ fc.from = t.rx_id
           /\ fc.fs = "CTS" /\ h.state = "TX_SENDING_CF" /\ h.bs = fc.bs /\ h.bs_counter = 0
  <2>1. fc.from = e /\ fc.m = m
    BY <1>1, <1>9 DEF FcForUs
  <2>2. q = <<>> /\ Answers(p, m, e, r)
    BY <1>4, <1>9, <2>1 DEF WaitsIn, WaitsFirst, WaitsBlock
  <2>3. /\ AllFull(q, m, e) /\ Unanswered(s, m, e)
        /\ r.st = "recv" => ~r.owes /\ r.left = fc.bs /\ r.got = t.offset
    BY <1>4, <1>9, <2>1, <2>2, Nothing DEF Expects
  <2>4. fc.bs \in 0..255 /\ fc.bs \in Nat /\ r.got \in Nat
    <3>1. fc.bs \in 0..255
      BY <1>2 DEF FcType
    <3> QED
      BY <3>1, Byte, EcuFields
  <2>5. CASE h.bs = 0
    BY <1>1, <1>9, <2>3, <2>5 DEF SendsIn, WaitsIn, h
  <2>6. CASE h.bs # 0
    <3>1. h.bs_counter < h.bs
      BY <1>9, <2>4, <2>6
    <3>2. h.bs - h.bs_counter = fc.bs
      BY <1>9, <2>4
    <3>3. PausesAt(r, h.offset, h.bs - h.bs_counter)
      BY <1>3, <1>9, <2>3, <2>6, <3>2 DEF PausesAt
    <3>4. SendsIn(h, q, s, r, m, e)
      BY <2>3, <2>6, <3>1, <3>3 DEF SendsIn
    <3>5. WaitsIn(h, q, s, r, m, e)
      BY <1>9 DEF WaitsIn
    <3> QED
      BY <1>1, <3>4, <3>5 DEF h
  <2> QED
    BY <2>5, <2>6
<1> QED
  BY <1>3, <1>6, <1>7, <1>8, <1>9

\* N_Bs ends the wait or leaves everything as it is.
LEMMA PaceChecked ==
  ASSUME NEW t \in TxType, NEW q, NEW p, NEW E, NEW c, InPace(t, q, p, E, c)
  PROVE  InPace(CheckNBs(t), q, p, E, c)
<1>1. CASE t.state = "TX_WAIT_FC" /\ t.fcAge > NBs
  <2>1. CheckNBs(t).state = "TX_ERROR"
    BY <1>1, GiveErrorTyped DEF CheckNBs
  <2> QED
    BY <2>1 DEF InPace, SendsIn, WaitsIn
<1>2. CASE ~(t.state = "TX_WAIT_FC" /\ t.fcAge > NBs)
  <2>1. CheckNBs(t) = t
    BY <1>2 DEF CheckNBs
  <2> QED
    BY <2>1
<1> QED
  BY <1>1, <1>2

\* An iteration of isotp_task keeps the pace tx_pump is entered with.
LEMMA PaceIteration ==
  ASSUME Base, Own, NEW t, Entered(t), ~itask.cf, Pump(t),
         tx.state = "TX_IDLE" => t = tx,
         Owns(tx, call, itask) /\ call.pc \in Sending => Owns(t, call, itask),
         ~hist'.raced => ~hist.raced /\ (Arming => tx' = tx),
         Clear(hist') => Paced(t, q_twai_tx, q_twai_rx', ecu, call)
  PROVE  Pace'
<1> SUFFICES ASSUME Clear(hist') PROVE Paced(tx', q_twai_tx', q_twai_rx', ecu', call')
  BY DEF Pace
<1>1. /\ Owns(tx, call, itask) /\ (Arming => tx' = tx) /\ UNCHANGED ecu
      /\ Paced(t, q_twai_tx, q_twai_rx', ecu, call)
  BY DEF Own, Pump, Clear
<1>2. PICK p, u, d, s : p = q_twai_rx' /\ u = tx' /\ d = call' /\ s = q_twai_tx'
  OBVIOUS
<1>3. Paced(t, q_twai_tx, p, ecu, call) /\ t \in TxType /\ call \in CallType
  BY <1>1, <1>2 DEF Entered, Base, Types
<1>4. CASE call.pc \in Sending
  <2>1. Owns(t, call, itask)
    BY <1>1, <1>4
  <2>2. CASE u = CheckNBs(t) /\ UNCHANGED <<call, q_twai_tx>>
    <3>1. InPace(u, q_twai_tx, p, ecu, call)
      BY <1>3, <2>2, PaceChecked DEF Paced
    <3>2. Paced(u, q_twai_tx, p, ecu, call)
      BY <1>3, <3>1 DEF Paced
    <3> QED
      BY <1>1, <1>2, <2>2, <3>2
  <2>3. CASE /\ CfDue(t) /\ Enqueue(CfOf(t)) /\ u = AfterCf(t, Chunk(t))
             /\ call' = [call EXCEPT !.sent = SentAfter(CfOf(t))]
    <3>1. t.state = "TX_SENDING_CF"
      BY <2>3 DEF CfDue
    <3>2. d.pc = call.pc /\ d.m = call.m /\ d.who = call.who
      BY <1>2, <1>3, <2>3 DEF CallType
    <3>3. Paced(AfterCf(t, Chunk(t)), q_twai_tx', p, ecu, d)
      BY <1>3, <1>4, <2>1, <2>3, <3>1, <3>2, PaceSends
    <3> QED
      BY <1>1, <1>2, <2>3, <3>3
  <2>4. CASE u = t /\ UNCHANGED <<call, q_twai_tx>>
    BY <1>1, <1>2, <1>3, <2>4
  <2> QED
    BY <1>2, <2>2, <2>3, <2>4 DEF Pump
<1>5. CASE call.pc \notin Sending
  <2>1. UNCHANGED <<call, q_twai_tx>>
    BY <1>1, <1>5, PumpSends
  <2>2. InPace(u, q_twai_tx, p, ecu, call)
    BY <1>5 DEF InPace
  <2>3. Paced(u, q_twai_tx, p, ecu, call)
    BY <1>3, <2>2 DEF Paced
  <2> QED
    BY <1>1, <1>2, <2>1, <2>3
<1> QED
  BY <1>4, <1>5

LEMMA PaceIterationFc == Base /\ Own /\ Whole /\ Pace /\ IterationFc => Pace'
<1> SUFFICES ASSUME Base, Own, Whole, Pace, IterationFc PROVE Pace'
  OBVIOUS
<1> DEFINE fc == Head(q_twai_rx)
           t == HandleFc(tx, fc)
<1>1. /\ ~itask.cf /\ q_twai_rx \in Seq(FcType) /\ q_twai_rx # <<>> /\ hist \in HistType
      /\ Pump(t) /\ q_twai_rx' = Tail(q_twai_rx) /\ tx \in TxType /\ call \in CallType
      /\ ecu \in [Ecus -> EcuType]
  BY DEF IterationFc, Base, Types
<1>2. fc \in FcType
  BY <1>1, HeadTailProperties
<1>3. hist' = [hist EXCEPT !.raced = Raced, !.late = hist.late \/ (FcForUs(tx, fc) /\ fc.m # call.m)]
  BY DEF IterationFc
<1>4. /\ hist'.raced <=> Raced
      /\ hist'.lost <=> hist.lost
      /\ hist'.late <=> hist.late \/ (FcForUs(tx, fc) /\ fc.m # call.m)
  <2>1. Raced \in BOOLEAN /\ (hist.late \/ (FcForUs(tx, fc) /\ fc.m # call.m)) \in BOOLEAN
    BY <1>1 DEF Raced, HistType
  <2> HIDE DEF fc
  <2> QED
    BY <1>1, <1>3, <2>1 DEF HistType
<1> HIDE DEF fc
<1>5. ~hist'.raced => ~hist.raced /\ (Arming => tx' = tx)
  BY <1>4 DEF Raced
<1>6. tx.state = "TX_IDLE" => t = tx
  BY DEF HandleFc, FcForUs
<1>7. Owns(tx, call, itask) /\ call.pc \in Sending => Owns(t, call, itask)
  BY <1>1, <1>2, OwnHandled
<1>8. Entered(t)
  BY <1>1, <1>2, EnteredFc
<1>9. ASSUME Clear(hist') PROVE Paced(t, q_twai_tx, q_twai_rx', ecu, call)
  <2>1. /\ Clear(hist) /\ (FcForUs(tx, fc) => fc.m = call.m)
        /\ Owns(tx, call, itask) /\ InOrder(call)
        /\ Paced(tx, q_twai_tx, q_twai_rx, ecu, call)
    BY <1>4, <1>5, <1>9 DEF Clear, Own, Whole, Pace
  <2>2. PICK q, p, s, m, e, r : q = q_twai_tx /\ p = q_twai_rx /\ s = Tail(p) /\ m = call.m
                                /\ e = Peer[call.who] /\ r = ecu[e]
    OBVIOUS
  <2>3. Numbered(q, s, ecu, call)
    <3>1. Len(s) = Len(p) - 1 /\ Len(p) \in Nat /\ \A k \in 1..(Len(p) - 1) : s[k] = p[k + 1]
      BY <1>1, <2>2, TailIs
    <3>2. \A k \in 1..(Len(p) - 1) : k + 1 \in 1..Len(p)
      BY <3>1
    <3> QED
      BY <2>1, <2>2, <3>1, <3>2 DEF Paced, Numbered
  <2>4. InPace(t, q, s, ecu, call)
    <3> SUFFICES ASSUME call.pc \in Sending
                 PROVE  SendsIn(t, q, s, r, m, e) /\ WaitsIn(t, q, s, r, m, e)
      BY <2>2 DEF InPace
    <3>1. /\ tx.rx_id = e /\ tx.offset = call.sent /\ e \in Ecus
      BY <2>1, <2>2, Waiter, Consts DEF Owns, Underway
    <3>2. r \in EcuType
      BY <1>1, <2>2, <3>1
    <3>3. SendsIn(tx, q, p, r, m, e) /\ WaitsIn(tx, q, p, r, m, e)
      BY <2>1, <2>2 DEF Paced, InPace
    <3>4. q = <<>> => Expects(r, m, tx.offset)
      BY <2>1, <2>2, <3>1 DEF InOrder, Ready
    <3>5. tx.state = "TX_WAIT_FC" => tx.wait_fc_count <= FcWaitMax + 1
      <4>1. Sound(tx, call, itask)
        BY DEF Base
      <4> QED
        BY <1>1, <4>1, Numbers DEF Sound, Counted
    <3>6. p \in Seq(FcType) /\ p # <<>> /\ fc = Head(p) /\ (FcForUs(tx, Head(p)) => Head(p).m = m)
      BY <1>1, <2>1, <2>2 DEF fc
    <3>7. /\ SendsIn(HandleFc(tx, Head(p)), q, Tail(p), r, m, e)
          /\ WaitsIn(HandleFc(tx, Head(p)), q, Tail(p), r, m, e)
      <4> HIDE DEF t
      <4> QED
        BY <1>1, <3>1, <3>2, <3>3, <3>4, <3>5, <3>6, PaceHandled
    <3> QED
      BY <2>2, <3>6, <3>7
  <2> HIDE DEF t
  <2> QED
    BY <1>1, <2>1, <2>2, <2>3, <2>4 DEF Paced
<1> HIDE DEF t
<1> QED
  BY <1>1, <1>5, <1>6, <1>7, <1>8, <1>9, PaceIteration

LEMMA PaceIterationIdle == Base /\ Own /\ Pace /\ IterationIdle => Pace'
<1> SUFFICES ASSUME Base, Own, Pace, IterationIdle PROVE Pace'
  OBVIOUS
<1>1. /\ ~itask.cf /\ hist \in HistType /\ Pump(tx) /\ hist' = [hist EXCEPT !.raced = Raced]
      /\ UNCHANGED q_twai_rx
  BY DEF IterationIdle, Base, Types
<1>2. (hist'.raced <=> Raced) /\ (hist'.lost <=> hist.lost) /\ (hist'.late <=> hist.late)
  <2>1. Raced \in BOOLEAN
    BY <1>1 DEF Raced, HistType
  <2> QED
    BY <1>1, <2>1 DEF HistType
<1>3. ~hist'.raced => ~hist.raced /\ (Arming => tx' = tx)
  BY <1>2 DEF Raced
<1>4. Clear(hist') => Paced(tx, q_twai_tx, q_twai_rx', ecu, call)
  <2>1. Clear(hist') => Clear(hist)
    BY <1>2, <1>3 DEF Clear
  <2>2. Clear(hist) => Paced(tx, q_twai_tx, q_twai_rx, ecu, call)
    BY DEF Pace
  <2> QED
    BY <1>1, <2>1, <2>2
<1> QED
  BY <1>1, <1>3, <1>4, EnteredSame, PaceIteration

LEMMA PaceCfUnblocked == Base /\ Own /\ Pace /\ CfUnblocked => Pace'
<1> SUFFICES ASSUME Base, Own, Pace, CfUnblocked, Clear(hist')
             PROVE  Paced(tx', q_twai_tx', q_twai_rx', ecu', call')
  BY DEF Pace
<1>1. /\ itask.cf /\ Enqueue(itask.frame) /\ UNCHANGED <<ecu, q_twai_rx>> /\ hist \in HistType
      /\ call' = [call EXCEPT !.sent = SentAfter(itask.frame)] /\ call \in CallType
      /\ tx' = AfterCf(tx, itask.frame.n) /\ tx \in TxType
  BY DEF CfUnblocked, Base, Types
<1>2. Clear(hist) /\ call.m = itask.call /\ call.pc = "wait"
  <2>1. (hist.raced \/ call.m # itask.call \/ call.pc # "wait") \in BOOLEAN
    BY <1>1 DEF HistType
  <2>2. hist' = [hist EXCEPT !.raced = hist.raced \/ call.m # itask.call \/ call.pc # "wait"]
    BY DEF CfUnblocked
  <2>3. /\ hist'.raced <=> hist.raced \/ call.m # itask.call \/ call.pc # "wait"
        /\ hist'.lost <=> hist.lost
        /\ hist'.late <=> hist.late
    BY <1>1, <2>1, <2>2 DEF HistType
  <2> QED
    BY <2>3 DEF Clear
<1>3. /\ Owns(tx, call, itask) /\ call.pc \in Sending
      /\ Paced(tx, q_twai_tx, q_twai_rx, ecu, call)
  BY <1>2 DEF Own, Pace, Clear, Sending
<1>4. tx.state = "TX_SENDING_CF" /\ itask.frame = CfOf(tx)
  BY <1>1, <1>2, <1>3 DEF Owns, Underway
<1>5. itask.frame.n = Chunk(tx)
  BY <1>1, <1>4, CfOfTyped
<1>6. PICK d, p : d = call' /\ p = q_twai_rx
  OBVIOUS
<1>7. d.pc = call.pc /\ d.m = call.m /\ d.who = call.who
  BY <1>1, <1>6 DEF CallType
<1>8. Paced(AfterCf(tx, Chunk(tx)), q_twai_tx', p, ecu, d)
  <2>1. Enqueue(CfOf(tx)) /\ Paced(tx, q_twai_tx, p, ecu, call) /\ Entered(tx)
    BY <1>1, <1>3, <1>4, <1>6, EnteredSame
  <2> QED
    BY <1>3, <1>4, <1>7, <2>1, PaceSends
<1> QED
  BY <1>1, <1>5, <1>6, <1>8

LEMMA PaceSendSf == Base /\ Pace /\ SendSf => Pace'
<1> SUFFICES ASSUME Base, Pace, SendSf PROVE Pace'
  OBVIOUS
<1> DEFINE f == Frame("SF", Peer[call.who], call.m, 0, 0, call.len, call.len)
<1>1. /\ call.pc = "sf" /\ UNCHANGED <<ecu, hist, q_twai_rx>> /\ call \in CallType /\ Types
      /\ \/ /\ Enqueue(f)
            /\ call' = [call EXCEPT !.pc = "return", !.ok = TRUE, !.sent = call.len]
         \/ UNCHANGED q_twai_tx /\ call' = [call EXCEPT !.pc = "return"]
  BY DEF SendSf, SendFrame, Base, Types
<1>2. PICK q, s, p, d, u : q = q_twai_tx /\ s = q_twai_tx' /\ p = q_twai_rx /\ d = call' /\ u = tx'
  OBVIOUS
<1>3. d.pc = "return" /\ d.m = call.m /\ d.who = call.who
  BY <1>1, <1>2 DEF CallType
<1>4. d.pc \notin Sending /\ d.pc \notin Unsent
  BY <1>3 DEF Sending, Unsent, Armed
<1>5. d \in CallType
  <2>1. TRUE \in BOOLEAN /\ call.len \in 0..MaxLen /\ "return" \in Pcs
    BY <1>1, CallFields, Widths DEF Pcs
  <2> QED
    BY <1>1, <1>2, <2>1 DEF CallType
<1>6. CASE Enqueue(f)
  <2>1. f \in FrameType /\ f.pci = "SF" /\ f.m = call.m
    BY <1>1, SfTyped DEF Frame
  <2> HIDE DEF f
  <2>2. q \in Seq(FrameType) /\ Longer(s, q, f)
    BY <1>1, <1>2, <1>6, <2>1, Enqueues DEF Types, Longer
  <2>3. ASSUME Clear(hist) PROVE Paced(u, s, p, ecu, d)
    <3>1. Paced(tx, q, p, ecu, call)
      BY <1>2, <2>3 DEF Pace
    <3>2. \A m \in Nat : Known(call, m) => Known(d, m)
      BY <1>1, <1>3, <1>4, <1>5, KnownMoves
    <3>3. Numbered(q, p, ecu, d)
      BY <1>1, <1>2, <3>1, <3>2, StillNumbered DEF Paced
    <3>4. Known(d, f.m)
      <4>1. call.m \in 0..MaxCalls /\ MaxCalls \in Nat
        BY <1>1, CallFields, Consts
      <4> QED
        BY <1>3, <1>4, <2>1, <4>1 DEF Known
    <3>5. Numbered(s, p, ecu, d)
      BY <2>2, <3>3, <3>4, NumberedEnqueue
    <3>6. Train(s, ecu)
      BY <2>1, <2>2, <3>1, TrainEnqueue DEF Paced
    <3>7. InPace(u, s, p, ecu, d)
      BY <1>4 DEF InPace
    <3> QED
      BY <3>1, <3>5, <3>6, <3>7 DEF Paced
  <2> QED
    BY <1>1, <1>2, <2>3 DEF Pace
<1>7. CASE UNCHANGED q_twai_tx
  BY <1>1, <1>2, <1>3, <1>4, <1>5, <1>7, PaceStill
<1> QED
  BY <1>1, <1>6, <1>7

\* The First Frame is the first thing anyone hears of its message.
LEMMA PaceSendFf == Base /\ Own /\ Pace /\ SendFf => Pace'
<1> SUFFICES ASSUME Base, Own, Pace, SendFf PROVE Pace'
  OBVIOUS
<1> DEFINE f == Frame("FF", Peer[call.who], call.m, 0, 0, FFData, call.len)
<1>1. /\ call.pc = "ff" /\ UNCHANGED <<ecu, hist, q_twai_rx>> /\ call \in CallType /\ Types
      /\ \/ Enqueue(f) /\ call' = [call EXCEPT !.pc = "wait", !.sent = FFData] /\ UNCHANGED tx
         \/ UNCHANGED q_twai_tx /\ call' = [call EXCEPT !.pc = "return"]
  BY DEF SendFf, SendFrame, Base, Types
<1>2. CASE /\ Enqueue(f) /\ call' = [call EXCEPT !.pc = "wait", !.sent = FFData]
           /\ UNCHANGED tx
  <2>1. PICK q, s, p, d : q = q_twai_tx /\ s = q_twai_tx' /\ p = q_twai_rx /\ d = call'
    OBVIOUS
  <2>2. d.pc = "wait" /\ d.m = call.m /\ d.who = call.who
    BY <1>1, <1>2, <2>1 DEF CallType
  <2>3. d.pc \notin Unsent /\ call.pc \in Unsent /\ call.pc \in Armed
    BY <1>1, <2>2 DEF Unsent, Armed
  <2>4. /\ f \in FrameType /\ f.to = Peer[call.who] /\ f.to \in Ecus /\ f.pci = "FF" /\ f.m = call.m
    BY <1>1, FfTyped, Consts DEF Frame
  <2> HIDE DEF f
  <2>5. q \in Seq(FrameType) /\ Longer(s, q, f)
    BY <1>1, <1>2, <2>1, <2>4, Enqueues DEF Types, Longer
  <2>6. call.m \in Nat
    <3>1. call.m \in 0..MaxCalls /\ MaxCalls \in Nat
      BY <1>1, CallFields, Consts
    <3> QED
      BY <3>1
  <2>7. \A m \in Nat : Known(call, m) => m < call.m /\ m # call.m /\ Known(d, m)
    BY <2>2, <2>3, <2>6 DEF Known
  <2>8. ASSUME Clear(hist) PROVE Paced(tx, s, p, ecu, d)
    <3>1. Paced(tx, q, p, ecu, call) /\ tx.state = "TX_WAIT_FC"
      BY <2>1, <2>3, <2>8 DEF Pace, Own, Owns, Prepared, Clear
    <3>2. Numbered(q, p, ecu, d)
      BY <1>1, <2>1, <2>7, <3>1, StillNumbered DEF Paced
    <3>3. Known(d, f.m)
      BY <2>2, <2>3, <2>4, <2>6 DEF Known
    <3>4. Numbered(s, p, ecu, d)
      BY <2>5, <3>2, <3>3, NumberedEnqueue
    <3>5. Train(s, ecu)
      BY <2>4, <2>5, <3>1, TrainEnqueue DEF Paced
    <3>6. PICK m, e : m = call.m /\ e = Peer[call.who]
      OBVIOUS
    <3>7. m \in Nat /\ ~Known(call, m)
      BY <2>3, <2>6, <3>6 DEF Known
    <3>8. Unanswered(p, m, e)
      BY <3>1, <3>7 DEF Paced, Numbered, Unanswered
    <3>9. (ecu[e].st = "recv" => ecu[e].m # m) /\ \A k \in 1..Len(q) : q[k].m # m
      BY <2>4, <3>1, <3>6, <3>7 DEF Paced, Numbered
    <3>10. Len(q) \in Nat /\ Len(s) = Len(q) + 1 /\ (\A k \in 1..Len(q) : s[k] = q[k])
           /\ s[Len(q) + 1] = f
      BY <2>5, LenProperties DEF Longer
    <3>11. s # <<>>
      <4>1. Len(s) # 0
        BY <3>10
      <4> QED
        BY <4>1
    <3>12. \A k \in 1..(Len(s) - 1) : s[k].m # m
      <4>1. Len(s) - 1 = Len(q)
        BY <3>10
      <4> QED
        BY <3>9, <3>10, <4>1
    <3>13. WaitsFirst(s, p, ecu[e], m, e)
      BY <2>4, <3>8, <3>9, <3>10, <3>11, <3>12 DEF WaitsFirst
    <3>14. InPace(tx, s, p, ecu, d)
      BY <2>2, <3>1, <3>6, <3>13 DEF InPace, SendsIn, WaitsIn
    <3> QED
      BY <3>1, <3>4, <3>5, <3>14 DEF Paced
  <2> QED
    BY <1>1, <1>2, <2>1, <2>8 DEF Pace
<1>3. CASE UNCHANGED q_twai_tx /\ call' = [call EXCEPT !.pc = "return"]
  <2>1. call'.m = call.m /\ call'.pc = "return" /\ call' \in CallType
    BY <1>1, <1>3 DEF CallType, Pcs
  <2>2. call'.pc \notin Sending /\ call'.pc \notin Unsent
    BY <2>1 DEF Sending, Unsent, Armed
  <2> QED
    BY <1>1, <1>3, <2>1, <2>2, PaceStill
<1> QED
  BY <1>1, <1>2, <1>3

\* One more Flow Control in the queue.
LEMMA FcAdded ==
  ASSUME NEW p \in Seq(FcType), NEW s, NEW fc, Longer(s, p, fc), NEW m, NEW e, NEW r
  PROVE  /\ Unanswered(p, m, e) /\ ~(fc.from = e /\ fc.m = m) => Unanswered(s, m, e)
         /\ Answers(p, m, e, r) /\ ~(fc.from = e /\ fc.m = m) => Answers(s, m, e, r)
<1>1. PICK n : n \in Nat /\ n = Len(p)
  BY LenProperties
<1>2. n \in Nat /\ Len(s) = n + 1 /\ (\A k \in 1..n : s[k] = p[k]) /\ s[n + 1] = fc
  BY <1>1 DEF Longer
<1>3. \A k \in 1..(n + 1) : k \in 1..n \/ k = n + 1
  BY <1>2
<1>4. Unanswered(p, m, e) /\ ~(fc.from = e /\ fc.m = m) => Unanswered(s, m, e)
  BY <1>1, <1>2, <1>3 DEF Unanswered
<1>5. ASSUME Answers(p, m, e, r), ~(fc.from = e /\ fc.m = m) PROVE Answers(s, m, e, r)
  <2> SUFFICES ASSUME NEW k \in 1..(n + 1), s[k].from = e, s[k].m = m, s[k].fs = "CTS"
               PROVE  /\ r.st = "recv" => ~r.owes /\ r.left = s[k].bs
                      /\ \A j \in (k + 1)..(n + 1) : ~(s[j].from = e /\ s[j].m = m)
    BY <1>2 DEF Answers
  <2>1. k \in 1..n /\ s[k] = p[k]
    BY <1>2, <1>3, <1>5
  <2>2. /\ r.st = "recv" => ~r.owes /\ r.left = p[k].bs
        /\ \A j \in (k + 1)..n : ~(p[j].from = e /\ p[j].m = m)
    BY <1>1, <1>5, <2>1 DEF Answers
  <2>3. ASSUME NEW j \in (k + 1)..(n + 1) PROVE ~(s[j].from = e /\ s[j].m = m)
    <3>1. j = n + 1 \/ (j \in (k + 1)..n /\ j \in 1..n)
      BY <1>2, <2>1
    <3> QED
      BY <1>2, <1>5, <2>2, <3>1
  <2> QED
    BY <2>1, <2>2, <2>3
<1> QED
  BY <1>4, <1>5

\* A Flow Control of e for m, where none said Clear To Send yet.
LEMMA FcAnswers ==
  ASSUME NEW p \in Seq(FcType), NEW s, NEW fc, Longer(s, p, fc), NEW m, NEW e, NEW r,
         \A k \in 1..Len(p) : ~(p[k].from = e /\ p[k].m = m /\ p[k].fs = "CTS"),
         fc.fs = "CTS" => (r.st = "recv" => ~r.owes /\ r.left = fc.bs)
  PROVE  Answers(s, m, e, r)
<1>1. PICK n : n \in Nat /\ n = Len(p)
  BY LenProperties
<1>2. n \in Nat /\ Len(s) = n + 1 /\ (\A k \in 1..n : s[k] = p[k]) /\ s[n + 1] = fc
  BY <1>1 DEF Longer
<1> SUFFICES ASSUME NEW k \in 1..(n + 1), s[k].from = e, s[k].m = m, s[k].fs = "CTS"
             PROVE  /\ r.st = "recv" => ~r.owes /\ r.left = s[k].bs
                    /\ \A j \in (k + 1)..(n + 1) : ~(s[j].from = e /\ s[j].m = m)
  BY <1>2 DEF Answers
<1>3. k = n + 1
  <2>1. k \in 1..n \/ k = n + 1
    BY <1>2
  <2> QED
    BY <1>1, <1>2, <2>1
<1>4. s[k] = fc /\ (k + 1)..(n + 1) = {}
  BY <1>2, <1>3
<1> QED
  BY <1>4

\* A Flow Control of an ECU: it says Clear To Send for the block it then waits for, and says
\* nothing after it.
LEMMA PaceEcuSendFc == ASSUME NEW x \in Ecus PROVE Base /\ Whole /\ Pace /\ EcuSendFc(x) => Pace'
<1> SUFFICES ASSUME Base, Whole, Pace, EcuSendFc(x), Clear(hist')
             PROVE  Paced(tx', q_twai_tx', q_twai_rx', ecu', call')
  BY DEF Pace
<1>1. Types
  BY DEF Base
<1>2. PICK E, q, p, s, r, y : /\ E = ecu' /\ q = q_twai_tx /\ p = q_twai_rx /\ s = q_twai_rx'
                              /\ r = ecu[x] /\ y = E[x]
  OBVIOUS
<1>3. /\ UNCHANGED <<tx, call, q_twai_tx, hist>> /\ r.owes
      /\ \A z \in Ecus : z # x => E[z] = ecu[z]
      /\ y.overrun <=> r.overrun
      /\ y.st = "recv" => r.st = "recv" /\ y.m = r.m /\ y.got = r.got
  BY <1>1, <1>2, EcuSendFcIs
<1>4. PICK fc \in FcType :
        /\ fc.from = x /\ fc.m = r.m
        /\ s = IF Len(p) < QRxCap THEN Append(p, fc) ELSE p
        /\ \/ fc.fs = "CTS" /\ ~y.owes /\ y.left = fc.bs
           \/ fc.fs = "WAIT" /\ y.owes /\ y.st = r.st
           \/ fc.fs = "OVFL" /\ ~y.owes /\ y.st = "idle"
  BY <1>1, <1>2, EcuSendFcIs
<1>5. p \in Seq(FcType) /\ (s = p \/ Longer(s, p, fc))
  <2>1. p \in Seq(FcType)
    BY <1>1, <1>2 DEF Types
  <2>2. /\ Len(Append(p, fc)) = Len(p) + 1 /\ Append(p, fc)[Len(p) + 1] = fc
        /\ \A k \in 1..Len(p) : Append(p, fc)[k] = p[k]
    BY <2>1, AppendProperties
  <2> QED
    BY <1>4, <2>1, <2>2 DEF Longer
<1>6. Paced(tx, q, p, ecu, call) /\ InOrder(call)
  BY <1>2, <1>3 DEF Pace, Whole, Clear
<1>7. r.st = "recv"
  BY <1>2, <1>3, <1>6 DEF Paced, Calm
<1>8. Numbered(q, s, E, call)
  <2>1. Known(call, r.m)
    BY <1>2, <1>6, <1>7 DEF Paced, Numbered
  <2>2. \A k \in 1..Len(s) : Known(call, s[k].m)
    <3>1. CASE s = p
      BY <1>6, <3>1 DEF Paced, Numbered
    <3>2. CASE Longer(s, p, fc)
      <4>1. Len(p) \in Nat
        BY <1>5, LenProperties
      <4>2. \A k \in 1..Len(s) : k \in 1..Len(p) \/ k = Len(p) + 1
        BY <3>2, <4>1 DEF Longer
      <4> QED
        BY <1>4, <1>6, <2>1, <3>2, <4>2 DEF Paced, Numbered, Longer
    <3> QED
      BY <1>5, <3>1, <3>2
  <2>3. \A e \in Ecus : E[e].st = "recv" => Known(call, E[e].m)
    BY <1>2, <1>3, <1>6, <2>1 DEF Paced, Numbered
  <2> QED
    BY <1>6, <2>2, <2>3 DEF Paced, Numbered
<1>9. Train(q, E)
  <2> SUFFICES ASSUME NEW k \in 1..Len(q), q[k].pci = "CF" PROVE Admits(E[q[k].to], q[k].off)
    BY <1>6 DEF Paced, Train
  <2>1. q[k].to \in Ecus /\ Admits(ecu[q[k].to], q[k].off)
    BY <1>2, <1>6 DEF Paced, Train, InOrder, Lined
  <2>2. q[k].to # x
    BY <1>2, <1>3, <1>7, <2>1 DEF Admits
  <2> QED
    BY <1>3, <2>1, <2>2
<1>10. Calm(E)
  BY <1>2, <1>3, <1>4, <1>6, <1>7 DEF Paced, Calm
<1>11. InPace(tx, q, s, E, call)
  <2> SUFFICES ASSUME call.pc \in Sending
               PROVE  /\ SendsIn(tx, q, s, E[Peer[call.who]], call.m, Peer[call.who])
                      /\ WaitsIn(tx, q, s, E[Peer[call.who]], call.m, Peer[call.who])
    BY DEF InPace
  <2>1. PICK e, m : e = Peer[call.who] /\ m = call.m
    OBVIOUS
  <2>2. e \in Ecus
    BY <2>1, Waiter, Consts
  <2>3. SendsIn(tx, q, p, ecu[e], m, e) /\ WaitsIn(tx, q, p, ecu[e], m, e)
    BY <1>6, <2>1 DEF Paced, InPace
  <2>4. ~(fc.from = e /\ fc.m = m) =>
          /\ Unanswered(p, m, e) => Unanswered(s, m, e)
          /\ Answers(p, m, e, ecu[e]) => Answers(s, m, e, ecu[e])
    BY <1>5, FcAdded
  <2>5. CASE e # x
    <3>1. E[e] = ecu[e] /\ fc.from # e
      BY <1>3, <1>4, <2>2, <2>5
    <3> QED
      BY <2>1, <2>3, <2>4, <3>1 DEF SendsIn, WaitsIn, WaitsFirst, WaitsBlock
  <2>6. CASE e = x
    <3>1. ecu[e] = r /\ E[e] = y
      BY <1>2, <2>6
    <3>2. SendsIn(tx, q, s, y, m, e)
      BY <1>3, <1>7, <2>3, <3>1 DEF SendsIn, PausesAt
    <3>3. ASSUME tx.state = "TX_WAIT_FC", WaitsFirst(q, p, r, m, e)
          PROVE  WaitsFirst(q, s, y, m, e)
      <4>1. fc.m # m
        BY <1>4, <1>7, <3>3 DEF WaitsFirst
      <4> QED
        BY <1>3, <2>4, <3>3, <4>1 DEF WaitsFirst
    <3>4. ~WaitsBlock(tx, q, p, r, m, e)
      BY <1>3, <1>7 DEF WaitsBlock, PausesAt
    <3>5. ASSUME q = <<>>, Answers(p, m, e, r) PROVE Answers(s, m, e, y)
      <4>1. \A k \in 1..Len(p) : ~(p[k].from = e /\ p[k].m = m /\ p[k].fs = "CTS")
        BY <1>3, <1>7, <3>5 DEF Answers
      <4>2. CASE s = p
        BY <4>1, <4>2 DEF Answers
      <4>3. CASE Longer(s, p, fc)
        <5>1. fc.fs = "CTS" => (y.st = "recv" => ~y.owes /\ y.left = fc.bs)
          BY <1>4
        <5> QED
          BY <1>5, <4>1, <4>3, <5>1, FcAnswers
      <4> QED
        BY <1>5, <4>2, <4>3
    <3>6. WaitsIn(tx, q, s, y, m, e)
      BY <2>3, <3>1, <3>3, <3>4, <3>5 DEF WaitsIn
    <3> QED
      BY <2>1, <3>1, <3>2, <3>6
  <2> QED
    BY <2>5, <2>6
<1> QED
  BY <1>2, <1>3, <1>6, <1>8, <1>9, <1>10, <1>11 DEF Paced

\* A full Consecutive Frame brings its receiver one frame nearer to its pause.
LEMMA PaceReceived ==
  ASSUME NEW r \in EcuType, NEW f \in FrameType, f.pci = "CF", f.n = CFData,
         Expects(r, f.m, f.off), Admits(r, f.off), NEW x, x = EcuReceive(r, f), x.st = "recv"
  PROVE  /\ r.st = "recv" /\ ~r.owes /\ r.got = f.off /\ x.got = r.got + CFData
         /\ r.left \in Nat /\ r.got \in Nat /\ x.left \in Nat
         /\ r.left = 0 => x.left = 0 /\ ~x.owes
         /\ r.left # 0 /\ r.left # 1 => x.left = r.left - 1 /\ ~x.owes
<1>1. /\ r.st = "recv" /\ x.got = r.got + f.n
      /\ IF r.left = 1 THEN x.left = 0 /\ x.owes
         ELSE x.left = (IF r.left = 0 THEN 0 ELSE r.left - 1) /\ (x.owes <=> r.owes)
  BY EcuReceiveIs
<1>2. r.left \in Nat /\ r.got \in Nat
  BY EcuFields, Byte
<1>3. ~r.owes /\ r.got = f.off
  BY <1>1 DEF Admits, Expects
<1>4. x.left \in Nat
  BY <1>1, <1>2
<1> QED
  BY <1>1, <1>2, <1>3, <1>4

\* A frame its receiver admits when it comes after another it still admits then.
LEMMA AdmitsNext ==
  ASSUME NEW r \in EcuType, NEW f \in FrameType, f.pci = "CF", f.n = CFData,
         Expects(r, f.m, f.off), Admits(r, f.off), NEW x, x = EcuReceive(r, f),
         Admits(r, f.off + CFData)
  PROVE  /\ x.st = "recv" => r.left # 1
         /\ \A off : Admits(r, off) => Admits(x, off)
<1> SUFFICES ASSUME x.st = "recv" PROVE r.left # 1 /\ \A off : Admits(r, off) => Admits(x, off)
  BY DEF Admits
<1>1. /\ r.st = "recv" /\ ~r.owes /\ r.got = f.off /\ x.got = r.got + CFData
      /\ r.left \in Nat /\ r.got \in Nat /\ x.left \in Nat
      /\ r.left = 0 => x.left = 0 /\ ~x.owes
      /\ r.left # 0 /\ r.left # 1 => x.left = r.left - 1 /\ ~x.owes
  BY PaceReceived
<1>2. r.left # 1
  <2> SUFFICES ASSUME r.left = 1 PROVE FALSE
    OBVIOUS
  <2>1. r.got + CFData < r.got + CFData * 1
    BY <1>1 DEF Admits
  <2> QED
    BY <1>1, <2>1 DEF CFData
<1>3. ASSUME NEW off, Admits(r, off) PROVE Admits(x, off)
  <2>1. CASE r.left = 0
    BY <1>1, <2>1 DEF Admits
  <2>2. CASE r.left # 0
    <3>1. x.left = r.left - 1 /\ ~x.owes /\ off < r.got + CFData * r.left
      BY <1>1, <1>2, <1>3, <2>2 DEF Admits
    <3>2. x.got + CFData * x.left = r.got + CFData * r.left
      BY <1>1, <3>1 DEF CFData
    <3> QED
      BY <3>1, <3>2 DEF Admits
  <2> QED
    BY <2>1, <2>2
<1> QED
  BY <1>2, <1>3

\* The frame in front has gone out: what is left of the train follows on.
LEMMA TrainLeaves ==
  ASSUME NEW q \in Seq(FrameType), q # <<>>, NEW E \in [Ecus -> EcuType], NEW F,
         Lined(q), Awaited(q, E), Train(q, E),
         F[Head(q).to] = EcuReceive(E[Head(q).to], Head(q)),
         \A e \in Ecus : e # Head(q).to => F[e] = E[e]
  PROVE  Train(Tail(q), F)
<1>1. PICK f, s, n : f = Head(q) /\ s = Tail(q) /\ n = Len(q)
  OBVIOUS
<1>2. /\ f \in FrameType /\ f = q[1] /\ n \in Nat /\ n >= 1 /\ Len(s) = n - 1
      /\ \A k \in 1..(n - 1) : s[k] = q[k + 1]
  BY <1>1, TailIs
<1> SUFFICES ASSUME NEW k \in 1..(n - 1), s[k].pci = "CF"
             PROVE  /\ Admits(F[s[k].to], s[k].off)
                    /\ \A j \in 1..(k - 1) : s[j].pci = "CF" /\ s[j].n = CFData /\ s[j].to = s[k].to
  BY <1>1, <1>2 DEF Train
<1>3. PICK i \in 1..n : i = k + 1 /\ s[k] = q[i]
  <2>1. k + 1 \in 1..n
    BY <1>2
  <2> QED
    BY <1>2, <2>1
<1>4. /\ Admits(E[q[i].to], q[i].off)
      /\ \A j \in 1..(i - 1) : q[j].pci = "CF" /\ q[j].n = CFData /\ q[j].to = q[i].to
  BY <1>1, <1>3 DEF Train
<1>5. i - 1 = k /\ 1 \in 1..k /\ k \in Nat /\ 1 \in 1..n /\ 1 \in 1..(n - 1) /\ 2 \in 1..n /\ 1 + 1 = 2
  BY <1>2, <1>3
<1>6. ASSUME NEW j \in 1..(k - 1)
      PROVE  s[j].pci = "CF" /\ s[j].n = CFData /\ s[j].to = s[k].to
  <2>1. j \in 1..(n - 1) /\ j + 1 \in 1..(i - 1)
    BY <1>2, <1>5
  <2> QED
    BY <1>2, <1>3, <1>4, <2>1
<1>7. f.pci = "CF" /\ f.n = CFData /\ f.to = q[i].to
  BY <1>2, <1>4, <1>5
<1>8. PICK e, r, x : e = f.to /\ r = E[e] /\ x = F[e]
  OBVIOUS
<1>9. e \in Ecus /\ r \in EcuType /\ x = EcuReceive(r, f) /\ Expects(r, f.m, f.off)
  BY <1>1, <1>2, <1>5, <1>7, <1>8 DEF Lined, Awaited
<1>10. Admits(r, f.off)
  BY <1>1, <1>2, <1>5, <1>7, <1>8 DEF Train
<1>11. Admits(r, f.off + CFData)
  <2>1. q[2].pci = "CF" /\ q[2].to = f.to
    <3>1. CASE i = 2
      BY <1>3, <1>7, <3>1
    <3>2. CASE i # 2
      <4>1. 2 \in 1..(i - 1)
        BY <1>3, <1>5, <3>2
      <4> QED
        BY <1>4, <1>7, <4>1
    <3> QED
      BY <3>1, <3>2
  <2>2. Continues(q[1], q[2].m, q[2].to, q[2].off)
    BY <1>1, <1>5, <2>1 DEF Lined
  <2>3. q[2].off = f.off + CFData
    BY <1>2, <1>7, <2>2 DEF Continues
  <2>4. Admits(E[q[2].to], q[2].off)
    BY <1>1, <1>5, <2>1 DEF Train
  <2> QED
    BY <1>8, <2>1, <2>3, <2>4
<1>12. \A off : Admits(r, off) => Admits(x, off)
  <2>1. /\ r \in EcuType /\ f \in FrameType /\ f.pci = "CF" /\ f.n = CFData
        /\ Expects(r, f.m, f.off) /\ Admits(r, f.off) /\ x = EcuReceive(r, f)
        /\ Admits(r, f.off + CFData)
    BY <1>2, <1>7, <1>9, <1>10, <1>11
  <2> QED
    BY <2>1, AdmitsNext
<1>13. Admits(F[s[k].to], s[k].off)
  BY <1>3, <1>4, <1>7, <1>8, <1>12
<1> QED
  BY <1>6, <1>13

\* While the call waits, the frame in front is its own, or its First Frame is still behind.
LEMMA PaceLeaves ==
  ASSUME NEW q \in Seq(FrameType), q # <<>>, NEW E \in [Ecus -> EcuType], NEW F,
         Lined(q), Awaited(q, E), Train(q, E),
         F[Head(q).to] = EcuReceive(E[Head(q).to], Head(q)),
         \A z \in Ecus : z # Head(q).to => F[z] = E[z],
         NEW t \in TxType, NEW p, NEW m, NEW e \in Ecus, Ready(q, E, m, e, t.offset),
         SendsIn(t, q, p, E[e], m, e), WaitsIn(t, q, p, E[e], m, e)
  PROVE  SendsIn(t, Tail(q), p, F[e], m, e) /\ WaitsIn(t, Tail(q), p, F[e], m, e)
<1>1. PICK f, s, n, r, x : f = Head(q) /\ s = Tail(q) /\ n = Len(q) /\ r = E[e] /\ x = F[e]
  OBVIOUS
<1>2. /\ f \in FrameType /\ f = q[1] /\ n \in Nat /\ n >= 1 /\ Len(s) = n - 1 /\ s \in Seq(FrameType)
      /\ \A k \in 1..(n - 1) : s[k] = q[k + 1]
  BY <1>1, TailIs
<1>3. r \in EcuType /\ 1 \in 1..n /\ n \in 1..n /\ (n # 1 => 1 \in 1..(n - 1))
  BY <1>1, <1>2
<1>4. f.to \in Ecus /\ (f.to = e => x = EcuReceive(r, f)) /\ (f.to # e => x = r)
  BY <1>1, <1>2, <1>3 DEF Lined
<1>5. (s = <<>>) <=> (n = 1)
  <2>1. (s = <<>>) <=> (Len(s) = 0)
    BY <1>2, EmptySeq
  <2> QED
    BY <1>2, <2>1
<1>6. n # 1 => s[Len(s)] = q[n]
  <2> SUFFICES ASSUME n # 1 PROVE s[Len(s)] = q[n]
    OBVIOUS
  <2>1. n - 1 \in 1..(n - 1) /\ (n - 1) + 1 = n
    BY <1>2
  <2>2. s[n - 1] = q[(n - 1) + 1]
    BY <1>2, <2>1
  <2> QED
    BY <1>2, <2>1, <2>2
<1>7. Continues(q[n], m, e, t.offset)
  BY <1>1 DEF Ready
<1>8. ASSUME AllFull(q, m, e)
      PROVE  /\ AllFull(s, m, e)
             /\ x.st = "recv" =>
                  /\ r.st = "recv" /\ x.got = r.got + CFData /\ r.left \in Nat /\ r.got \in Nat
                  /\ x.left \in Nat
                  /\ n = 1 => t.offset = r.got + CFData
                  /\ n # 1 => r.left # 1
                  /\ r.left = 0 => x.left = 0 /\ ~x.owes
                  /\ r.left # 0 /\ r.left # 1 => x.left = r.left - 1 /\ ~x.owes
  <2>1. AllFull(s, m, e)
    <3>1. \A k \in 1..(n - 1) : k + 1 \in 1..n
      BY <1>2
    <3> QED
      BY <1>1, <1>2, <1>8, <3>1 DEF AllFull
  <2> SUFFICES ASSUME x.st = "recv"
               PROVE  /\ r.st = "recv" /\ x.got = r.got + CFData /\ r.left \in Nat /\ r.got \in Nat
                      /\ x.left \in Nat
                      /\ n = 1 => t.offset = r.got + CFData
                      /\ n # 1 => r.left # 1
                      /\ r.left = 0 => x.left = 0 /\ ~x.owes
                      /\ r.left # 0 /\ r.left # 1 => x.left = r.left - 1 /\ ~x.owes
    BY <2>1
  <2>2. f.pci = "CF" /\ f.n = CFData /\ f.to = e /\ f.m = m
    BY <1>1, <1>2, <1>3, <1>8 DEF AllFull
  <2>3. Expects(r, f.m, f.off) /\ Admits(r, f.off) /\ x = EcuReceive(r, f)
    BY <1>1, <1>2, <1>3, <1>4, <2>2 DEF Awaited, Train
  <2>4. /\ r.st = "recv" /\ ~r.owes /\ r.got = f.off /\ x.got = r.got + CFData
        /\ r.left \in Nat /\ r.got \in Nat /\ x.left \in Nat
        /\ r.left = 0 => x.left = 0 /\ ~x.owes
        /\ r.left # 0 /\ r.left # 1 => x.left = r.left - 1 /\ ~x.owes
    BY <1>2, <1>3, <2>2, <2>3, PaceReceived
  <2>5. n = 1 => t.offset = r.got + CFData
    BY <1>2, <1>7, <2>2, <2>4 DEF Continues
  <2>6. ASSUME n # 1 PROVE r.left # 1
    <3>1. 1 + 1 = 2 /\ 2 \in 1..n
      BY <1>2, <2>6
    <3>2. q[2].pci = "CF" /\ q[2].to = e
      BY <1>1, <1>8, <3>1 DEF AllFull
    <3>3. Continues(q[1], q[2].m, q[2].to, q[2].off)
      BY <1>1, <1>3, <2>6, <3>1, <3>2 DEF Lined
    <3>4. q[2].off = f.off + CFData
      BY <1>2, <2>2, <3>3 DEF Continues
    <3>5. Admits(r, f.off + CFData)
      BY <1>1, <3>1, <3>2, <3>4 DEF Train
    <3> QED
      BY <1>2, <1>3, <2>2, <2>3, <3>5, AdmitsNext
  <2> QED
    BY <2>4, <2>5, <2>6
<1>9. ASSUME NEW b \in Nat, AllFull(q, m, e), PausesAt(r, t.offset, b), n # 1 \/ b # 0
      PROVE  PausesAt(x, t.offset, b)
  <2> SUFFICES ASSUME x.st = "recv"
               PROVE  ~x.owes /\ x.left # 0 /\ x.got + CFData * x.left = t.offset + CFData * b
    BY DEF PausesAt
  <2>1. /\ r.st = "recv" /\ x.got = r.got + CFData /\ r.left \in Nat /\ r.got \in Nat /\ x.left \in Nat
        /\ n = 1 => t.offset = r.got + CFData
        /\ n # 1 => r.left # 1
        /\ r.left # 0 /\ r.left # 1 => x.left = r.left - 1 /\ ~x.owes
    BY <1>8, <1>9
  <2>2. r.left # 0 /\ r.got + CFData * r.left = t.offset + CFData * b
    BY <1>9, <2>1 DEF PausesAt
  <2>3. r.left # 1
    <3> SUFFICES ASSUME r.left = 1, n = 1 PROVE FALSE
      BY <2>1
    <3>1. r.got + CFData * 1 = r.got + CFData + CFData * b /\ b # 0
      BY <1>9, <2>1, <2>2
    <3> QED
      BY <2>1, <3>1 DEF CFData
  <2>4. x.left = r.left - 1 /\ ~x.owes /\ x.left # 0
    BY <2>1, <2>2, <2>3
  <2>5. x.got + CFData * x.left = r.got + CFData * r.left
    BY <2>1, <2>4 DEF CFData
  <2> QED
    BY <2>2, <2>4, <2>5
<1>10. SendsIn(t, s, p, x, m, e)
  <2> SUFFICES ASSUME t.state = "TX_SENDING_CF"
               PROVE  /\ AllFull(s, m, e) /\ Unanswered(p, m, e)
                      /\ IF t.bs = 0 THEN x.st = "recv" => ~x.owes /\ x.left = 0
                         ELSE t.bs_counter < t.bs /\ PausesAt(x, t.offset, t.bs - t.bs_counter)
    BY DEF SendsIn
  <2>1. AllFull(q, m, e) /\ AllFull(s, m, e) /\ Unanswered(p, m, e)
    BY <1>1, <1>8 DEF SendsIn
  <2>2. CASE t.bs = 0
    <3>1. r.st = "recv" => ~r.owes /\ r.left = 0
      BY <1>1, <2>2 DEF SendsIn
    <3> QED
      BY <1>8, <2>1, <2>2, <3>1
  <2>3. CASE t.bs # 0
    <3>1. t.bs_counter < t.bs /\ PausesAt(r, t.offset, t.bs - t.bs_counter)
      BY <1>1, <2>3 DEF SendsIn
    <3>2. t.bs \in Nat /\ t.bs_counter \in Nat
      <4>1. t.bs \in 0..255 /\ t.bs_counter \in 0..255
        BY TxFields
      <4> QED
        BY <4>1, Byte
    <3>3. t.bs - t.bs_counter \in Nat /\ t.bs - t.bs_counter # 0
      BY <3>1, <3>2
    <3>4. PausesAt(x, t.offset, t.bs - t.bs_counter)
      BY <1>9, <2>1, <3>1, <3>3
    <3> QED
      BY <2>1, <2>3, <3>1, <3>4
  <2> QED
    BY <2>2, <2>3
<1>11. WaitsIn(t, s, p, x, m, e)
  <2> SUFFICES ASSUME t.state = "TX_WAIT_FC"
               PROVE  \/ WaitsFirst(s, p, x, m, e)
                      \/ WaitsBlock(t, s, p, x, m, e)
                      \/ s = <<>> /\ Answers(p, m, e, x)
    BY DEF WaitsIn
  <2>1. WaitsFirst(q, p, r, m, e) \/ WaitsBlock(t, q, p, r, m, e)
    BY <1>1 DEF WaitsIn
  <2>2. CASE n = 1
    <3>1. Unanswered(p, m, e)
      BY <2>1 DEF WaitsFirst, WaitsBlock
    <3>2. Answers(p, m, e, x)
      BY <3>1 DEF Unanswered, Answers
    <3> QED
      BY <1>5, <2>2, <3>2
  <2>3. CASE n # 1 /\ WaitsBlock(t, q, p, r, m, e)
    <3>1. 0 \in Nat /\ AllFull(q, m, e) /\ PausesAt(r, t.offset, 0) /\ Unanswered(p, m, e)
      BY <2>3 DEF WaitsBlock
    <3>2. AllFull(s, m, e) /\ PausesAt(x, t.offset, 0) /\ s # <<>>
      BY <1>5, <1>8, <1>9, <2>3, <3>1
    <3> QED
      BY <3>1, <3>2 DEF WaitsBlock
  <2>4. CASE n # 1 /\ WaitsFirst(q, p, r, m, e)
    <3>1. /\ q[n].pci = "FF" /\ Unanswered(p, m, e) /\ (r.st = "recv" => r.m # m)
          /\ \A k \in 1..(n - 1) : q[k].m # m
      BY <1>1, <2>4 DEF WaitsFirst
    <3>2. s # <<>> /\ s[Len(s)].pci = "FF"
      BY <1>5, <1>6, <2>4, <3>1
    <3>3. \A k \in 1..(Len(s) - 1) : s[k].m # m
      <4>1. \A k \in 1..(n - 1 - 1) : k \in 1..(n - 1) /\ k + 1 \in 1..(n - 1)
        BY <1>2
      <4> QED
        BY <1>2, <3>1, <4>1
    <3>4. x.st = "recv" => x.m # m
      <4>1. f.m # m
        BY <1>2, <1>3, <2>4, <3>1
      <4>2. f.to = e => (x.st = "recv" => x.m = f.m \/ (r.st = "recv" /\ x.m = r.m))
        BY <1>2, <1>3, <1>4, EcuReceiveIs
      <4> QED
        BY <1>4, <3>1, <4>1, <4>2
    <3> QED
      BY <3>1, <3>2, <3>3, <3>4 DEF WaitsFirst
  <2> QED
    BY <2>1, <2>2, <2>3, <2>4
<1> QED
  BY <1>1, <1>10, <1>11

\* The bus takes the frame in front of the queue.
LEMMA PaceTwaiTransmit == Base /\ Own /\ Whole /\ Pace /\ TwaiTransmit => Pace'
<1> SUFFICES ASSUME Base, Own, Whole, Pace, TwaiTransmit, Clear(hist')
             PROVE  Paced(tx', q_twai_tx', q_twai_rx', ecu', call')
  BY DEF Pace
<1>1. /\ q_twai_tx # <<>> /\ q_twai_tx' = Tail(q_twai_tx) /\ UNCHANGED <<tx, call, q_twai_rx>>
      /\ q_twai_tx \in Seq(FrameType) /\ hist \in HistType /\ ecu \in [Ecus -> EcuType]
      /\ tx \in TxType /\ call \in CallType
  BY DEF TwaiTransmit, Base, Types
<1>2. PICK q, p, E, F, f : /\ q = q_twai_tx /\ p = q_twai_rx /\ E = ecu /\ F = ecu' /\ f = Head(q)
  OBVIOUS
<1>3. UNCHANGED hist /\ F = [e \in Ecus |-> IF e = f.to THEN EcuReceive(E[e], f) ELSE E[e]]
  <2>1. ~(hist' = [hist EXCEPT !.lost = TRUE])
    BY <1>1 DEF HistType, Clear
  <2> QED
    BY <1>2, <2>1 DEF TwaiTransmit
<1>4. Paced(tx, q, p, E, call) /\ Lined(q) /\ Awaited(q, E)
  BY <1>2, <1>3 DEF Pace, Whole, InOrder, Clear
<1>5. /\ f \in FrameType /\ f = q[1] /\ Len(q) \in Nat /\ Len(q) >= 1 /\ Len(Tail(q)) = Len(q) - 1
      /\ \A k \in 1..(Len(q) - 1) : Tail(q)[k] = q[k + 1]
  BY <1>1, <1>2, TailIs
<1>6. 1 \in 1..Len(q)
  BY <1>5
<1>7. f.to \in Ecus /\ E[f.to] \in EcuType
  BY <1>1, <1>2, <1>4, <1>5, <1>6 DEF Lined
<1>8. F[f.to] = EcuReceive(E[f.to], f) /\ \A e \in Ecus : e # f.to => F[e] = E[e]
  BY <1>3, <1>7
<1>9. PICK r, x : r = E[f.to] /\ x = F[f.to]
  OBVIOUS
<1>10. /\ x.st = "recv" => x.m = f.m \/ (r.st = "recv" /\ x.m = r.m)
       /\ x.owes => x.st = "recv" \/ (r.owes /\ r.st # "recv")
       /\ x.overrun => r.overrun \/ (f.pci = "CF" /\ r.st = "recv" /\ r.owes)
  BY <1>5, <1>7, <1>8, <1>9, EcuReceiveIs
<1>11. Numbered(Tail(q), p, F, call)
  <2>1. \A k \in 1..Len(q) : Known(call, q[k].m)
    BY <1>4 DEF Paced, Numbered
  <2>2. \A k \in 1..Len(Tail(q)) : Known(call, Tail(q)[k].m)
    <3>1. \A k \in 1..(Len(q) - 1) : k + 1 \in 1..Len(q)
      BY <1>5
    <3> QED
      BY <1>5, <2>1, <3>1
  <2>3. Known(call, f.m)
    BY <1>5, <1>6, <2>1
  <2>4. \A e \in Ecus : F[e].st = "recv" => Known(call, F[e].m)
    BY <1>4, <1>7, <1>8, <1>9, <1>10, <2>3 DEF Paced, Numbered
  <2> QED
    BY <1>4, <2>2, <2>4 DEF Paced, Numbered
<1>12. Train(Tail(q), F)
  <2>1. /\ q \in Seq(FrameType) /\ q # <<>> /\ E \in [Ecus -> EcuType]
        /\ Train(q, E) /\ F[Head(q).to] = EcuReceive(E[Head(q).to], Head(q))
        /\ \A e \in Ecus : e # Head(q).to => F[e] = E[e]
    BY <1>1, <1>2, <1>4, <1>8 DEF Paced
  <2> QED
    BY <1>4, <2>1, TrainLeaves
<1>13. Calm(F)
  <2>1. \A e \in Ecus : ~E[e].overrun /\ (E[e].owes => E[e].st = "recv")
    BY <1>4 DEF Paced, Calm
  <2>2. f.pci = "CF" => Admits(r, f.off)
    BY <1>4, <1>5, <1>6, <1>9 DEF Paced, Train
  <2>3. ~x.overrun /\ (x.owes => x.st = "recv")
    BY <1>7, <1>9, <1>10, <2>1, <2>2 DEF Admits
  <2> QED
    BY <1>8, <1>9, <2>1, <2>3 DEF Calm
<1>14. InPace(tx, Tail(q), p, F, call)
  <2> SUFFICES ASSUME call.pc \in Sending
               PROVE  /\ SendsIn(tx, Tail(q), p, F[Peer[call.who]], call.m, Peer[call.who])
                      /\ WaitsIn(tx, Tail(q), p, F[Peer[call.who]], call.m, Peer[call.who])
    BY DEF InPace
  <2>1. PICK e, m : e = Peer[call.who] /\ m = call.m
    OBVIOUS
  <2>2. e \in Ecus
    BY <2>1, Waiter, Consts
  <2>3. Ready(q, E, m, e, tx.offset)
    <3>1. tx.offset = call.sent
      BY <1>3 DEF Own, Owns, Underway, Clear
    <3>2. Ready(q, E, m, e, call.sent)
      BY <1>2, <1>3, <2>1 DEF Whole, InOrder, Clear
    <3> QED
      BY <3>1, <3>2
  <2>4. SendsIn(tx, q, p, E[e], m, e) /\ WaitsIn(tx, q, p, E[e], m, e)
    BY <1>4, <2>1 DEF Paced, InPace
  <2>5. /\ q \in Seq(FrameType) /\ q # <<>> /\ E \in [Ecus -> EcuType] /\ tx \in TxType
        /\ Lined(q) /\ Awaited(q, E) /\ Train(q, E)
        /\ F[Head(q).to] = EcuReceive(E[Head(q).to], Head(q))
        /\ \A z \in Ecus : z # Head(q).to => F[z] = E[z]
    BY <1>1, <1>2, <1>4, <1>8 DEF Paced
  <2>6. SendsIn(tx, Tail(q), p, F[e], m, e) /\ WaitsIn(tx, Tail(q), p, F[e], m, e)
    BY <2>2, <2>3, <2>4, <2>5, PaceLeaves
  <2> QED
    BY <2>1, <2>6
<1> QED
  BY <1>1, <1>2, <1>11, <1>12, <1>13, <1>14 DEF Paced

LEMMA PaceStep ==
  ASSUME Base, Pace, call' \in CallType, NEW pc, NEW next, NEW t, Step(pc, next, t),
         next \notin Sending, next \in Unsent => pc \in Unsent
  PROVE  Pace'
<1>1. UNCHANGED <<q_twai_tx, q_twai_rx, ecu, hist>> /\ call.pc = pc /\ call' = [call EXCEPT !.pc = next]
  BY DEF Step
<1>2. call'.pc = next /\ call'.m = call.m
  BY <1>1 DEF Base, Types, CallType
<1> QED
  BY <1>1, <1>2, PaceStill

LEMMA PaceNext == Base /\ Own /\ Whole /\ Pace /\ [Next]_vars => Pace'
<1> SUFFICES ASSUME Base, Own, Whole, Pace, [Next]_vars PROVE Pace'
  OBVIOUS
<1>1. call' \in CallType /\ call \in CallType /\ tx \in TxType
  <2>1. Base'
    BY BaseNext
  <2> QED
    BY <2>1 DEF Base, Types
<1>2. CASE IterationFc \/ IterationIdle \/ CfUnblocked
  BY <1>2, PaceIterationFc, PaceIterationIdle, PaceCfUnblocked
<1>3. CASE CfTimeout
  <2>1. UNCHANGED <<tx, call, q_twai_tx, q_twai_rx, ecu, hist>>
    BY <1>3 DEF CfTimeout
  <2> QED
    BY <1>1, <2>1, PaceStill DEF Alike
<1>4. CASE \E x \in Callers : Begin(x) \/ Lock(x)
  <2>1. ASSUME NEW x \in Callers, Begin(x) PROVE Pace'
    <3>1. UNCHANGED <<tx, call, q_twai_tx, q_twai_rx, ecu, hist>>
      BY <2>1 DEF Begin
    <3> QED
      BY <1>1, <3>1, PaceStill DEF Alike
  <2>2. ASSUME NEW x \in Callers, Lock(x) PROVE Pace'
    <3>1. /\ UNCHANGED <<q_twai_tx, q_twai_rx, ecu, hist>> /\ call'.m = call.m + 1
          /\ call'.pc \notin Sending
      BY <2>2 DEF Lock, Sending
    <3> QED
      BY <1>1, <3>1, PaceStill
  <2> QED
    BY <1>4, <2>1, <2>2
<1>5. CASE \/ Drain \/ Arm \/ StoreTxId \/ StoreRxId \/ StoreBuffer \/ StoreLength \/ StoreRest
           \/ StartWait \/ Finish
  <2>1. PICK pc, next, t : Step(pc, next, t) /\ next \notin Sending /\ (next \in Unsent => pc \in Unsent)
    <3>1. /\ \A x \in {"arm", "tx_id", "rx_id", "buffer", "length", "rest", "start", "ff", "return"} :
               x \notin Sending
          /\ \A x \in {"drain", "arm", "tx_id", "rx_id", "buffer", "length", "rest", "start"} :
               x \in Unsent
          /\ "return" \notin Unsent
      BY DEF Sending, Unsent, Armed
    <3> QED
      BY <1>5, <3>1 DEF Drain, Arm, StoreTxId, StoreRxId, StoreBuffer, StoreLength, StoreRest,
         StartWait, Finish
  <2> QED
    BY <1>1, <2>1, PaceStep
<1>6. CASE SendSf \/ SendFf
  BY <1>6, PaceSendSf, PaceSendFf
<1>7. CASE WaitTaken \/ WaitTimeout
  <2>1. /\ call.pc \in Sending /\ call'.m = call.m /\ call'.who = call.who
        /\ call'.pc \notin Unsent /\ UNCHANGED <<q_twai_tx, q_twai_rx, ecu, hist>>
    BY <1>1, <1>7 DEF WaitTaken, WaitTimeout, CallType, Sending, Unsent, Armed
  <2>2. Alike(tx, tx')
    BY <1>1, <1>7 DEF WaitTaken, WaitTimeout, TxType, Alike
  <2> QED
    BY <1>1, <2>1, <2>2, PaceStill
<1>8. CASE Return
  <2>1. /\ call'.pc \notin Sending /\ call'.pc \notin Unsent /\ call'.m = call.m
        /\ UNCHANGED <<q_twai_tx, q_twai_rx, ecu, hist>>
    BY <1>8 DEF Return, NoCall, Sending, Unsent, Armed
  <2> QED
    BY <1>1, <2>1, PaceStill
<1>9. CASE TwaiTransmit
  BY <1>9, PaceTwaiTransmit
<1>10. CASE \E e \in Ecus : EcuSendFc(e)
  BY <1>10, PaceEcuSendFc
<1>11. CASE Tick
  <2>1. /\ call'.pc = call.pc /\ call'.m = call.m /\ call'.who = call.who
        /\ UNCHANGED <<q_twai_tx, q_twai_rx, ecu, hist>>
    BY <1>1, <1>11 DEF Tick, CallType
  <2>2. Alike(tx, tx')
    BY <1>1, <1>11 DEF Tick, TxType, Alike
  <2> QED
    BY <1>1, <2>1, <2>2, PaceStill
<1>12. CASE UNCHANGED vars
  <2>1. UNCHANGED <<tx, call, q_twai_tx, q_twai_rx, ecu, hist>>
    BY <1>12 DEF vars
  <2> QED
    BY <1>1, <2>1, PaceStill DEF Alike
<1> QED
  BY <1>2, <1>3, <1>4, <1>5, <1>6, <1>7, <1>8, <1>9, <1>10, <1>11, <1>12
     DEF Next, IsotpTask, IsotpSend

LEMMA InitPace == Init => Pace
<1> SUFFICES ASSUME Init PROVE Paced(tx, q_twai_tx, q_twai_rx, ecu, call)
  BY DEF Pace
<1>1. /\ q_twai_tx = <<>> /\ q_twai_rx = <<>> /\ call.pc \notin Sending
      /\ ecu = [e \in Ecus |-> NoReception]
  BY DEF Init, NoCall, Sending
<1>2. Numbered(<<>>, <<>>, ecu, call)
  BY <1>1 DEF Numbered, NoReception
<1>3. Train(<<>>, ecu)
  BY Nothing
<1>4. Calm(ecu)
  BY <1>1 DEF Calm, NoReception
<1>5. InPace(tx, <<>>, <<>>, ecu, call)
  BY <1>1 DEF InPace
<1> QED
  BY <1>1, <1>2, <1>3, <1>4, <1>5 DEF Paced

LEMMA PaceAlways == Spec => [](Base /\ Own /\ Whole /\ Pace)
<1>1. Init => Base /\ Own /\ Whole /\ Pace
  BY InitBase, InitOwn, InitWhole, InitPace
<1>2. Base /\ Own /\ Whole /\ Pace /\ [Next]_vars => (Base /\ Own /\ Whole /\ Pace)'
  BY BaseNext, OwnNext, WholeNext, PaceNext
<1> QED
  BY <1>1, <1>2, PTL DEF Spec

\* An ECU that has asked for a pause, or not yet answered the First Frame, gets no Consecutive
\* Frame, whatever block sizes it asks for and whatever was aborted before - unless isotp_task
\* wrote tx_state while a caller was filling it, the bus lost a frame, or a Flow Control came so
\* late that it was taken for the next message's.
THEOREM NeverOverrun == Spec => []EcuNotOverrun
<1>1. ASSUME Base, Pace PROVE EcuNotOverrun
  <2>1. hist \in HistType
    BY <1>1 DEF Base, Types
  <2>2. Clear(hist) => Calm(ecu)
    BY <1>1 DEF Pace, Paced
  <2> QED
    BY <2>1, <2>2 DEF Clear, Calm, EcuNotOverrun, HistType
<1> QED
  BY <1>1, PaceAlways, PTL
====
