------------------------ MODULE FlashSequenceProofs ------------------------
(***************************************************************************)
(* The types, the bus lock, the event bit and Tester Present during a       *)
(* flash; what FLASH_OK promises; and that uds_flash_sequence implements the *)
(* download procedure: for every image, every ECU and any number of flashes  *)
(* and requests.                                                            *)
(***************************************************************************)
EXTENDS FlashSequence, SequenceTheorems, TLAPS

-----------------------------------------------------------------------------
(* Requests and their answers *)

\* The next block lies in the image, and the one before the last byte is not empty.
LEMMA ChunkInImage ==
  ASSUME FlashType, flash.offset <= flash.job.size
  PROVE  ChunkLen(flash) \in Nat /\ flash.offset + ChunkLen(flash) <= flash.job.size
BY SequenceConstants DEF FlashType, ChunkLen

\* Every request of a flash is one of the abstract procedure's.
LEMMA RequestTyped ==
  ASSUME TypeOK, flash.pc \in Steps
  PROVE  RequestOf(flash) \in RequestType
<1>1. ChunkLen(flash) \in Nat
  BY ChunkInImage DEF TypeOK
<1>2. CASE flash.pc = "transfer"
  BY <1>1, <1>2, SequenceConstants DEF TypeOK, FlashType, RequestOf, FP!Block, RequestType, Steps
<1>3. CASE flash.pc # "transfer"
  BY <1>3, SequenceConstants DEF TypeOK, FlashType, RequestOf, FP!Request, RequestType
<1> QED
  BY <1>2, <1>3

\* An answered request leaves only a longer history.
LEMMA AnsweredHist ==
  ASSUME TypeOK, flash.pc \in Steps, Answered
  PROVE  HistType' /\ hist'.tps = hist.tps
<1> DEFINE r == RequestOf(flash)
<1>1. r \in RequestType
  BY RequestTyped
<1>2. hist.sent \in Seq(RequestType) /\ hist.done \in Seq(RequestType)
  BY DEF TypeOK, HistType
<1>3. Append(hist.sent, r) \in Seq(RequestType) /\ Append(hist.done, r) \in Seq(RequestType)
  BY <1>1, <1>2
<1>4. CASE hist' = [hist EXCEPT !.sent = Append(@, r), !.done = Append(@, r)]
  BY <1>3, <1>4 DEF TypeOK, HistType
<1>5. ASSUME NEW done \in {hist.done, Append(hist.done, r)},
             hist' = [hist EXCEPT !.sent = Append(@, r), !.done = done, !.stale = TRUE]
      PROVE  HistType' /\ hist'.tps = hist.tps
  <2>1. done \in Seq(RequestType)
    BY <1>2, <1>3, <1>5
  <2> QED
    BY <1>3, <1>5, <2>1 DEF TypeOK, HistType
<1>6. \/ hist' = [hist EXCEPT !.sent = Append(@, r), !.done = Append(@, r)]
      \/ \E done \in {hist.done, Append(hist.done, r)} :
           hist' = [hist EXCEPT !.sent = Append(@, r), !.done = done, !.stale = TRUE]
  BY DEF Answered, TypeOK, HistType
<1> QED
  BY <1>4, <1>5, <1>6

\* So does a failed one.
LEMMA FailedHist ==
  ASSUME TypeOK, flash.pc \in Steps, Failed
  PROVE  HistType' /\ hist'.tps = hist.tps
<1> DEFINE r == RequestOf(flash)
           Sids == {Sid(s) : s \in Steps} \cup {r2.sid : r2 \in Raw}
<1>1. r \in RequestType
  BY RequestTyped
<1>2. hist.sent \in Seq(RequestType) /\ hist.done \in Seq(RequestType) /\ hist.open \in SUBSET Sids
  BY DEF TypeOK, HistType
<1>3. Append(hist.sent, r) \in Seq(RequestType) /\ Append(hist.done, r) \in Seq(RequestType)
  BY <1>1, <1>2
<1>4. hist.open \cup {Sid(flash.pc)} \in SUBSET Sids
  BY <1>2
<1>5. PICK done \in {hist.done, Append(hist.done, r)},
           open \in {hist.open, hist.open \cup {Sid(flash.pc)}} :
        hist' = [hist EXCEPT !.sent = Append(@, r), !.done = done, !.open = open]
  BY DEF Failed
<1>6. done \in Seq(RequestType) /\ open \in SUBSET Sids
  BY <1>2, <1>3, <1>4
<1> QED
  BY <1>3, <1>5, <1>6 DEF TypeOK, HistType

\* The counter stays a byte that is not 0.
LEMMA NextBscTyped == \A bsc \in 1..BscMax : NextBsc(bsc) \in 1..BscMax
BY SequenceConstants DEF NextBsc

-----------------------------------------------------------------------------
(* Types *)

LEMMA TypeInit == Init => TypeOK
<1> SUFFICES ASSUME Init PROVE TypeOK
  OBVIOUS
<1> USE SequenceConstants
<1>1. flash.job \in Jobs /\ flash.pc = "idle" /\ flash.result = "none"
  BY DEF Init
<1>2. flash = [pc |-> "idle", job |-> flash.job, offset |-> 0, bsc |-> 1, max_chunk |-> 0,
               result |-> "none"]
  BY DEF Init
<1>3. FlashType
  BY <1>1, <1>2 DEF FlashType
<1>4. flash.offset <= flash.job.size
  BY <1>1, <1>2
<1>5. HistType
  BY DEF Init, HistType
<1> QED
  BY <1>3, <1>4, <1>5 DEF Init, TypeOK

LEMMA TypeNext == TypeOK /\ [Next]_vars => TypeOK'
<1> SUFFICES ASSUME TypeOK, [Next]_vars PROVE TypeOK'
  OBVIOUS
<1> USE SequenceConstants
<1>1. ASSUME NEW j \in Jobs, FlashStart(j) PROVE TypeOK'
  <2>1. HistType'
    <3>1. hist.flashes + 1 \in 0..MaxFlashes
      BY <1>1 DEF FlashStart, TypeOK, HistType
    <3>2. <<>> \in Seq(RequestType)
      OBVIOUS
    <3>3. hist' = [sent |-> <<>>, done |-> <<>>, stale |-> FALSE, tps |-> 0,
                   open |-> hist.open, flashes |-> hist.flashes + 1, raws |-> hist.raws]
      BY <1>1 DEF FlashStart, TypeOK, HistType
    <3>4. hist.open \subseteq ({Sid(s) : s \in Steps} \cup {r.sid : r \in Raw})
          /\ hist.raws \in 0..MaxRaw
      BY DEF TypeOK, HistType
    <3> QED
      BY <3>1, <3>2, <3>3, <3>4 DEF HistType
  <2>2. FlashType'
    BY <1>1 DEF FlashStart, FlashType
  <2>3. flash'.offset = 0 /\ flash'.job = j
    BY <1>1 DEF FlashStart
  <2> QED
    BY <1>1, <2>1, <2>2, <2>3 DEF FlashStart, TypeOK
<1>2. CASE FlashLock
  BY <1>2 DEF FlashLock, TypeOK, FlashType, HistType, Steps
<1>3. CASE FlashRefused
  BY <1>3 DEF FlashRefused, TypeOK, FlashType, HistType
<1>4. CASE RequestFails
  <2>1. HistType'
    BY <1>4, AnsweredHist, FailedHist DEF RequestFails
  <2> QED
    BY <1>4, <2>1 DEF RequestFails, FlashFail, TypeOK, FlashType
<1>5. ASSUME NEW pc \in Steps, GoesOn(pc), UNCHANGED <<g_uds_bus_lock, flashInProgress, uds>>,
             tp' \in [active : BOOLEAN, pc : {"delay", "send"}]
      PROVE  TypeOK'
  <2>1. HistType'
    BY <1>5, AnsweredHist DEF GoesOn
  <2> QED
    BY <1>5, <2>1 DEF GoesOn, TypeOK, FlashType
<1>6. CASE SessionDone
  BY <1>5, <1>6 DEF SessionDone, Quietly, TypeOK, Steps
<1>7. CASE SeedDone
  BY <1>5, <1>7 DEF SeedDone, Quietly, TypeOK, Steps
<1>8. CASE KeyDone
  BY <1>5, <1>8 DEF KeyDone, TypeOK, Steps
<1>9. CASE EraseDone
  BY <1>5, <1>9 DEF EraseDone, Quietly, TypeOK, Steps
<1>10. CASE DownloadDone
  <2>1. HistType'
    BY <1>10, AnsweredHist DEF DownloadDone, Steps
  <2>2. PICK mbs \in Offers :
          mbs >= 3 /\ flash' = [flash EXCEPT !.pc = "transfer", !.max_chunk = ChunkOf(mbs)]
    BY <1>10 DEF DownloadDone
  <2>3. ChunkOf(mbs) \in 0..(MaxPayload - 2)
    BY <2>2 DEF ChunkOf
  <2> QED
    BY <1>10, <2>1, <2>2, <2>3 DEF DownloadDone, Quietly, TypeOK, FlashType, Steps
<1>11. CASE TransferDone
  <2> DEFINE f == [flash EXCEPT !.offset = @ + ChunkLen(flash), !.bsc = NextBsc(@)]
  <2>1. HistType'
    BY <1>11, AnsweredHist DEF TransferDone, Steps
  <2>2. ChunkLen(flash) \in Nat /\ flash.offset + ChunkLen(flash) <= flash.job.size
    BY ChunkInImage DEF TypeOK
  <2>3. NextBsc(flash.bsc) \in 1..BscMax
    BY NextBscTyped DEF TypeOK, FlashType
  <2>4. LoopPc(f) \in Steps
    BY DEF LoopPc, Steps
  <2>5. flash' = [f EXCEPT !.pc = LoopPc(f)]
    BY <1>11 DEF TransferDone
  <2>6. flash' = [flash EXCEPT !.offset = flash.offset + ChunkLen(flash),
                               !.bsc = NextBsc(flash.bsc), !.pc = LoopPc(f)]
    BY <2>5 DEF TypeOK, FlashType
  <2>7. flash.offset + ChunkLen(flash) \in Nat
    BY <2>2 DEF TypeOK, FlashType
  <2> HIDE DEF f
  <2>8. FlashType' /\ flash'.offset = flash.offset + ChunkLen(flash) /\ flash'.job = flash.job
    BY <2>3, <2>4, <2>6, <2>7 DEF TypeOK, FlashType
  <2> QED
    BY <1>11, <2>1, <2>2, <2>8 DEF TransferDone, Quietly, TypeOK
<1>12. CASE ExitDone
  BY <1>5, <1>12 DEF ExitDone, Quietly, TypeOK, Steps
<1>13. CASE CheckDone
  BY <1>5, <1>13 DEF CheckDone, Quietly, TypeOK, Steps
<1>14. CASE ResetDone
  <2>1. HistType'
    BY <1>14, AnsweredHist DEF ResetDone, Steps
  <2> QED
    BY <1>14, <2>1 DEF ResetDone, TypeOK, FlashType
<1>15. ASSUME NEW r \in Raw, UdsBegins(r) PROVE TypeOK'
  <2>1. hist.raws + 1 \in 0..MaxRaw
    BY <1>15 DEF UdsBegins, TypeOK, HistType
  <2>2. HistType'
    BY <1>15, <2>1 DEF UdsBegins, TypeOK, HistType
  <2> QED
    BY <1>15, <2>2 DEF UdsBegins, TypeOK, FlashType
<1>16. CASE UdsEnds
  <2> DEFINE Sids == {Sid(s) : s \in Steps} \cup {r.sid : r \in Raw}
  <2>1. uds \in Raw
    BY <1>16 DEF UdsEnds, TypeOK
  <2>2. hist.open \in SUBSET Sids /\ hist.open \cup {uds.sid} \in SUBSET Sids
    BY <2>1 DEF TypeOK, HistType
  <2>3. HistType'
    <3>1. hist' = hist \/ \E open \in SUBSET Sids : hist' = [hist EXCEPT !.open = open]
      BY <1>16, <2>2 DEF UdsEnds
    <3> QED
      BY <3>1 DEF TypeOK, HistType
  <2>4. tp' \in [active : BOOLEAN, pc : {"delay", "send"}]
    BY <1>16 DEF UdsEnds, TypeOK
  <2> QED
    BY <1>16, <2>3, <2>4 DEF UdsEnds, TypeOK, FlashType
<1>17. CASE TpCheck
  BY <1>17 DEF TpCheck, TypeOK, FlashType, HistType
<1>18. CASE TpSend
  <2> DEFINE n == IF flashInProgress /\ hist.tps < 2 THEN hist.tps + 1 ELSE hist.tps
  <2>1. n \in 0..2
    BY DEF TypeOK, HistType
  <2>2. hist' = [hist EXCEPT !.tps = n]
    BY <1>18 DEF TpSend
  <2> HIDE DEF n
  <2>3. HistType'
    BY <2>1, <2>2 DEF TypeOK, HistType
  <2> QED
    BY <1>18, <2>3 DEF TpSend, TypeOK, FlashType
<1>19. CASE UNCHANGED vars
  BY <1>19 DEF vars, TypeOK, FlashType, HistType
<1> QED
  BY <1>1, <1>2, <1>3, <1>4, <1>6, <1>7, <1>8, <1>9, <1>10, <1>11, <1>12, <1>13, <1>14,
     <1>15, <1>16, <1>17, <1>18, <1>19
     DEF Next, FlashTask, TpTask

\* A flash keeps within its image, its counter within a byte and off 0, its blocks
\* within an ISO-TP message.
THEOREM TypeCorrect == Spec => []TypeOK
BY TypeInit, TypeNext, PTL DEF Spec

-----------------------------------------------------------------------------
(* The lock, the event bit and Tester Present *)

\* A Tester Present that was past its check is counted when it is sent, and then the
\* bit keeps the next one at its check; none is counted before the flash sets the bit.
OneInFlight ==
  /\ ~flashInProgress /\ flash.pc # "idle" => hist.tps = 0
  /\ flashInProgress /\ tp.pc = "send" => hist.tps = 0

IInv == TypeOK /\ LockAndBit /\ OneInFlight /\ OneTpPerFlash

LEMMA InvInit == Init => IInv
<1> SUFFICES ASSUME Init PROVE IInv
  OBVIOUS
<1>1. TypeOK
  BY TypeInit
<1>2. flash.pc = "idle"
  BY DEF Init
<1> QED
  BY <1>1, <1>2 DEF Init, IInv, LockAndBit, OneInFlight, OneTpPerFlash, Steps

LEMMA InvNext == IInv /\ [Next]_vars => IInv'
<1> SUFFICES ASSUME IInv, [Next]_vars PROVE IInv'
  OBVIOUS
<1> DEFINE Rest == LockAndBit /\ OneInFlight /\ OneTpPerFlash
<1>t. TypeOK /\ TypeOK'
  BY TypeNext DEF IInv
<1>h. /\ flash \in [pc : Steps \cup {"idle", "lock"}, job : Jobs, offset : Nat, bsc : 1..BscMax,
                    max_chunk : 0..(MaxPayload - 2),
                    result : {"none", "running", "ok", "error"}]
      /\ tp \in [active : BOOLEAN, pc : {"delay", "send"}]
      /\ hist.tps \in 0..2 /\ flashInProgress \in BOOLEAN
  BY <1>t DEF TypeOK, FlashType, HistType
<1>r. LockAndBit /\ OneInFlight /\ OneTpPerFlash
  BY DEF IInv
<1> SUFFICES Rest'
  BY <1>t DEF IInv
<1> USE <1>r DEF LockAndBit, OneInFlight, OneTpPerFlash
<1>1. ASSUME NEW j \in Jobs, FlashStart(j) PROVE Rest'
  <2>1. hist'.tps = 0
    BY <1>1, <1>t DEF FlashStart, TypeOK, HistType
  <2> QED
    BY <1>1, <1>h, <2>1 DEF FlashStart, Steps
<1>2. CASE FlashLock
  BY <1>2, <1>h DEF FlashLock, Steps
<1>3. CASE FlashRefused
  BY <1>3, <1>h DEF FlashRefused, Steps
<1>4. CASE RequestFails
  <2>1. hist'.tps = hist.tps
    BY <1>4, <1>t, AnsweredHist, FailedHist DEF RequestFails
  <2> QED
    BY <1>4, <1>h, <2>1 DEF RequestFails, FlashFail, Steps
\* One more request of the flash, which does not touch the lock or the bit.
<1>5. ASSUME flash.pc \in Steps, flash'.pc \in Steps, Answered, tp'.pc = tp.pc,
             UNCHANGED <<g_uds_bus_lock, flashInProgress, uds>>
      PROVE  Rest'
  <2>1. hist'.tps = hist.tps
    BY <1>5, <1>t, AnsweredHist
  <2> QED
    BY <1>5, <1>h, <2>1
<1>6. CASE SessionDone
  BY <1>5, <1>6, <1>h DEF SessionDone, GoesOn, Quietly, Steps
<1>7. CASE SeedDone
  BY <1>5, <1>7, <1>h DEF SeedDone, GoesOn, Quietly, Steps
<1>8. CASE KeyDone
  BY <1>5, <1>8, <1>h DEF KeyDone, GoesOn, Steps
<1>9. CASE EraseDone
  BY <1>5, <1>9, <1>h DEF EraseDone, GoesOn, Quietly, Steps
<1>10. CASE DownloadDone
  BY <1>5, <1>10, <1>h DEF DownloadDone, Quietly, Steps
<1>11. CASE TransferDone
  <2>1. flash'.pc \in Steps
    BY <1>11, <1>h DEF TransferDone, LoopPc, Steps
  <2> QED
    BY <1>5, <1>11, <1>h, <2>1 DEF TransferDone, Quietly, Steps
<1>12. CASE ExitDone
  BY <1>5, <1>12, <1>h DEF ExitDone, GoesOn, Quietly, Steps
<1>13. CASE CheckDone
  BY <1>5, <1>13, <1>h DEF CheckDone, GoesOn, Quietly, Steps
<1>14. CASE ResetDone
  <2>1. hist'.tps = hist.tps
    BY <1>14, <1>t, AnsweredHist DEF ResetDone, Steps
  <2> QED
    BY <1>14, <1>h, <2>1 DEF ResetDone, Steps
<1>15. ASSUME NEW r \in Raw, UdsBegins(r) PROVE Rest'
  <2>1. hist'.tps = hist.tps
    BY <1>15, <1>t DEF UdsBegins, TypeOK, HistType
  <2> QED
    BY <1>15, <1>h, <2>1, NoRawIsNone DEF UdsBegins
<1>16. CASE UdsEnds
  <2>1. hist'.tps = hist.tps /\ tp'.pc = tp.pc
    BY <1>16, <1>t DEF UdsEnds, TypeOK, HistType
  <2> QED
    BY <1>16, <1>h, <2>1 DEF UdsEnds
<1>17. CASE TpCheck
  BY <1>17, <1>h DEF TpCheck
<1>18. CASE TpSend
  <2>1. hist'.tps = IF flashInProgress /\ hist.tps < 2 THEN hist.tps + 1 ELSE hist.tps
    BY <1>18, <1>t DEF TpSend, TypeOK, HistType
  <2> QED
    BY <1>18, <1>h, <2>1 DEF TpSend
<1>19. CASE UNCHANGED vars
  BY <1>19 DEF vars
<1> QED
  BY <1>t, <1>1, <1>2, <1>3, <1>4, <1>6, <1>7, <1>8, <1>9, <1>10, <1>11, <1>12, <1>13,
     <1>14, <1>15, <1>16, <1>17, <1>18, <1>19
     DEF Next, FlashTask, TpTask

THEOREM Invariant == Spec => []IInv
BY InvInit, InvNext, PTL DEF Spec

\* On every path of a flash the lock and the event bit are given back together.
THEOREM LockAndBitTogether == Spec => []LockAndBit
<1>1. IInv => LockAndBit
  BY DEF IInv
<1> QED
  BY <1>1, Invariant, PTL

\* At most one Tester Present gets into a flash.
THEOREM OneTesterPresent == Spec => []OneTpPerFlash
<1>1. IInv => OneTpPerFlash
  BY DEF IInv
<1> QED
  BY <1>1, Invariant, PTL

-----------------------------------------------------------------------------
(* Remainders *)

\* The remainder of a quotient and a rest is the rest,
LEMMA ModOfSum == ASSUME NEW c \in Nat \ {0}, NEW q \in Nat, NEW r \in 0..(c-1)
  PROVE (q*c + r) % c = r
<1> DEFINE a == q*c + r
<1>1. a \in Nat /\ (a \div c) \in Nat /\ (a % c) \in 0..(c-1) /\ a = (a \div c)*c + (a%c)
  OBVIOUS
<1> DEFINE d == a \div c
<1> DEFINE m == a % c
<1>2. d = q
  <2>1. q*c + r = d*c + m
    BY <1>1
  <2> HIDE DEF d, m
  <2>2. d \in Nat /\ m \in 0..(c-1)
    BY <1>1 DEF d, m
  <2>3. CASE d > q
    <3>1. PICK e \in Nat : d = q + e + 1
      <4>1. d = q + (d - q - 1) + 1 /\ d - q - 1 \in Nat
        BY <2>2, <2>3
      <4> QED BY <4>1
    <3>2. d * c = q*c + e*c + c
      BY <3>1
    <3> QED BY <3>2, <2>1, <2>2, <3>1
  <2>4. CASE d < q
    <3>1. PICK e \in Nat : q = d + e + 1
      <4>1. q = d + (q - d - 1) + 1 /\ q - d - 1 \in Nat
        BY <2>2, <2>4
      <4> QED BY <4>1
    <3>2. q * c = d*c + e*c + c
      BY <2>2, <3>1
    <3> QED BY <3>2, <2>1, <2>2, <3>1
  <2> QED BY <2>2, <2>3, <2>4
<1> HIDE DEF d
<1>3. q*c + r = q*c + m
  BY <1>1, <1>2 DEF d
<1> QED BY <1>1, <1>3

\* so remainders are counted up in a circle.
LEMMA ModSucc == ASSUME NEW k \in Nat, NEW c \in Nat \ {0}
  PROVE ((k%c)+1)%c = (k+1)%c
<1> DEFINE q == k \div c
           r == k % c
<1>1. q \in Nat /\ r \in 0..(c-1) /\ k = q*c + r
  OBVIOUS
<1> HIDE DEF q, r
<1>2. CASE r + 1 < c
  <2>1. (q*c + (r+1)) % c = r + 1
    BY ModOfSum, <1>1, <1>2
  <2>2. (0*c + (r+1)) % c = r + 1
    <3>1. 0 \in Nat /\ r+1 \in 0..(c-1)
      BY <1>1, <1>2
    <3> QED BY ONLY ModOfSum, <3>1
  <2>3. q*c + (r+1) = k + 1 /\ 0*c + (r+1) = r + 1
    BY <1>1
  <2> QED BY <2>1, <2>2, <2>3 DEF r
<1>3. CASE r + 1 = c
  <2>1. ((q+1)*c + 0) % c = 0
    BY ModOfSum, <1>1
  <2>2. (1*c + 0) % c = 0
    BY ModOfSum
  <2>3. (q+1)*c + 0 = k + 1
    BY <1>1, <1>3
  <2> QED BY <1>1, <1>3, <2>1, <2>2, <2>3 DEF r
<1> QED BY <1>1, <1>2, <1>3

-----------------------------------------------------------------------------
(* The procedure, request by request *)

\* Requests, whatever their numbers.
SomeRequest == [name : Steps, bsc : Int, offset : Int, len : Int]

\* How many requests go before the blocks, how many blocks there are, and how many
\* requests come after them.
Lead(j) == IF j.erase THEN 5 ELSE 4
Count(j, c) == (j.size + c - 1) \div c
Coda(j) == IF j.check THEN 3 ELSE 2

\* The requests before the blocks, in their places.
LEMMA PrologueIs ==
  ASSUME NEW j \in Jobs
  PROVE  /\ FP!Prologue(j) \in Seq(SomeRequest) /\ Len(FP!Prologue(j)) = Lead(j)
         /\ FP!Prologue(j)[1] = FP!Request("session") /\ FP!Prologue(j)[2] = FP!Request("seed")
         /\ FP!Prologue(j)[3] = FP!Request("key")
         /\ j.erase => FP!Prologue(j)[4] = FP!Request("erase")
         /\ FP!Prologue(j)[Lead(j)] = FP!Request("download")
<1> DEFINE a == <<FP!Request("session"), FP!Request("seed"), FP!Request("key")>>
           d == <<FP!Request("download")>>
           e == FP!If(j.erase, <<FP!Request("erase")>>)
<1>1. \A s \in Steps : FP!Request(s) \in SomeRequest
  BY DEF FP!Request, SomeRequest
<1>2. a \in Seq(SomeRequest) /\ d \in Seq(SomeRequest)
  BY <1>1 DEF Steps
<1>3. Len(a) = 3 /\ Len(d) = 1 /\ d[1] = FP!Request("download")
      /\ a[1] = FP!Request("session") /\ a[2] = FP!Request("seed") /\ a[3] = FP!Request("key")
  OBVIOUS
<1>4. /\ e \in Seq(SomeRequest) /\ Len(e) = IF j.erase THEN 1 ELSE 0
      /\ j.erase => e[1] = FP!Request("erase")
  <2>1. CASE j.erase
    <3>1. e = <<FP!Request("erase")>>
      BY <2>1 DEF FP!If
    <3> HIDE DEF e
    <3> QED
      BY <1>1, <2>1, <3>1 DEF Steps
  <2>2. CASE ~j.erase
    <3>1. e = <<>>
      BY <2>2 DEF FP!If
    <3> HIDE DEF e
    <3> QED
      BY <2>2, <3>1
  <2> QED
    BY <2>1, <2>2
<1>5. FP!Prologue(j) = (a \o e) \o d
  BY DEF FP!Prologue
<1> HIDE DEF a, d, e
<1>6. /\ a \o e \in Seq(SomeRequest) /\ Len(a \o e) = Len(a) + Len(e)
      /\ \A i \in 1..(Len(a) + Len(e)) : (a \o e)[i] = IF i <= Len(a) THEN a[i] ELSE e[i - Len(a)]
  BY <1>2, <1>4, ConcatProperties
<1> DEFINE b == a \o e
<1> HIDE DEF b
<1>7. /\ b \o d \in Seq(SomeRequest) /\ Len(b \o d) = Len(b) + Len(d)
      /\ \A i \in 1..(Len(b) + Len(d)) : (b \o d)[i] = IF i <= Len(b) THEN b[i] ELSE d[i - Len(b)]
  BY <1>2, <1>6, ConcatProperties DEF b
<1>8. Len(b) = Lead(j) - 1 /\ Lead(j) \in {4, 5} /\ (j.erase <=> Lead(j) = 5)
  BY <1>3, <1>4, <1>6 DEF b, Lead
<1> QED
  BY <1>3, <1>4, <1>5, <1>6, <1>7, <1>8 DEF b

\* The requests after them.
LEMMA EpilogueIs ==
  ASSUME NEW j \in Jobs
  PROVE  /\ FP!Epilogue(j) \in Seq(SomeRequest) /\ Len(FP!Epilogue(j)) = Coda(j)
         /\ FP!Epilogue(j)[1] = FP!Request("exit")
         /\ j.check => FP!Epilogue(j)[2] = FP!Request("check")
         /\ FP!Epilogue(j)[Coda(j)] = FP!Request("reset")
<1> DEFINE a == <<FP!Request("exit")>>
           d == <<FP!Request("reset")>>
           e == FP!If(j.check, <<FP!Request("check")>>)
<1>1. \A s \in Steps : FP!Request(s) \in SomeRequest
  BY DEF FP!Request, SomeRequest
<1>2. a \in Seq(SomeRequest) /\ d \in Seq(SomeRequest)
  BY <1>1 DEF Steps
<1>3. Len(a) = 1 /\ Len(d) = 1 /\ d[1] = FP!Request("reset") /\ a[1] = FP!Request("exit")
  OBVIOUS
<1>4. /\ e \in Seq(SomeRequest) /\ Len(e) = IF j.check THEN 1 ELSE 0
      /\ j.check => e[1] = FP!Request("check")
  <2>1. CASE j.check
    <3>1. e = <<FP!Request("check")>>
      BY <2>1 DEF FP!If
    <3> HIDE DEF e
    <3> QED
      BY <1>1, <2>1, <3>1 DEF Steps
  <2>2. CASE ~j.check
    <3>1. e = <<>>
      BY <2>2 DEF FP!If
    <3> HIDE DEF e
    <3> QED
      BY <2>2, <3>1
  <2> QED
    BY <2>1, <2>2
<1>5. FP!Epilogue(j) = (a \o e) \o d
  BY DEF FP!Epilogue
<1> HIDE DEF a, d, e
<1>6. /\ a \o e \in Seq(SomeRequest) /\ Len(a \o e) = Len(a) + Len(e)
      /\ \A i \in 1..(Len(a) + Len(e)) : (a \o e)[i] = IF i <= Len(a) THEN a[i] ELSE e[i - Len(a)]
  BY <1>2, <1>4, ConcatProperties
<1> DEFINE b == a \o e
<1> HIDE DEF b
<1>7. /\ b \o d \in Seq(SomeRequest) /\ Len(b \o d) = Len(b) + Len(d)
      /\ \A i \in 1..(Len(b) + Len(d)) : (b \o d)[i] = IF i <= Len(b) THEN b[i] ELSE d[i - Len(b)]
  BY <1>2, <1>6, ConcatProperties DEF b
<1>8. Len(b) = Coda(j) - 1 /\ Coda(j) \in {2, 3} /\ (j.check <=> Coda(j) = 3)
  BY <1>3, <1>4, <1>6 DEF b, Coda
<1> QED
  BY <1>3, <1>4, <1>5, <1>6, <1>7, <1>8 DEF b

\* The image is cut into Count pieces.
LEMMA BlocksAre ==
  ASSUME NEW j \in Jobs, NEW c \in Nat \ {0}
  PROVE  /\ FP!Blocks(j.size, c) \in Seq(SomeRequest) /\ Len(FP!Blocks(j.size, c)) = Count(j, c)
         /\ Count(j, c) \in Nat
         /\ \A k \in 1..Count(j, c) : FP!Blocks(j.size, c)[k] =
              FP!Block(((k - 1) % BscMax) + 1, (k - 1) * c,
                       IF j.size < k * c THEN j.size - (k - 1) * c ELSE c)
<1> DEFINE n == (j.size + c - 1) \div c
           B(k) == FP!Block(((k - 1) % BscMax) + 1, (k - 1) * c,
                            IF j.size < k * c THEN j.size - (k - 1) * c ELSE c)
<1>1. j.size \in Nat \ {0}
  BY SequenceConstants
<1>2. n \in Nat
  BY <1>1
<1>3. ASSUME NEW k \in 1..n PROVE B(k) \in SomeRequest
  <2>1. (k - 1) \in Nat /\ k * c \in Int /\ (k - 1) * c \in Int
    BY <1>2
  <2>2. (k - 1) % BscMax \in Int
    BY <2>1, SequenceConstants
  <2>3. (IF j.size < k * c THEN j.size - (k - 1) * c ELSE c) \in Int
    BY <1>1, <2>1
  <2> QED
    BY <2>1, <2>2, <2>3 DEF FP!Block, SomeRequest, Steps
<1>4. FP!Blocks(j.size, c) = [k \in 1..n |-> B(k)]
  BY DEF FP!Blocks
<1> HIDE DEF B, n
<1>5. [k \in 1..n |-> B(k)] \in Seq(SomeRequest) /\ Len([k \in 1..n |-> B(k)]) = n
  BY <1>2, <1>3
<1> QED
  BY <1>2, <1>4, <1>5 DEF B, n, Count

\* The whole of it: before the size of a block is agreed, only its beginning.
LEMMA PlanIs ==
  ASSUME NEW j \in Jobs, NEW c \in Nat
  PROVE  /\ Lead(j) \in {4, 5} /\ Coda(j) \in {2, 3}
         /\ c = 0 => FP!Plan(j, c) = FP!Prologue(j)
         /\ c # 0 =>
              /\ Len(FP!Plan(j, c)) = Lead(j) + Count(j, c) + Coda(j)
              /\ FP!Plan(j, c) \in Seq(SomeRequest)
              /\ \A i \in 1..Lead(j) : FP!Plan(j, c)[i] = FP!Prologue(j)[i]
              /\ \A k \in 1..Count(j, c) : FP!Plan(j, c)[Lead(j) + k] = FP!Blocks(j.size, c)[k]
              /\ \A k \in 1..Coda(j) :
                   FP!Plan(j, c)[Lead(j) + Count(j, c) + k] = FP!Epilogue(j)[k]
<1>1. Lead(j) \in {4, 5} /\ Coda(j) \in {2, 3}
  BY DEF Lead, Coda
<1> DEFINE p == FP!Prologue(j)
           b == FP!Blocks(j.size, c)
           e == FP!Epilogue(j)
<1>2. p \in Seq(SomeRequest) /\ Len(p) = Lead(j)
  BY PrologueIs
<1>3. e \in Seq(SomeRequest) /\ Len(e) = Coda(j)
  BY EpilogueIs
<1>4. CASE c = 0
  <2>1. FP!Plan(j, c) = p \o <<>>
    BY <1>4 DEF FP!Plan, FP!If
  <2> HIDE DEF p
  <2>2. p \o <<>> = p
    BY <1>2, ConcatEmptySeq
  <2> QED
    BY <1>1, <1>4, <2>1, <2>2 DEF p
<1>5. CASE c # 0
  <2>1. FP!Plan(j, c) = p \o (b \o e)
    BY <1>5 DEF FP!Plan, FP!If
  <2>2. b \in Seq(SomeRequest) /\ Len(b) = Count(j, c) /\ Count(j, c) \in Nat
    BY <1>5, BlocksAre
  <2> HIDE DEF p, b, e
  <2>3. /\ b \o e \in Seq(SomeRequest) /\ Len(b \o e) = Len(b) + Len(e)
        /\ \A i \in 1..(Len(b) + Len(e)) : (b \o e)[i] = IF i <= Len(b) THEN b[i] ELSE e[i - Len(b)]
    BY <1>3, <2>2, ConcatProperties
  <2> DEFINE r == b \o e
  <2> HIDE DEF r
  <2>4. /\ p \o r \in Seq(SomeRequest) /\ Len(p \o r) = Len(p) + Len(r)
        /\ \A i \in 1..(Len(p) + Len(r)) : (p \o r)[i] = IF i <= Len(p) THEN p[i] ELSE r[i - Len(p)]
    BY <1>2, <2>3, ConcatProperties DEF r
  <2> DEFINE q == p \o r
  <2>5. FP!Plan(j, c) = q
    BY <2>1 DEF r
  <2> HIDE DEF q
  <2>6. q \in Seq(SomeRequest) /\ Len(q) = Lead(j) + Count(j, c) + Coda(j)
    BY <1>2, <1>3, <2>2, <2>3, <2>4 DEF r, q
  <2>7. ASSUME NEW i \in 1..Lead(j) PROVE q[i] = p[i]
    BY <1>1, <1>2, <1>3, <2>2, <2>3, <2>4 DEF r, q
  <2>8. ASSUME NEW m \in 1..(Count(j, c) + Coda(j)) PROVE q[Lead(j) + m] = r[m]
    <3>1. Len(p) = Lead(j) /\ Len(r) = Count(j, c) + Coda(j)
      BY <1>2, <1>3, <2>2, <2>3 DEF r
    <3> DEFINE i == Lead(j) + m
    <3>2. i \in 1..(Len(p) + Len(r)) /\ ~(i <= Len(p)) /\ i - Len(p) = m
      BY <1>1, <2>2, <3>1
    <3> HIDE DEF i
    <3>3. q[i] = r[i - Len(p)]
      BY <2>4, <3>2 DEF q
    <3> QED
      BY <3>2, <3>3 DEF i
  <2>9. ASSUME NEW k \in 1..Count(j, c) PROVE q[Lead(j) + k] = b[k]
    <3>1. r[k] = b[k]
      BY <1>1, <1>3, <2>2, <2>3 DEF r
    <3> QED
      BY <1>1, <2>2, <2>8, <3>1
  <2>10. ASSUME NEW k \in 1..Coda(j) PROVE q[Lead(j) + Count(j, c) + k] = e[k]
    <3>1. Count(j, c) + k \in 1..(Count(j, c) + Coda(j))
      BY <1>1, <2>2
    <3>2. r[Count(j, c) + k] = e[k]
      BY <1>1, <1>3, <2>2, <2>3, <3>1 DEF r
    <3>3. q[Lead(j) + (Count(j, c) + k)] = r[Count(j, c) + k]
      BY <2>8, <3>1
    <3>4. Lead(j) + (Count(j, c) + k) = Lead(j) + Count(j, c) + k
      BY <1>1, <2>2
    <3> QED
      BY <3>2, <3>3, <3>4
  <2> QED
    BY <1>1, <1>5, <2>5, <2>6, <2>7, <2>9, <2>10 DEF p, b, e
<1> QED
  BY <1>4, <1>5

-----------------------------------------------------------------------------
(* The requests sent so far *)

\* s is the beginning of t.
Begins(s, t) == Len(s) <= Len(t) /\ \A i \in 1..Len(s) : s[i] = t[i]

LEMMA BeginsMore ==
  ASSUME NEW S, NEW T, NEW s \in Seq(S), NEW t \in Seq(T), NEW x \in S,
         Begins(s, t), Len(s) < Len(t), x = t[Len(s) + 1]
  PROVE  Begins(Append(s, x), t) /\ Len(Append(s, x)) = Len(s) + 1
<1>1. /\ Len(Append(s, x)) = Len(s) + 1
      /\ \A i \in 1..Len(s) : Append(s, x)[i] = s[i]
      /\ Append(s, x)[Len(s) + 1] = x
  BY AppendProperties
<1> QED
  BY <1>1, LenProperties DEF Begins

LEMMA BeginsAll ==
  ASSUME NEW S, NEW T, NEW s \in Seq(S), NEW t \in Seq(T), Begins(s, t), Len(s) = Len(t)
  PROVE  s = t
<1>1. s \in Seq(S \cup T) /\ t \in Seq(S \cup T)
  OBVIOUS
<1> QED
  BY <1>1, SeqEqual DEF Begins

\* What has been sent is the beginning of the procedure for this flash,
InOrder == Begins(hist.sent, FP!Plan(flash.job, flash.max_chunk))

\* up to the request the flash is at,
Place ==
  /\ flash.pc \in {"lock", "session"} => Len(hist.sent) = 0
  /\ flash.pc = "seed" => Len(hist.sent) = 1
  /\ flash.pc = "key" => Len(hist.sent) = 2
  /\ flash.pc = "erase" => Len(hist.sent) = 3 /\ flash.job.erase
  /\ flash.pc = "download" => Len(hist.sent) = Lead(flash.job) - 1
  /\ flash.pc \in {"exit", "check", "reset"} \/ flash.result = "ok" =>
       LET blocks == Lead(flash.job) + Count(flash.job, flash.max_chunk)
       IN  /\ flash.pc = "exit" => Len(hist.sent) = blocks
           /\ flash.pc = "check" => Len(hist.sent) = blocks + 1 /\ flash.job.check
           /\ flash.pc = "reset" => Len(hist.sent) = blocks + Coda(flash.job) - 1
           /\ flash.result = "ok" => Len(hist.sent) = blocks + Coda(flash.job)

\* k blocks of it in the loop: the offset and the counter say how many.
InLoop ==
  flash.pc = "transfer" =>
    \E k \in Nat :
      /\ flash.offset = k * flash.max_chunk /\ flash.offset < flash.job.size
      /\ flash.bsc = (k % BscMax) + 1 /\ Len(hist.sent) = Lead(flash.job) + k

\* The size of a block is known once the answer to the download request has come,
Agreed ==
  /\ flash.pc \in {"lock", "session", "seed", "key", "erase", "download"} =>
       flash.max_chunk = 0 /\ flash.offset = 0 /\ flash.bsc = 1
  /\ flash.pc \in {"transfer", "exit", "check", "reset"} \/ flash.result = "ok" =>
       flash.max_chunk # 0

\* a flash is running from its start to its end,
Running == flash.result = "running" <=> flash.pc # "idle"

\* and without an answer taken for another what was answered was performed.
Clean == flash.result \in {"running", "ok"} /\ ~hist.stale => hist.done = hist.sent

Progress == InOrder /\ Place /\ InLoop /\ Agreed /\ Running /\ Clean

\* The request the flash is at is the next of the procedure.
LEMMA NextRequest ==
  ASSUME TypeOK, Progress, flash.pc \in Steps
  PROVE  /\ Len(hist.sent) < Len(FP!Plan(flash.job, flash.max_chunk))
         /\ RequestOf(flash) = FP!Plan(flash.job, flash.max_chunk)[Len(hist.sent) + 1]
<1> DEFINE j == flash.job
           c == flash.max_chunk
           n == Len(hist.sent)
           plan == FP!Plan(j, c)
<1>1. j \in Jobs /\ c \in Nat /\ n \in Nat
  BY SequenceConstants DEF TypeOK, FlashType, HistType
<1>2. CASE flash.pc \in {"session", "seed", "key", "erase", "download"}
  <2>1. c = 0 /\ plan = FP!Prologue(j)
    BY <1>1, <1>2, PlanIs DEF Progress, Agreed
  <2>2. RequestOf(flash) = FP!Request(flash.pc)
    BY <1>2 DEF RequestOf
  <2>3. Lead(j) \in {4, 5}
    BY DEF Lead
  <2>4. n + 1 \in 1..Lead(j) /\ FP!Prologue(j)[n + 1] = FP!Request(flash.pc)
    <3>1. CASE flash.pc \in {"session", "seed", "key"}
      <4>1. /\ flash.pc = "session" => n = 0
            /\ flash.pc = "seed" => n = 1
            /\ flash.pc = "key" => n = 2
        BY DEF Progress, Place
      <4> HIDE DEF n
      <4>2. n \in {0, 1, 2} /\ n + 1 \in {1, 2, 3}
        BY <3>1, <4>1
      <4>3. /\ FP!Prologue(j)[1] = FP!Request("session") /\ FP!Prologue(j)[2] = FP!Request("seed")
            /\ FP!Prologue(j)[3] = FP!Request("key")
        BY <1>1, PrologueIs
      <4> QED
        BY <1>1, <2>3, <3>1, <4>1, <4>2, <4>3
    <3>2. CASE flash.pc = "erase"
      <4>1. n = 3 /\ j.erase
        BY <3>2 DEF Progress, Place
      <4>2. Lead(j) = 5 /\ FP!Prologue(j)[4] = FP!Request("erase")
        BY <1>1, <4>1, PrologueIs DEF Lead
      <4> QED
        BY <3>2, <4>1, <4>2
    <3>3. CASE flash.pc = "download"
      <4>1. n + 1 = Lead(j)
        BY <2>3, <3>3 DEF Progress, Place
      <4> QED
        BY <1>1, <2>3, <3>3, <4>1, PrologueIs
    <3> QED
      BY <1>2, <3>1, <3>2, <3>3
  <2> QED
    BY <1>1, <2>1, <2>2, <2>3, <2>4, PrologueIs
<1>3. CASE flash.pc = "transfer"
  <2>1. PICK k \in Nat : /\ flash.offset = k * c /\ flash.offset < j.size
                         /\ flash.bsc = (k % BscMax) + 1 /\ n = Lead(j) + k
    BY <1>3 DEF Progress, InLoop
  <2>2. c \in Nat \ {0} /\ j.size \in Nat \ {0}
    BY <1>1, <1>3, SequenceConstants DEF Progress, Agreed
  <2>3. k < Count(j, c) /\ Count(j, c) \in Nat /\ k + 1 \in 1..Count(j, c)
    <3>1. j.size \in Nat /\ k * c < j.size
      BY <2>1, <2>2
    <3>2. k < (j.size + c - 1) \div c /\ (j.size + c - 1) \div c \in Nat
      <4> HIDE DEF j, c
      <4> QED
        BY <2>2, <3>1
    <3> QED
      BY <3>2 DEF Count
  <2>4. Lead(j) \in {4, 5} /\ Coda(j) \in {2, 3} /\ Len(plan) = Lead(j) + Count(j, c) + Coda(j)
    BY <1>1, <2>2, PlanIs
  <2>5. plan[Lead(j) + (k + 1)] = FP!Blocks(j.size, c)[k + 1]
    BY <1>1, <2>2, <2>3, PlanIs
  <2>6. FP!Blocks(j.size, c)[k + 1] =
          FP!Block((((k + 1) - 1) % BscMax) + 1, ((k + 1) - 1) * c,
                   IF j.size < (k + 1) * c THEN j.size - ((k + 1) - 1) * c ELSE c)
    <3> HIDE DEF j, c
    <3> QED
      BY <1>1, <2>2, <2>3, BlocksAre
  <2>7. (k + 1) - 1 = k /\ (k + 1) * c = k * c + c /\ k * c \in Nat
    BY <2>2
  <2>8. ChunkLen(flash) = IF j.size < (k + 1) * c THEN j.size - k * c ELSE c
    <3> HIDE DEF j, c
    <3>1. ChunkLen(flash) = IF j.size - flash.offset > c THEN c ELSE j.size - flash.offset
      BY DEF ChunkLen, j, c
    <3>2. PICK kc \in Nat : kc = k * c
      BY <2>7
    <3> QED
      BY <2>1, <2>2, <2>7, <3>1, <3>2
  <2>9. RequestOf(flash) = FP!Block((k % BscMax) + 1, k * c, ChunkLen(flash))
    BY <1>3, <2>1 DEF RequestOf
  <2>10. RequestOf(flash) = plan[Lead(j) + (k + 1)]
    BY <2>5, <2>6, <2>7, <2>8, <2>9
  <2>11. n + 1 = Lead(j) + (k + 1) /\ n < Len(plan)
    BY <2>1, <2>3, <2>4
  <2> QED
    BY <2>10, <2>11
<1>4. CASE flash.pc \in {"exit", "check", "reset"}
  <2>1. c \in Nat \ {0}
    BY <1>1, <1>4 DEF Progress, Agreed
  <2>2. Count(j, c) \in Nat
    BY <1>1, <2>1, BlocksAre
  <2>3. /\ Lead(j) \in {4, 5} /\ Coda(j) \in {2, 3} /\ Len(plan) = Lead(j) + Count(j, c) + Coda(j)
        /\ \A k \in 1..Coda(j) : plan[Lead(j) + Count(j, c) + k] = FP!Epilogue(j)[k]
    BY <1>1, <2>1, PlanIs
  <2>4. RequestOf(flash) = FP!Request(flash.pc)
    BY <1>4 DEF RequestOf
  <2> DEFINE b == Lead(j) + Count(j, c)
  <2>5. /\ flash.pc = "exit" => n = b
        /\ flash.pc = "check" => n = b + 1 /\ Coda(j) = 3
        /\ flash.pc = "reset" => n = b + Coda(j) - 1
    BY <1>4 DEF Progress, Place, Coda
  <2>6. b \in Nat
    BY <2>2, <2>3
  <2>7. PICK k \in 1..Coda(j) : n = b + k - 1 /\ FP!Epilogue(j)[k] = FP!Request(flash.pc)
    <3> HIDE DEF b, n, c
    <3>1. CASE flash.pc = "exit"
      <4>1. 1 \in 1..Coda(j) /\ n = b + 1 - 1
        BY <2>3, <2>5, <2>6, <3>1
      <4> QED
        BY <1>1, <3>1, <4>1, EpilogueIs
    <3>2. CASE flash.pc = "check"
      <4>1. 2 \in 1..Coda(j) /\ n = b + 2 - 1
        BY <2>3, <2>5, <2>6, <3>2
      <4>2. j.check
        BY <1>4, <3>2 DEF Progress, Place
      <4> QED
        BY <1>1, <3>2, <4>1, <4>2, EpilogueIs
    <3>3. CASE flash.pc = "reset"
      <4>1. Coda(j) \in 1..Coda(j) /\ n = b + Coda(j) - 1
        BY <2>3, <2>5, <2>6, <3>3
      <4> QED
        BY <1>1, <3>3, <4>1, EpilogueIs
    <3> QED
      BY <1>4, <3>1, <3>2, <3>3
  <2>8. n + 1 = b + k /\ n < Len(plan)
    BY <2>3, <2>6, <2>7
  <2> QED
    BY <2>3, <2>4, <2>7, <2>8
<1> QED
  BY <1>2, <1>3, <1>4 DEF Steps

LEMMA PlanIsSeq ==
  ASSUME TypeOK
  PROVE  /\ FP!Plan(flash.job, flash.max_chunk) \in Seq(SomeRequest)
         /\ flash.job \in Jobs /\ flash.max_chunk \in Nat
<1>1. flash.job \in Jobs /\ flash.max_chunk \in Nat
  BY SequenceConstants DEF TypeOK, FlashType
<1> QED
  BY <1>1, PlanIs, PrologueIs

\* A request, answered or not, is one more of the procedure.
LEMMA SentGrows ==
  ASSUME TypeOK, Progress, flash.pc \in Steps, Answered \/ Failed
  PROVE  /\ Len(hist'.sent) = Len(hist.sent) + 1
         /\ Begins(hist'.sent, FP!Plan(flash.job, flash.max_chunk))
         /\ hist'.sent = Append(hist.sent, FP!Plan(flash.job, flash.max_chunk)[Len(hist.sent) + 1])
         /\ Len(hist.sent) < Len(FP!Plan(flash.job, flash.max_chunk))
<1> DEFINE r == RequestOf(flash)
           plan == FP!Plan(flash.job, flash.max_chunk)
<1>1. hist'.sent = Append(hist.sent, r)
  BY DEF Answered, Failed, TypeOK, HistType
<1>2. r \in RequestType /\ hist.sent \in Seq(RequestType)
  BY RequestTyped DEF TypeOK, HistType
<1>3. plan \in Seq(SomeRequest)
  BY PlanIsSeq
<1>4. Len(hist.sent) < Len(plan) /\ r = plan[Len(hist.sent) + 1]
  BY NextRequest
<1>5. Begins(hist.sent, plan)
  BY DEF Progress, InOrder
<1> HIDE DEF r, plan
<1>6. Begins(Append(hist.sent, r), plan) /\ Len(Append(hist.sent, r)) = Len(hist.sent) + 1
  BY <1>2, <1>3, <1>4, <1>5, BeginsMore
<1> QED
  BY <1>1, <1>4, <1>6 DEF plan

\* An answered one was performed, unless an earlier answer was taken for its own.
LEMMA AnsweredClean ==
  ASSUME TypeOK, Progress, flash.pc \in Steps, Answered, ~hist'.stale
  PROVE  hist'.done = hist'.sent
<1> DEFINE r == RequestOf(flash)
<1>1. \/ hist' = [hist EXCEPT !.sent = Append(@, r), !.done = Append(@, r)]
      \/ hist'.stale
  BY DEF Answered, TypeOK, HistType
<1>2. hist' = [hist EXCEPT !.sent = Append(@, r), !.done = Append(@, r)]
  BY <1>1
<1>3. hist'.stale <=> hist.stale
  BY <1>2 DEF TypeOK, HistType
<1>4. flash.result = "running"
  BY DEF Progress, Running, Steps
<1>5. hist.done = hist.sent
  BY <1>3, <1>4 DEF Progress, Clean
<1> QED
  BY <1>2, <1>5 DEF TypeOK, HistType

LEMMA ProgressInit == Init => Progress
<1> SUFFICES ASSUME Init PROVE Progress
  OBVIOUS
<1>1. /\ flash.pc = "idle" /\ flash.result = "none" /\ flash.max_chunk = 0 /\ flash.job \in Jobs
      /\ hist.sent = <<>>
  BY DEF Init
<1>2. FP!Plan(flash.job, flash.max_chunk) \in Seq(SomeRequest)
  BY PlanIsSeq, TypeInit
<1>3. InOrder
  BY <1>1, <1>2 DEF InOrder, Begins
<1> QED
  BY <1>1, <1>3 DEF Progress, Place, InLoop, Agreed, Running, Clean

LEMMA ProgressNext == TypeOK /\ Progress /\ [Next]_vars => Progress'
<1> SUFFICES ASSUME TypeOK, Progress, [Next]_vars PROVE Progress'
  OBVIOUS
<1>t. TypeOK'
  BY TypeNext
<1>h. /\ flash \in [pc : Steps \cup {"idle", "lock"}, job : Jobs, offset : Nat, bsc : 1..BscMax,
                    max_chunk : 0..(MaxPayload - 2),
                    result : {"none", "running", "ok", "error"}]
      /\ Len(hist.sent) \in Nat /\ flash.max_chunk \in Nat
      /\ Lead(flash.job) \in {4, 5} /\ Coda(flash.job) \in {2, 3}
  BY SequenceConstants DEF TypeOK, FlashType, HistType, Lead, Coda
<1>c. flash.max_chunk # 0 => Count(flash.job, flash.max_chunk) \in Nat
  BY <1>h, BlocksAre
<1>p. flash.pc \in Steps => flash.result = "running"
  BY DEF Progress, Running, Steps
<1>1. ASSUME NEW j \in Jobs, FlashStart(j) PROVE Progress'
  <2>1. hist'.sent = <<>> /\ hist'.done = <<>>
    BY <1>1 DEF FlashStart, TypeOK, HistType
  <2>2. /\ flash'.pc = "lock" /\ flash'.offset = 0 /\ flash'.bsc = 1 /\ flash'.max_chunk = 0
        /\ flash'.result = "running"
    BY <1>1 DEF FlashStart
  <2>3. FP!Plan(flash'.job, flash'.max_chunk) \in Seq(SomeRequest)
    <3>1. flash'.job \in Jobs
      BY <1>1 DEF FlashStart
    <3> QED
      BY <2>2, <3>1, PlanIs, PrologueIs
  <2>4. InOrder'
    BY <2>1, <2>3 DEF InOrder, Begins
  <2> QED
    BY <2>1, <2>2, <2>4 DEF Progress, Place, InLoop, Agreed, Running, Clean
<1>2. CASE FlashLock
  BY <1>2, <1>h DEF FlashLock, Progress, InOrder, Place, InLoop, Agreed, Running, Clean
<1>3. CASE FlashRefused
  BY <1>3, <1>h DEF FlashRefused, Progress, InOrder, Place, InLoop, Agreed, Running, Clean
<1>4. CASE RequestFails
  <2>1. /\ flash'.pc = "idle" /\ flash'.result = "error" /\ flash'.job = flash.job
        /\ flash'.max_chunk = flash.max_chunk
    BY <1>4, <1>h DEF RequestFails, FlashFail
  <2>2. Begins(hist'.sent, FP!Plan(flash.job, flash.max_chunk))
    BY <1>4, SentGrows DEF RequestFails
  <2>3. InOrder'
    BY <2>1, <2>2 DEF InOrder
  <2> QED
    BY <2>1, <2>3 DEF Progress, Place, InLoop, Agreed, Running, Clean
\* One more request answered, and the flash goes on with another, but not in the loop.
<1>5. ASSUME NEW pc \in Steps, pc # "transfer", GoesOn(pc), flash.pc # "transfer"
      PROVE  /\ InOrder' /\ InLoop' /\ Running' /\ Clean'
             /\ flash'.pc = pc /\ flash'.job = flash.job /\ flash'.max_chunk = flash.max_chunk
             /\ flash'.offset = flash.offset /\ flash'.bsc = flash.bsc
             /\ flash'.result = "running" /\ Len(hist'.sent) = Len(hist.sent) + 1
  <2>1. /\ flash'.pc = pc /\ flash'.job = flash.job /\ flash'.max_chunk = flash.max_chunk
        /\ flash'.offset = flash.offset /\ flash'.bsc = flash.bsc /\ flash'.result = "running"
    BY <1>5, <1>h, <1>p DEF GoesOn
  <2>2. /\ Len(hist'.sent) = Len(hist.sent) + 1
        /\ Begins(hist'.sent, FP!Plan(flash.job, flash.max_chunk))
    BY <1>5, SentGrows DEF GoesOn
  <2>3. Clean'
    BY <1>5, AnsweredClean DEF GoesOn, Clean
  <2>4. InOrder'
    BY <2>1, <2>2 DEF InOrder
  <2> QED
    BY <1>5, <2>1, <2>2, <2>3, <2>4 DEF InLoop, Running, Steps
<1>6. CASE SessionDone
  <2>1. flash.pc = "session" /\ GoesOn("seed")
    BY <1>6 DEF SessionDone
  <2>2. /\ InOrder' /\ InLoop' /\ Running' /\ Clean'
        /\ flash'.pc = "seed" /\ flash'.job = flash.job /\ flash'.max_chunk = flash.max_chunk
        /\ flash'.offset = flash.offset /\ flash'.bsc = flash.bsc /\ flash'.result = "running"
        /\ Len(hist'.sent) = Len(hist.sent) + 1
    BY <1>5, <2>1 DEF Steps
  <2> QED
    BY <1>h, <2>1, <2>2 DEF Progress, Place, Agreed
<1>7. CASE SeedDone
  <2>1. flash.pc = "seed" /\ GoesOn("key")
    BY <1>7 DEF SeedDone
  <2>2. /\ InOrder' /\ InLoop' /\ Running' /\ Clean'
        /\ flash'.pc = "key" /\ flash'.job = flash.job /\ flash'.max_chunk = flash.max_chunk
        /\ flash'.offset = flash.offset /\ flash'.bsc = flash.bsc /\ flash'.result = "running"
        /\ Len(hist'.sent) = Len(hist.sent) + 1
    BY <1>5, <2>1 DEF Steps
  <2>3. Len(hist.sent) = 1 /\ flash.max_chunk = 0 /\ flash.offset = 0 /\ flash.bsc = 1
    BY <2>1 DEF Progress, Place, Agreed
  <2>4. Place' /\ Agreed'
    BY <2>2, <2>3 DEF Place, Agreed
  <2> QED
    BY <2>2, <2>4 DEF Progress
<1>8. CASE KeyDone
  <2>1. flash.pc = "key" /\ GoesOn(IF flash.job.erase THEN "erase" ELSE "download")
    BY <1>8 DEF KeyDone
  <2>2. Len(hist.sent) = 2 /\ flash.max_chunk = 0 /\ flash.offset = 0 /\ flash.bsc = 1
    BY <2>1 DEF Progress, Place, Agreed
  <2>3. CASE flash.job.erase
    <3>1. /\ InOrder' /\ InLoop' /\ Running' /\ Clean'
          /\ flash'.pc = "erase" /\ flash'.job = flash.job /\ flash'.max_chunk = flash.max_chunk
          /\ flash'.offset = flash.offset /\ flash'.bsc = flash.bsc /\ flash'.result = "running"
          /\ Len(hist'.sent) = Len(hist.sent) + 1
      BY <1>5, <2>1, <2>3 DEF Steps
    <3>2. Place' /\ Agreed'
      BY <2>2, <2>3, <3>1 DEF Place, Agreed
    <3> QED
      BY <3>1, <3>2 DEF Progress
  <2>4. CASE ~flash.job.erase
    <3>1. /\ InOrder' /\ InLoop' /\ Running' /\ Clean'
          /\ flash'.pc = "download" /\ flash'.job = flash.job /\ flash'.max_chunk = flash.max_chunk
          /\ flash'.offset = flash.offset /\ flash'.bsc = flash.bsc /\ flash'.result = "running"
          /\ Len(hist'.sent) = Len(hist.sent) + 1
      BY <1>5, <2>1, <2>4 DEF Steps
    <3>2. Place' /\ Agreed'
      BY <2>2, <2>4, <3>1 DEF Place, Agreed, Lead
    <3> QED
      BY <3>1, <3>2 DEF Progress
  <2> QED
    BY <2>3, <2>4
<1>9. CASE EraseDone
  <2>1. flash.pc = "erase" /\ GoesOn("download")
    BY <1>9 DEF EraseDone
  <2>2. /\ InOrder' /\ InLoop' /\ Running' /\ Clean'
        /\ flash'.pc = "download" /\ flash'.job = flash.job /\ flash'.max_chunk = flash.max_chunk
        /\ flash'.offset = flash.offset /\ flash'.bsc = flash.bsc /\ flash'.result = "running"
        /\ Len(hist'.sent) = Len(hist.sent) + 1
    BY <1>5, <2>1 DEF Steps
  <2>3. /\ Len(hist.sent) = 3 /\ flash.job.erase
        /\ flash.max_chunk = 0 /\ flash.offset = 0 /\ flash.bsc = 1
    BY <2>1 DEF Progress, Place, Agreed
  <2>4. Place' /\ Agreed'
    BY <2>2, <2>3 DEF Place, Agreed, Lead
  <2> QED
    BY <2>2, <2>4 DEF Progress
<1>10. CASE DownloadDone
  <2>1. PICK mbs \in Offers :
          mbs >= 3 /\ flash' = [flash EXCEPT !.pc = "transfer", !.max_chunk = ChunkOf(mbs)]
    BY <1>10 DEF DownloadDone
  <2>2. ChunkOf(mbs) \in Nat \ {0}
    BY <2>1, SequenceConstants DEF ChunkOf
  <2>3. /\ flash'.pc = "transfer" /\ flash'.job = flash.job /\ flash'.max_chunk = ChunkOf(mbs)
        /\ flash'.offset = 0 /\ flash'.bsc = 1 /\ flash'.result = "running"
    BY <1>10, <1>h, <1>p, <2>1 DEF DownloadDone, Progress, Agreed, Steps
  <2>4. flash.pc = "download" /\ flash.pc \in Steps /\ Answered
    BY <1>10 DEF DownloadDone, Steps
  <2>5. Len(hist.sent) = Lead(flash.job) - 1 /\ flash.max_chunk = 0
    BY <2>4 DEF Progress, Place, Agreed
  <2>6. /\ Len(hist'.sent) = Lead(flash.job)
        /\ Begins(hist'.sent, FP!Plan(flash.job, 0))
    BY <1>h, <2>4, <2>5, SentGrows
  <2>7. FP!Plan(flash.job, 0) = FP!Prologue(flash.job)
    BY <1>h, PlanIs
  <2>8. /\ Lead(flash.job) <= Len(FP!Plan(flash.job, ChunkOf(mbs)))
        /\ \A i \in 1..Lead(flash.job) :
             FP!Plan(flash.job, ChunkOf(mbs))[i] = FP!Prologue(flash.job)[i]
    <3> DEFINE c == ChunkOf(mbs)
    <3>1. c \in Nat /\ c # 0
      BY <2>2
    <3> HIDE DEF c
    <3>2. Count(flash.job, c) \in Nat
      BY <1>h, <3>1, BlocksAre
    <3>3. /\ Len(FP!Plan(flash.job, c)) = Lead(flash.job) + Count(flash.job, c) + Coda(flash.job)
          /\ \A i \in 1..Lead(flash.job) : FP!Plan(flash.job, c)[i] = FP!Prologue(flash.job)[i]
      BY <1>h, <3>1, PlanIs
    <3>4. Lead(flash.job) <= Len(FP!Plan(flash.job, c))
      BY <1>h, <3>2, <3>3
    <3> QED
      BY <3>3, <3>4 DEF c
  <2>9. Begins(hist'.sent, FP!Plan(flash.job, ChunkOf(mbs)))
    BY <2>6, <2>7, <2>8 DEF Begins
  <2>10. InOrder'
    BY <2>3, <2>9 DEF InOrder
  <2>11. Clean'
    BY <2>4, AnsweredClean DEF Clean
  <2>12. InLoop'
    <3>1. flash.job.size \in Nat \ {0}
      BY <1>h, SequenceConstants
    <3>2. 0 % BscMax = 0
      BY SequenceConstants
    <3>3. /\ flash'.offset = 0 * flash'.max_chunk /\ flash'.offset < flash'.job.size
          /\ flash'.bsc = (0 % BscMax) + 1 /\ Len(hist'.sent) = Lead(flash'.job) + 0
      BY <1>h, <2>2, <2>3, <2>6, <3>1, <3>2
    <3> QED
      BY <3>3 DEF InLoop
  <2> QED
    BY <2>2, <2>3, <2>10, <2>11, <2>12 DEF Progress, Place, Agreed, Running
<1>11. CASE TransferDone
  <2> DEFINE f == [flash EXCEPT !.offset = @ + ChunkLen(flash), !.bsc = NextBsc(@)]
             c == flash.max_chunk
             s == flash.job.size
  <2>1. flash.pc = "transfer" /\ flash.pc \in Steps /\ Answered /\ flash' = [f EXCEPT !.pc = LoopPc(f)]
    BY <1>11 DEF TransferDone, Steps
  <2>2. /\ flash'.pc = LoopPc(f) /\ flash'.job = flash.job /\ flash'.max_chunk = c
        /\ flash'.offset = flash.offset + ChunkLen(flash) /\ flash'.bsc = NextBsc(flash.bsc)
        /\ flash'.result = "running"
        /\ f.offset = flash.offset + ChunkLen(flash) /\ f.job = flash.job
    BY <1>h, <1>p, <2>1
  <2>3. LoopPc(f) = IF flash'.offset < s THEN "transfer" ELSE "exit"
    BY <2>2 DEF LoopPc
  <2> HIDE DEF f
  <2>4. /\ Len(hist'.sent) = Len(hist.sent) + 1
        /\ Begins(hist'.sent, FP!Plan(flash.job, flash.max_chunk))
    BY <2>1, SentGrows
  <2>5. InOrder'
    BY <2>2, <2>4 DEF InOrder
  <2>6. Clean'
    BY <2>1, AnsweredClean DEF Clean
  <2>7. c \in Nat \ {0} /\ s \in Nat \ {0}
    BY <1>h, <2>1, SequenceConstants DEF Progress, Agreed
  <2>8. PICK k \in Nat : /\ flash.offset = k * c /\ flash.offset < s
                         /\ flash.bsc = (k % BscMax) + 1 /\ Len(hist.sent) = Lead(flash.job) + k
    BY <2>1 DEF Progress, InLoop
  <2>9. ChunkLen(flash) = IF s - flash.offset > c THEN c ELSE s - flash.offset
    BY DEF ChunkLen
  <2>10. CASE flash'.offset < s
    <3>1. flash'.offset = flash.offset + c
      BY <1>h, <2>2, <2>7, <2>8, <2>9, <2>10
    <3>2. flash'.offset = (k + 1) * c
      BY <2>7, <2>8, <3>1
    <3>3. flash'.bsc = ((k + 1) % BscMax) + 1
      BY <2>2, <2>8, ModSucc, SequenceConstants DEF NextBsc
    <3>4. Len(hist'.sent) = Lead(flash.job) + (k + 1)
      BY <1>h, <2>4, <2>8
    <3>5. InLoop'
      BY <2>2, <2>10, <3>2, <3>3, <3>4 DEF InLoop
    <3> QED
      BY <2>2, <2>3, <2>5, <2>6, <2>7, <2>10, <3>5 DEF Progress, Place, Agreed, Running
  <2>11. CASE ~(flash'.offset < s)
    <3>1. k * c < s /\ s <= k * c + c
      BY <1>h, <2>2, <2>7, <2>8, <2>9, <2>11
    <3>2. Count(flash.job, c) = k + 1
      <4>1. (s + c - 1) \div c = k + 1
        <5> HIDE DEF s, c
        <5> QED
          BY <2>7, <3>1
      <4> QED
        BY <4>1 DEF Count
    <3>3. Len(hist'.sent) = Lead(flash.job) + Count(flash.job, c)
      BY <1>h, <2>4, <2>8, <3>2
    <3> QED
      BY <2>2, <2>3, <2>5, <2>6, <2>7, <2>11, <3>3 DEF Progress, Place, InLoop, Agreed, Running
  <2> QED
    BY <2>10, <2>11
<1>12. CASE ExitDone
  <2>1. flash.pc = "exit" /\ GoesOn(IF flash.job.check THEN "check" ELSE "reset")
    BY <1>12 DEF ExitDone
  <2>2. flash.max_chunk # 0 /\ Len(hist.sent) = Lead(flash.job) + Count(flash.job, flash.max_chunk)
    BY <2>1 DEF Progress, Place, Agreed
  <2>3. CASE flash.job.check
    BY <1>5, <1>h, <1>c, <2>1, <2>2, <2>3 DEF Progress, Place, Agreed, Steps
  <2>4. CASE ~flash.job.check
    BY <1>5, <1>h, <1>c, <2>1, <2>2, <2>4 DEF Progress, Place, Agreed, Steps, Coda
  <2> QED
    BY <2>3, <2>4
<1>13. CASE CheckDone
  <2>1. flash.pc = "check" /\ GoesOn("reset")
    BY <1>13 DEF CheckDone
  <2>2. /\ flash.max_chunk # 0 /\ flash.job.check
        /\ Len(hist.sent) = Lead(flash.job) + Count(flash.job, flash.max_chunk) + 1
    BY <2>1 DEF Progress, Place, Agreed
  <2>3. /\ InOrder' /\ InLoop' /\ Running' /\ Clean'
        /\ flash'.pc = "reset" /\ flash'.job = flash.job /\ flash'.max_chunk = flash.max_chunk
        /\ flash'.offset = flash.offset /\ flash'.bsc = flash.bsc /\ flash'.result = "running"
        /\ Len(hist'.sent) = Len(hist.sent) + 1
    BY <1>5, <2>1 DEF Steps
  <2> DEFINE blocks == Lead(flash.job) + Count(flash.job, flash.max_chunk)
  <2>4. blocks \in Nat /\ Coda(flash.job) = 3 /\ Len(hist.sent) = blocks + 1
    BY <1>h, <1>c, <2>2 DEF Coda
  <2>5. Len(hist'.sent) = blocks + Coda(flash.job) - 1
    <3> HIDE DEF blocks
    <3> QED
      BY <2>3, <2>4
  <2>6. Place' /\ Agreed'
    BY <2>2, <2>3, <2>5 DEF Place, Agreed
  <2> QED
    BY <2>3, <2>6 DEF Progress
<1>14. CASE ResetDone
  <2>1. /\ flash.pc = "reset" /\ flash.pc \in Steps /\ Answered
        /\ flash'.pc = "idle" /\ flash'.result = "ok" /\ flash'.job = flash.job
        /\ flash'.max_chunk = flash.max_chunk
    BY <1>14, <1>h DEF ResetDone, Steps
  <2>2. /\ flash.max_chunk # 0
        /\ Len(hist.sent) = Lead(flash.job) + Count(flash.job, flash.max_chunk) + Coda(flash.job) - 1
    BY <2>1 DEF Progress, Place, Agreed
  <2>3. /\ Len(hist'.sent) = Len(hist.sent) + 1
        /\ Begins(hist'.sent, FP!Plan(flash.job, flash.max_chunk))
    BY <2>1, SentGrows
  <2>4. Len(hist'.sent) = Lead(flash.job) + Count(flash.job, flash.max_chunk) + Coda(flash.job)
    BY <1>h, <1>c, <2>2, <2>3
  <2>5. InOrder'
    BY <2>1, <2>3 DEF InOrder
  <2>6. Clean'
    BY <2>1, AnsweredClean DEF Clean
  <2> QED
    BY <2>1, <2>2, <2>4, <2>5, <2>6 DEF Progress, Place, InLoop, Agreed, Running
\* The other tasks leave the flash and its history alone.
<1>15. ASSUME UNCHANGED <<flash, hist.sent, hist.done>>, hist'.stale <=> hist.stale
       PROVE  Progress'
  BY <1>15 DEF Progress, InOrder, Place, InLoop, Agreed, Running, Clean
<1>16. ASSUME NEW r \in Raw, UdsBegins(r) PROVE Progress'
  BY <1>15, <1>16 DEF UdsBegins, TypeOK, HistType
<1>17. CASE UdsEnds
  BY <1>15, <1>17 DEF UdsEnds, TypeOK, HistType
<1>18. CASE TpCheck
  BY <1>15, <1>18 DEF TpCheck
<1>19. CASE TpSend
  BY <1>15, <1>19 DEF TpSend, TypeOK, HistType
<1>20. CASE UNCHANGED vars
  BY <1>15, <1>20 DEF vars
<1> QED
  BY <1>1, <1>2, <1>3, <1>4, <1>6, <1>7, <1>8, <1>9, <1>10, <1>11, <1>12, <1>13, <1>14, <1>16,
     <1>17, <1>18, <1>19, <1>20
     DEF Next, FlashTask, TpTask

LEMMA ProgressAlways == Spec => [](TypeOK /\ Progress)
<1>1. Init => TypeOK /\ Progress
  BY TypeInit, ProgressInit
<1>2. TypeOK /\ Progress /\ [Next]_vars => (TypeOK /\ Progress)'
  BY TypeNext, ProgressNext
<1> QED
  BY <1>1, <1>2, PTL DEF Spec

-----------------------------------------------------------------------------
(* What FLASH_OK promises *)

LEMMA AllSent ==
  ASSUME TypeOK, Progress, flash.result = "ok"
  PROVE  hist.sent = FP!Plan(flash.job, flash.max_chunk) /\ flash.max_chunk # 0
<1> DEFINE plan == FP!Plan(flash.job, flash.max_chunk)
<1>1. plan \in Seq(SomeRequest) /\ flash.job \in Jobs /\ flash.max_chunk \in Nat
  BY PlanIsSeq
<1>2. flash.max_chunk # 0
  BY DEF Progress, Agreed
<1>3. Len(plan) = Lead(flash.job) + Count(flash.job, flash.max_chunk) + Coda(flash.job)
  BY <1>1, <1>2, PlanIs
<1>4. Len(hist.sent) = Lead(flash.job) + Count(flash.job, flash.max_chunk) + Coda(flash.job)
  BY DEF Progress, Place
<1>5. Begins(hist.sent, plan) /\ hist.sent \in Seq(RequestType)
  BY DEF Progress, InOrder, TypeOK, HistType
<1> HIDE DEF plan
<1>6. hist.sent = plan
  BY <1>1, <1>3, <1>4, <1>5, BeginsAll
<1> QED
  BY <1>2, <1>6 DEF plan

\* A flash that ends with FLASH_OK was performed by the ECU from the session to the
\* reset, for an image of any size and blocks of any size, unless an answer to an
\* earlier request was taken for that to another.
THEOREM OkIsDone == Spec => []OkMeansDone
<1>1. TypeOK /\ Progress => OkMeansDone
  BY AllSent DEF OkMeansDone, Progress, Clean
<1> QED
  BY <1>1, ProgressAlways, PTL

-----------------------------------------------------------------------------
(* uds_flash_sequence implements the download procedure *)

abstract == <<flash.job, hist.sent, flash.max_chunk, flash.result>>

LEMMA RefinesInit == Init => FP!Init
<1> SUFFICES ASSUME Init PROVE FP!Init
  OBVIOUS
<1>1. /\ flash.job \in Jobs /\ flash.max_chunk = 0 /\ flash.result = "none" /\ hist.sent = <<>>
  BY DEF Init
<1> QED
  BY <1>1 DEF FP!Init

\* A request of the flash, answered or not, is a step of the procedure.
LEMMA RefinesRequest ==
  ASSUME TypeOK, Progress, flash.pc \in Steps, Answered \/ Failed,
         flash'.job = flash.job, flash'.max_chunk = flash.max_chunk,
         flash'.result \in {"running", "error"}
  PROVE  FP!Next
<1>1. flash.result = "running"
  BY DEF Progress, Running, Steps
<1>2. /\ Len(hist.sent) < Len(FP!Plan(flash.job, flash.max_chunk))
      /\ hist'.sent = Append(hist.sent, FP!Plan(flash.job, flash.max_chunk)[Len(hist.sent) + 1])
  BY SentGrows
<1>3. FP!Advance
  BY <1>1, <1>2 DEF FP!Advance
<1> QED
  BY <1>3 DEF FP!Next

LEMMA RefinesNext ==
  TypeOK /\ Progress /\ TypeOK' /\ Progress' /\ [Next]_vars => [FP!Next]_abstract
<1> SUFFICES ASSUME TypeOK, Progress, TypeOK', Progress', [Next]_vars
             PROVE  FP!Next \/ UNCHANGED abstract
  OBVIOUS
<1>h. flash \in [pc : Steps \cup {"idle", "lock"}, job : Jobs, offset : Nat, bsc : 1..BscMax,
                 max_chunk : 0..(MaxPayload - 2),
                 result : {"none", "running", "ok", "error"}]
  BY DEF TypeOK, FlashType
<1>r. flash.pc # "idle" => flash.result = "running"
  BY DEF Progress, Running
\* The next flash.
<1>1. ASSUME NEW j \in Jobs, FlashStart(j) PROVE FP!Next
  <2>1. flash.result # "running"
    BY <1>1 DEF FlashStart, Progress, Running
  <2>2. hist'.sent = <<>>
    BY <1>1 DEF FlashStart, TypeOK, HistType
  <2>3. flash'.result = "running" /\ flash'.job \in Jobs /\ flash'.max_chunk = 0
    BY <1>1 DEF FlashStart
  <2>4. FP!Begin
    BY <2>1, <2>2, <2>3 DEF FP!Begin
  <2> QED
    BY <2>4 DEF FP!Next
<1>2. CASE FlashLock
  BY <1>2, <1>h DEF FlashLock, abstract
\* No request is sent without the lock.
<1>3. CASE FlashRefused
  <2>1. /\ flash.result = "running" /\ flash'.result = "error" /\ hist'.sent = hist.sent
        /\ flash'.job = flash.job /\ flash'.max_chunk = flash.max_chunk
    BY <1>3, <1>h, <1>r DEF FlashRefused
  <2>2. FP!Advance
    BY <2>1 DEF FP!Advance
  <2> QED
    BY <2>2 DEF FP!Next
<1>4. CASE RequestFails
  BY <1>4, <1>h, RefinesRequest DEF RequestFails, FlashFail
<1>5. ASSUME NEW pc, GoesOn(pc) PROVE FP!Next
  BY <1>5, <1>h, <1>r, RefinesRequest DEF GoesOn, Steps
<1>6. CASE SessionDone
  BY <1>5, <1>6 DEF SessionDone
<1>7. CASE SeedDone
  BY <1>5, <1>7 DEF SeedDone
<1>8. CASE KeyDone
  BY <1>5, <1>8 DEF KeyDone
<1>9. CASE EraseDone
  BY <1>5, <1>9 DEF EraseDone
\* The answer to the last request of the prologue fixes the size of a block.
<1>10. CASE DownloadDone
  <2>1. PICK mbs \in Offers :
          mbs >= 3 /\ flash' = [flash EXCEPT !.pc = "transfer", !.max_chunk = ChunkOf(mbs)]
    BY <1>10 DEF DownloadDone
  <2>2. ChunkOf(mbs) \in 1..(MaxPayload - 2)
    BY <2>1, SequenceConstants DEF ChunkOf
  <2>3. flash.pc = "download" /\ flash.pc \in Steps /\ Answered
    BY <1>10 DEF DownloadDone, Steps
  <2>4. /\ flash.result = "running" /\ flash'.result = "running" /\ flash'.job = flash.job
        /\ flash'.max_chunk = ChunkOf(mbs) /\ flash.job \in Jobs
    BY <1>h, <1>r, <2>1, <2>3
  <2>5. flash.max_chunk = 0 /\ Len(hist.sent) = Lead(flash.job) - 1
    BY <2>3 DEF Progress, Place, Agreed
  <2>6. FP!Plan(flash.job, 0) = FP!Prologue(flash.job) /\ Lead(flash.job) \in {4, 5}
    BY <2>4, PlanIs
  <2>7. /\ Len(hist'.sent) = Lead(flash.job) /\ Begins(hist'.sent, FP!Prologue(flash.job))
        /\ Len(hist.sent) < Len(FP!Plan(flash.job, flash.max_chunk))
        /\ hist'.sent = Append(hist.sent, FP!Plan(flash.job, flash.max_chunk)[Len(hist.sent) + 1])
    BY <2>3, <2>5, <2>6, SentGrows
  <2>8. hist'.sent = FP!Prologue(flash.job)
    <3>1. hist'.sent \in Seq(RequestType)
      BY DEF TypeOK, HistType
    <3>2. FP!Prologue(flash.job) \in Seq(SomeRequest) /\ Len(FP!Prologue(flash.job)) = Lead(flash.job)
      BY <2>4, PrologueIs
    <3> QED
      BY <2>7, <3>1, <3>2, BeginsAll
  <2>9. FP!Advance
    BY <2>2, <2>4, <2>5, <2>7, <2>8 DEF FP!Advance
  <2> QED
    BY <2>9 DEF FP!Next
<1>11. CASE TransferDone
  BY <1>11, <1>h, <1>r, RefinesRequest DEF TransferDone, Steps
<1>12. CASE ExitDone
  BY <1>5, <1>12 DEF ExitDone
<1>13. CASE CheckDone
  BY <1>5, <1>13 DEF CheckDone
\* FLASH_OK: everything was sent.
<1>14. CASE ResetDone
  <2>1. /\ flash.pc \in Steps /\ Answered /\ flash.result = "running" /\ flash'.result = "ok"
        /\ flash'.job = flash.job /\ flash'.max_chunk = flash.max_chunk
    BY <1>14, <1>h, <1>r DEF ResetDone, Steps
  <2>2. /\ Len(hist.sent) < Len(FP!Plan(flash.job, flash.max_chunk))
        /\ hist'.sent = Append(hist.sent, FP!Plan(flash.job, flash.max_chunk)[Len(hist.sent) + 1])
    BY <2>1, SentGrows
  <2>3. hist'.sent = FP!Plan(flash'.job, flash'.max_chunk) /\ flash'.max_chunk # 0
    <3> DEFINE plan == FP!Plan(flash'.job, flash'.max_chunk)
    <3>1. flash'.max_chunk # 0 /\ Begins(hist'.sent, plan)
          /\ Len(hist'.sent) = Lead(flash'.job) + Count(flash'.job, flash'.max_chunk) + Coda(flash'.job)
      BY <2>1 DEF Progress, Agreed, InOrder, Place
    <3>2. plan \in Seq(SomeRequest)
          /\ Len(plan) = Lead(flash'.job) + Count(flash'.job, flash'.max_chunk) + Coda(flash'.job)
      <4>1. flash'.job \in Jobs /\ flash'.max_chunk \in Nat
        BY SequenceConstants DEF TypeOK, FlashType
      <4> QED
        BY <3>1, <4>1, PlanIs
    <3>3. hist'.sent \in Seq(RequestType)
      BY DEF TypeOK, HistType
    <3> HIDE DEF plan
    <3>4. hist'.sent = plan
      BY <3>1, <3>2, <3>3, BeginsAll
    <3> QED
      BY <3>1, <3>4 DEF plan
  <2>4. FP!Advance
    BY <2>1, <2>2, <2>3 DEF FP!Advance
  <2> QED
    BY <2>4 DEF FP!Next
\* The other tasks are not the procedure's.
<1>15. ASSUME NEW r \in Raw, UdsBegins(r) PROVE UNCHANGED abstract
  BY <1>15 DEF UdsBegins, abstract, TypeOK, HistType
<1>16. CASE UdsEnds
  BY <1>16 DEF UdsEnds, abstract, TypeOK, HistType
<1>17. CASE TpCheck
  BY <1>17 DEF TpCheck, abstract
<1>18. CASE TpSend
  BY <1>18 DEF TpSend, abstract, TypeOK, HistType
<1>19. CASE UNCHANGED vars
  BY <1>19 DEF vars, abstract
<1> QED
  BY <1>1, <1>2, <1>3, <1>4, <1>6, <1>7, <1>8, <1>9, <1>10, <1>11, <1>12, <1>13, <1>14, <1>15,
     <1>16, <1>17, <1>18, <1>19
     DEF Next, FlashTask, TpTask

\* The requests uds_flash_sequence sends are those of the download procedure, in order,
\* each once, and it returns FLASH_OK only when all of them were sent.
THEOREM ImplementsTheProcedure == Spec => ImplementsProcedure
<1>1. Init => FP!Init
  BY RefinesInit
<1>2. TypeOK /\ Progress /\ (TypeOK /\ Progress)' /\ [Next]_vars
        => [FP!Next]_<<flash.job, hist.sent, flash.max_chunk, flash.result>>
  BY RefinesNext DEF abstract
<1> QED
  BY <1>1, <1>2, ProgressAlways, PTL DEF Spec, ImplementsProcedure, FP!Spec
=============================================================================
