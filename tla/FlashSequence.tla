--------------------------- MODULE FlashSequence ---------------------------
(***************************************************************************)
(* uds_flash_sequence of main/uds_service.c, request by request, against   *)
(* the two tasks it keeps off the bus: uds_task, by g_uds_bus_lock, and      *)
(* tester_present_task (main/tester_present.c), by EVT_FLASH_IN_PROGRESS.   *)
(*                                                                          *)
(* A call of uds_request_blocking is one action; UdsService has its inside. *)
(* Its result: the ECU performed the request and its answer came in time;    *)
(* or a positive answer to an earlier request for the same service was taken *)
(* for it; or it failed, performed or not. The three tasks share a core, and *)
(* a task of lower priority only runs while the others wait.                *)
(***************************************************************************)
EXTENDS Integers, Sequences

CONSTANTS
  Jobs,        \* flashes: [size, erase, check]
  Offers,      \* maxNumberOfBlockLength of an ECU
  Raw,         \* requests of clients: [sid, session], session for a change of it
  MaxPayload,  \* ISOTP_MAX_PAYLOAD (4095)
  BscMax,      \* largest block sequence counter (255)
  MaxFlashes,  \* bound: flashes
  MaxRaw       \* bound: requests of clients

ASSUME SequenceConstants ==
  /\ Jobs \subseteq [size : Nat \ {0}, erase : BOOLEAN, check : BOOLEAN]
  /\ Jobs # {}
  /\ Offers \subseteq Nat
  /\ MaxPayload \in Nat /\ MaxPayload > 2
  /\ BscMax \in Nat \ {0}
  /\ MaxFlashes \in Nat /\ MaxRaw \in Nat

VARIABLES
  flash,           \* uds_flash_sequence: the request it is at, its job and locals
  g_uds_bus_lock,  \* "free", "uds" or "flash"
  flashInProgress, \* EVT_FLASH_IN_PROGRESS
  tp,              \* tp_active, and where tester_present_task is
  uds,             \* the request of a client that uds_task is at
  hist             \* history: of the current flash, sent (its requests), done (those the
                   \* ECU performed), stale (an answer was not to the request it was
                   \* taken for), tps (Tester Presents since it set its bit); open
                   \* (services with an answer still to come), flashes and raws so far

vars == <<flash, g_uds_bus_lock, flashInProgress, tp, uds, hist>>

\* The procedure this implements.
FP == INSTANCE FlashProcedure
        WITH job <- flash.job, sent <- hist.sent, chunk <- flash.max_chunk, result <- flash.result

-----------------------------------------------------------------------------
(* Data *)

Steps == {"session", "seed", "key", "erase", "download", "transfer", "exit", "check", "reset"}

\* Services: the second request for one may get the answer to the first.
Sid(step) == CASE step \in {"seed", "key"}    -> "security"
               [] step \in {"erase", "check"} -> "routine"
               [] OTHER                       -> step

NoRaw == [sid |-> "none", session |-> "none"]

ASSUME NoRawIsNone == NoRaw \notin Raw

ChunkLen(f) == IF f.job.size - f.offset > f.max_chunk THEN f.max_chunk ELSE f.job.size - f.offset

RequestOf(f) == IF f.pc = "transfer" THEN FP!Block(f.bsc, f.offset, ChunkLen(f))
                ELSE FP!Request(f.pc)

\* The size of a block without its SID and counter (p->max_block_size is always 0).
ChunkOf(mbs) == (IF mbs > MaxPayload THEN MaxPayload ELSE mbs) - 2

NextBscMutant(bsc) == (bsc + 1) % BscMax    \* mutant: 254 is followed by 0
NextBsc(bsc) == (bsc % BscMax) + 1

\* while (offset < p->firmware_len)
LoopPcMutant(f) ==         \* mutant: whole blocks only
  IF f.offset + f.max_chunk <= f.job.size THEN "transfer" ELSE "exit"
LoopPc(f) == IF f.offset < f.job.size THEN "transfer" ELSE "exit"

-----------------------------------------------------------------------------
(* The flash task *)

\* From the flash task, one at a time and with good parameters (FlashControl).
FlashStart(j) ==
  /\ flash.pc = "idle" /\ hist.flashes < MaxFlashes
  /\ flash' = [pc |-> "lock", job |-> j, offset |-> 0, bsc |-> 1, max_chunk |-> 0,
               result |-> "running"]
  /\ hist' = [hist EXCEPT !.flashes = @ + 1, !.sent = <<>>, !.done = <<>>, !.stale = FALSE,
                          !.tps = 0]
  /\ UNCHANGED <<g_uds_bus_lock, flashInProgress, tp, uds>>

FlashLock ==
  /\ flash.pc = "lock" /\ g_uds_bus_lock = "free"
  /\ g_uds_bus_lock' = "flash" /\ flashInProgress' = TRUE
  /\ flash' = [flash EXCEPT !.pc = "session"]
  /\ UNCHANGED <<tp, uds, hist>>

\* 5 s later.
FlashRefused ==
  /\ flash.pc = "lock" /\ g_uds_bus_lock # "free"
  /\ flash' = [flash EXCEPT !.pc = "idle", !.result = "error"]
  /\ UNCHANGED <<g_uds_bus_lock, flashInProgress, tp, uds, hist>>

\* A request is answered: by the ECU that performed it, or by a late answer.
Answered ==
  LET r == RequestOf(flash)
      s == [hist EXCEPT !.sent = Append(@, r)]
  IN
  \/ hist' = [s EXCEPT !.done = Append(@, r)]
  \/ /\ Sid(flash.pc) \in hist.open
     /\ \E done \in {hist.done, Append(hist.done, r)} :
          hist' = [s EXCEPT !.done = done, !.stale = TRUE]

\* It is not, or not positively: no answer, which may still come, or a refusal.
Failed ==
  \E done \in {hist.done, Append(hist.done, RequestOf(flash))} :
  \E open \in {hist.open, hist.open \cup {Sid(flash.pc)}} :
    hist' = [hist EXCEPT !.sent = Append(@, RequestOf(flash)), !.done = done, !.open = open]

FlashFailMutant ==         \* mutant: the bit stays set
  /\ flash' = [flash EXCEPT !.pc = "idle", !.result = "error"]
  /\ g_uds_bus_lock' = "free"
  /\ UNCHANGED <<flashInProgress, tp, uds>>
FlashFail ==
  /\ flash' = [flash EXCEPT !.pc = "idle", !.result = "error"]
  /\ flashInProgress' = FALSE /\ g_uds_bus_lock' = "free"
  /\ UNCHANGED <<tp, uds>>

\* An answer that cannot be used: no seed, no key for it, no block size.
Unusable == flash.pc \in {"seed", "download"}

RequestFails == flash.pc \in Steps /\ (Failed \/ (Unusable /\ Answered)) /\ FlashFail

GoesOn(pc) == flash.pc \in Steps /\ Answered /\ flash' = [flash EXCEPT !.pc = pc]
Quietly == UNCHANGED <<g_uds_bus_lock, flashInProgress, tp, uds>>

SessionDone == flash.pc = "session" /\ GoesOn("seed") /\ Quietly
SeedDone    == flash.pc = "seed" /\ GoesOn("key") /\ Quietly

\* tester_present_start for the programming session.
KeyDone ==
  /\ flash.pc = "key" /\ GoesOn(IF flash.job.erase THEN "erase" ELSE "download")
  /\ tp' = [tp EXCEPT !.active = TRUE]
  /\ UNCHANGED <<g_uds_bus_lock, flashInProgress, uds>>

EraseDone == flash.pc = "erase" /\ GoesOn("download") /\ Quietly

DownloadDone ==
  /\ flash.pc = "download" /\ Answered
  /\ \E mbs \in Offers :
       mbs >= 3 /\ flash' = [flash EXCEPT !.pc = "transfer", !.max_chunk = ChunkOf(mbs)]
  /\ Quietly

TransferDoneMutant ==      \* mutant: a block that failed is passed over
  /\ flash.pc = "transfer" /\ (Answered \/ Failed)
  /\ LET f == [flash EXCEPT !.offset = @ + ChunkLen(flash), !.bsc = NextBsc(@)]
     IN  flash' = [f EXCEPT !.pc = LoopPc(f)]
  /\ Quietly
\* One turn of the loop.
TransferDone ==
  /\ flash.pc = "transfer" /\ Answered
  /\ LET f == [flash EXCEPT !.offset = @ + ChunkLen(flash), !.bsc = NextBsc(@)]
     IN  flash' = [f EXCEPT !.pc = LoopPc(f)]
  /\ Quietly

ExitDone  == flash.pc = "exit" /\ GoesOn(IF flash.job.check THEN "check" ELSE "reset") /\ Quietly
CheckDone == flash.pc = "check" /\ GoesOn("reset") /\ Quietly

\* The end: tester_present_stop, the bit and the lock.
ResetDoneMutant ==         \* mutant: the lock is kept
  /\ flash.pc = "reset" /\ Answered
  /\ flash' = [flash EXCEPT !.pc = "idle", !.result = "ok"]
  /\ tp' = [tp EXCEPT !.active = FALSE]
  /\ flashInProgress' = FALSE
  /\ UNCHANGED <<g_uds_bus_lock, uds>>
ResetDone ==
  /\ flash.pc = "reset" /\ Answered
  /\ flash' = [flash EXCEPT !.pc = "idle", !.result = "ok"]
  /\ tp' = [tp EXCEPT !.active = FALSE]
  /\ flashInProgress' = FALSE /\ g_uds_bus_lock' = "free"
  /\ UNCHANGED uds

FlashTask ==
  \/ FlashLock \/ FlashRefused \/ RequestFails
  \/ SessionDone \/ SeedDone \/ KeyDone \/ EraseDone \/ DownloadDone
  \/ TransferDone \/ ExitDone \/ CheckDone \/ ResetDone

-----------------------------------------------------------------------------
(* uds_task and tester_present_task *)

UdsBegins(r) ==
  /\ uds = NoRaw /\ g_uds_bus_lock = "free" /\ hist.raws < MaxRaw
  /\ uds' = r /\ g_uds_bus_lock' = "uds"
  /\ hist' = [hist EXCEPT !.raws = @ + 1]
  /\ UNCHANGED <<flash, flashInProgress, tp>>

\* A positive answer to a change of session starts or stops Tester Present.
UdsEnds ==
  /\ uds # NoRaw /\ uds' = NoRaw /\ g_uds_bus_lock' = "free"
  /\ \/ /\ tp' = IF uds.session = "none" THEN tp
                 ELSE [tp EXCEPT !.active = (uds.session # "default")]
        /\ UNCHANGED hist
     \/ /\ \E open \in {hist.open, hist.open \cup {uds.sid}} : hist' = [hist EXCEPT !.open = open]
        /\ UNCHANGED tp
  /\ UNCHANGED <<flash, flashInProgress>>

\* Every TP_INTERVAL_MS.
TpCheckMutant ==           \* mutant: the bit is not looked at
  /\ tp.pc = "delay" /\ tp.active
  /\ tp' = [tp EXCEPT !.pc = "send"]
  /\ UNCHANGED <<flash, g_uds_bus_lock, flashInProgress, uds, hist>>
TpCheck ==
  /\ tp.pc = "delay" /\ tp.active /\ ~flashInProgress
  /\ tp' = [tp EXCEPT !.pc = "send"]
  /\ UNCHANGED <<flash, g_uds_bus_lock, flashInProgress, uds, hist>>

\* isotp_send gets tx_mutex, at last, and sends.
TpSend ==
  /\ tp.pc = "send"
  /\ tp' = [tp EXCEPT !.pc = "delay"]
  /\ hist' = [hist EXCEPT !.tps = IF flashInProgress /\ @ < 2 THEN @ + 1 ELSE @]
  /\ UNCHANGED <<flash, g_uds_bus_lock, flashInProgress, uds>>

TpTask == TpCheck \/ TpSend

-----------------------------------------------------------------------------

Init ==
  /\ flash \in [pc : {"idle"}, job : Jobs, offset : {0}, bsc : {1}, max_chunk : {0},
                result : {"none"}]
  /\ g_uds_bus_lock = "free" /\ flashInProgress = FALSE
  /\ tp = [active |-> FALSE, pc |-> "delay"]
  /\ uds = NoRaw
  /\ hist = [sent |-> <<>>, done |-> <<>>, stale |-> FALSE, tps |-> 0, open |-> {},
             flashes |-> 0, raws |-> 0]

Next ==
  \/ FlashTask \/ UdsEnds \/ TpTask
  \/ \E j \in Jobs : FlashStart(j)
  \/ \E r \in Raw : UdsBegins(r)

\* tester_present_task wakes up again and again, and isotp_send returns (IsoTpTx,
\* SendReturns). A request may wait for ever (UdsService, Hangs): nothing is assumed of
\* the other two.
Fairness == WF_vars(TpTask)

Spec == Init /\ [][Next]_vars /\ Fairness

-----------------------------------------------------------------------------
(* Properties *)

RequestType ==
  [name : Steps, bsc : 0..BscMax, offset : Nat, len : Nat]

FlashType ==
  flash \in [pc : Steps \cup {"idle", "lock"}, job : Jobs, offset : Nat, bsc : 1..BscMax,
             max_chunk : 0..(MaxPayload - 2), result : {"none", "running", "ok", "error"}]
HistType ==
  hist \in [sent : Seq(RequestType), done : Seq(RequestType), stale : BOOLEAN, tps : 0..2,
            open : SUBSET ({Sid(s) : s \in Steps} \cup {r.sid : r \in Raw}),
            flashes : 0..MaxFlashes, raws : 0..MaxRaw]

\* The types of the state: the offset stays within the image, the counter is a byte
\* that is never 0.
TypeOK ==
  /\ FlashType /\ flash.offset <= flash.job.size
  /\ g_uds_bus_lock \in {"free", "uds", "flash"}
  /\ flashInProgress \in BOOLEAN
  /\ tp \in [active : BOOLEAN, pc : {"delay", "send"}]
  /\ uds \in Raw \cup {NoRaw}
  /\ HistType

\* The lock and the event bit belong to a flash between its first request and the end
\* of it, on every path: nothing else is sent by uds_task meanwhile, and nothing stays
\* set or locked.
LockAndBit ==
  /\ flash.pc \in Steps <=> g_uds_bus_lock = "flash"
  /\ flash.pc \in Steps <=> flashInProgress
  /\ uds # NoRaw <=> g_uds_bus_lock = "uds"

\* FLASH_OK means that the ECU performed the whole procedure on the whole image: every
\* block, and the check and the reset - unless an answer to an earlier request, that
\* came too late for it, was taken for one of them.
OkMeansDone ==
  flash.result = "ok" /\ ~hist.stale => hist.done = FP!Plan(flash.job, flash.max_chunk)

\* Tester Present keeps out of a flash, but for the one that was past its check of the
\* bit when the flash set it.
OneTpPerFlash == hist.tps <= 1

\* The requests sent are those of the download procedure.
ImplementsProcedure == FP!Spec

\* While Tester Present is on, the next one is sent: no flash keeps it off for good,
\* wherever it failed - but for one that stays in a request for ever.
TpGoesOn == (tp.active ~> (tp.pc = "send" \/ ~tp.active)) \/ <>[](flash.pc \in Steps)
=============================================================================
