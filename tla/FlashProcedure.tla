--------------------------- MODULE FlashProcedure ---------------------------
(***************************************************************************)
(* What a flash promises an ECU: the requests it sends are those of the    *)
(* download procedure, in order, each once, the blocks being the image cut  *)
(* into pieces of the agreed size, numbered 1..BscMax in a circle. It may   *)
(* stop after any of them; it succeeds only when all were sent.             *)
(***************************************************************************)
EXTENDS Integers, Sequences

CONSTANTS
  Jobs,        \* flashes: [size, erase, check]
  MaxPayload,  \* ISOTP_MAX_PAYLOAD (4095)
  BscMax       \* largest block sequence counter (255)

VARIABLES
  job,     \* the flash
  sent,    \* its requests so far
  chunk,   \* the agreed size of a block, 0 before
  result   \* "none" before the first flash, then "running", "ok" or "error"

Request(name) == [name |-> name, bsc |-> 0, offset |-> 0, len |-> 0]
Block(bsc, offset, len) == [name |-> "transfer", bsc |-> bsc, offset |-> offset, len |-> len]

If(b, s) == IF b THEN s ELSE <<>>

Prologue(j) ==
  <<Request("session"), Request("seed"), Request("key")>>
    \o If(j.erase, <<Request("erase")>>) \o <<Request("download")>>

\* Block k starts where k - 1 full ones end; the last may be shorter.
Blocks(size, c) ==
  [k \in 1..((size + c - 1) \div c) |->
     Block(((k - 1) % BscMax) + 1, (k - 1) * c, IF size < k * c THEN size - (k - 1) * c ELSE c)]

Epilogue(j) == <<Request("exit")>> \o If(j.check, <<Request("check")>>) \o <<Request("reset")>>

Plan(j, c) == Prologue(j) \o If(c # 0, Blocks(j.size, c) \o Epilogue(j))

Init == /\ job \in Jobs
        /\ sent = <<>> /\ chunk = 0 /\ result = "none"

Begin ==
  /\ result # "running" /\ result' = "running"
  /\ job' \in Jobs
  /\ sent' = <<>> /\ chunk' = 0

\* One more request, or none; the answer to the last of the prologue fixes the size.
Advance ==
  /\ result = "running" /\ UNCHANGED job
  /\ \/ sent' = sent
     \/ Len(sent) < Len(Plan(job, chunk)) /\ sent' = Append(sent, Plan(job, chunk)[Len(sent) + 1])
  /\ \/ chunk' = chunk
     \/ chunk = 0 /\ sent' = Prologue(job) /\ chunk' \in 1..(MaxPayload - 2)
  /\ result' \in {"running", "ok", "error"}
  /\ result' = "ok" => chunk' # 0 /\ sent' = Plan(job, chunk')

Next == Begin \/ Advance

Spec == Init /\ [][Next]_<<job, sent, chunk, result>>
=============================================================================
