----------------------------- MODULE UdsService -----------------------------
(***************************************************************************)
(* UDS requests: uds_task, uds_request_blocking and wait_uds_response of   *)
(* main/uds_service.c, with g_uds_bus_lock, the queues of uds_task and the *)
(* flash task, the other user of the lock.                                  *)
(*                                                                          *)
(* Both tasks are called users. A user is cut into actions where time may   *)
(* pass or another task interfere: isotp_task, which has a higher priority, *)
(* puts answers into q_isotp_rx at any point. Time is xTaskGetTickCount()   *)
(* with its wrap.                                                           *)
(***************************************************************************)
EXTENDS Integers, Sequences

CONSTANTS
  Ecus, Sids,
  Forms,         \* answers an ECU may give: [positive, len, nrc], len the bytes with
                 \* the SID; nrc is their third, of a negative one
  Nrcs,          \* values of a byte of some earlier message
  Pending,       \* NRC_RESPONSE_PENDING (0x78)
  NoAnswer,      \* 0xFF, the nrc of a timeout
  BusError,      \* 0xFE, the nrc of a failed isotp_send
  Requests,      \* what clients ask: [ecu, sid, timeout, long]; long is a payload of
                 \* 4095 bytes, one too many
  FlashRequests, \* the requests of uds_flash_sequence, in order
  MaxRequests,   \* bound: requests, of clients and of flashes
  MaxPending,    \* bound: Response Pendings of an ECU per request
  QRequestCap, QResponseCap, QIsotpCap,   \* queue depths (2 each)
  TickMod,       \* the tick count wraps here (2^32)
  P2Star,        \* 5000 ms, in ticks
  LockWait,      \* how long a flash waits for the lock, 5000 ms
  MaxHeld        \* ticks for which tasks of higher priority keep a ready user waiting

AllRequests == Requests \cup {FlashRequests[k] : k \in 1..Len(FlashRequests)}

ASSUME UdsConstants ==
  /\ AllRequests \subseteq [ecu : Ecus, sid : Sids, timeout : 0..(TickMod - 1), long : BOOLEAN]
  /\ FlashRequests \in Seq(AllRequests) \ {<<>>}
  /\ Forms \subseteq [positive : BOOLEAN, len : 1..4095, nrc : Nrcs]
  /\ Pending \in Nrcs /\ 0 \in Nrcs /\ NoAnswer \in Nrcs /\ BusError \in Nrcs
  /\ Pending \notin {0, NoAnswer, BusError} /\ 0 \notin {NoAnswer, BusError} /\ NoAnswer # BusError
  /\ MaxRequests \in Nat /\ MaxPending \in Nat /\ LockWait \in Nat /\ MaxHeld \in Nat \ {0}
  /\ {QRequestCap, QResponseCap, QIsotpCap, TickMod} \subseteq Nat \ {0}
  /\ P2Star \in 1..(TickMod - 1)

VARIABLES
  now,             \* the tick count
  g_uds_bus_lock,  \* the user that holds it, or "free"
  user,            \* what "uds" and "flash" are doing. held counts the ticks a ready
                   \* user was kept waiting; history: took (the answer it accepted),
                   \* due (ticks it still owes the ECU), wrapped (its deadline did)
  q_uds_request, q_isotp_rx,
  q_uds_response,  \* how many answers are in it
  ecu,             \* the requests ECUs have yet to answer
  hist             \* history: asked (requests), calls (of uds_request_blocking that
                   \* got to isotp_send), unanswered (those that ended without their
                   \* own answer)

vars == <<now, g_uds_bus_lock, user, q_uds_request, q_uds_response, q_isotp_rx, ecu, hist>>

-----------------------------------------------------------------------------
(* Data *)

Users == {"uds", "flash"}

\* of and during are history: the call it answers, the last call when it arrived.
Message(e, sid, form, of) ==
  [from |-> e, sid |-> sid, form |-> form, of |-> of, during |-> hist.calls]
NoMessage == [of |-> 0]

NoRequest == [ecu |-> "none"]

Idle ==
  [pc |-> "idle", req |-> NoRequest, step |-> 0, n |-> 0, deadline |-> 0, remaining |-> 0,
   ok |-> FALSE, nrc |-> 0, held |-> 0, took |-> NoMessage, due |-> 0, wrapped |-> FALSE]

Send(q, cap, m) == IF Len(q) < cap THEN Append(q, m) ELSE q

At(c, pc) == user[c].pc = pc
Goes(c, u) == user' = [user EXCEPT ![c] = [u EXCEPT !.held = 0]]

\* A user in uds_request_blocking ends the call.
Returns(u, ok, nrc, m) == [u EXCEPT !.pc = "return", !.ok = ok, !.nrc = nrc, !.took = m]

TicksFromMutant(t, n) == t + n     \* mutant: no wrap
TicksFrom(t, n) == (t + n) % TickMod

\* portMAX_DELAY: xQueueReceive with it waits without end.
Forever == TickMod - 1

\* The wait of a user for the lock or for a message, when it has an end.
Timed(u) == u.pc = "lock" \/ (u.pc = "receive" /\ u.remaining # Forever)

\* A deadline n ticks from now.
WaitFor(u, n) ==
  [u EXCEPT !.pc = "test", !.deadline = TicksFrom(now, n), !.due = n, !.wrapped = now + n >= TickMod]

-----------------------------------------------------------------------------
(* uds_request_blocking *)

\* Its check of the length, then the answers left from before are dropped. buf and
\* drain are static: another call would overwrite them.
Request(c) ==
  /\ At(c, "request")
  /\ \/ /\ user[c].req.long
        /\ Goes(c, Returns(user[c], FALSE, 0, NoMessage))
        /\ UNCHANGED <<q_isotp_rx, hist>>
     \/ /\ ~user[c].req.long
        /\ Goes(c, [user[c] EXCEPT !.pc = "send", !.n = hist.calls + 1])
        /\ q_isotp_rx' = <<>>
        /\ hist' = [hist EXCEPT !.calls = @ + 1]
  /\ UNCHANGED <<now, g_uds_bus_lock, q_uds_request, q_uds_response, ecu>>

IsoTpSendMutant(c) ==    \* mutant: a failed isotp_send leaves nrc at 0
  LET u == user[c] IN
  /\ At(c, "send")
  /\ Goes(c, WaitFor(u, u.req.timeout)) \/ Goes(c, Returns(u, FALSE, 0, NoMessage))
  /\ \/ ecu' = ecu \cup {[n |-> u.n, ecu |-> u.req.ecu, sid |-> u.req.sid, pendings |-> 0]}
     \/ UNCHANGED ecu
  /\ UNCHANGED <<now, g_uds_bus_lock, q_uds_request, q_uds_response, q_isotp_rx, hist>>
\* isotp_send returns; whatever it says, the request reached the ECU or did not. When
\* it says true wait_uds_response sets its deadline.
IsoTpSend(c) ==
  LET u == user[c] IN
  /\ At(c, "send")
  /\ Goes(c, WaitFor(u, u.req.timeout)) \/ Goes(c, Returns(u, FALSE, BusError, NoMessage))
  /\ \/ ecu' = ecu \cup {[n |-> u.n, ecu |-> u.req.ecu, sid |-> u.req.sid, pendings |-> 0]}
     \/ UNCHANGED ecu
  /\ UNCHANGED <<now, g_uds_bus_lock, q_uds_request, q_uds_response, q_isotp_rx, hist>>

-----------------------------------------------------------------------------
(* wait_uds_response *)

Waiting == UNCHANGED <<now, g_uds_bus_lock, q_uds_request, q_uds_response, ecu, hist>>

TimedOut(u) == Returns(u, FALSE, NoAnswer, NoMessage)

\* while (xTaskGetTickCount() < deadline)
Test(c) ==
  /\ At(c, "test")
  /\ Goes(c, IF now < user[c].deadline THEN [user[c] EXCEPT !.pc = "remaining"]
                     ELSE TimedOut(user[c]))
  /\ Waiting /\ UNCHANGED q_isotp_rx

\* A second look at the clock: an unsigned subtraction. One tick past the deadline the
\* rest is Forever.
Remaining(c) ==
  /\ At(c, "remaining")
  /\ Goes(c, [user[c] EXCEPT !.pc = "receive",
                             !.remaining = (user[c].deadline - now) % TickMod])
  /\ Waiting /\ UNCHANGED q_isotp_rx

\* in.data[2] of a message of two bytes is what an earlier message left there.
NrcsOf(m) == IF m.form.len > 2 THEN {m.form.nrc} ELSE Nrcs

ForUsMutant(u, m) == m.form.len >= 2 /\ m.sid = u.req.sid     \* mutant: of any ECU
ForUs(u, m) == m.from = u.req.ecu /\ m.form.len >= 2 /\ m.sid = u.req.sid

ExtendedMutant(u) == [u EXCEPT !.pc = "test", !.due = P2Star]    \* mutant: same deadline
Extended(u) == WaitFor(u, P2Star)

\* One message.
Receive(c) ==
  LET u == user[c]
      m == Head(q_isotp_rx)
  IN
  /\ At(c, "receive") /\ q_isotp_rx # <<>> /\ q_isotp_rx' = Tail(q_isotp_rx)
  /\ \/ ~ForUs(u, m) /\ Goes(c, [u EXCEPT !.pc = "test"])
     \/ ForUs(u, m) /\ m.form.positive /\ Goes(c, Returns(u, TRUE, 0, m))
     \/ /\ ForUs(u, m) /\ ~m.form.positive
        /\ \E nrc \in NrcsOf(m) :
             Goes(c, IF nrc = Pending THEN Extended(u) ELSE Returns(u, FALSE, nrc, m))
  /\ Waiting

ReceiveTimesOut(c) ==
  /\ At(c, "receive") /\ q_isotp_rx = <<>> /\ user[c].remaining = 0
  /\ Goes(c, TimedOut(user[c]))
  /\ Waiting /\ UNCHANGED q_isotp_rx

-----------------------------------------------------------------------------
(* uds_task *)

\* handle_uds_request. When the queue stays full the request is dropped.
ClientAsks(r) ==
  /\ hist.asked < MaxRequests /\ Len(q_uds_request) < QRequestCap
  /\ q_uds_request' = Append(q_uds_request, r)
  /\ hist' = [hist EXCEPT !.asked = @ + 1]
  /\ UNCHANGED <<now, g_uds_bus_lock, user, q_uds_response, q_isotp_rx, ecu>>

NextRequest ==
  /\ q_uds_request # <<>> /\ q_uds_request' = Tail(q_uds_request)
  /\ At("uds", "idle")
  /\ Goes("uds", [Idle EXCEPT !.pc = "lock", !.req = Head(q_uds_request)])
  /\ UNCHANGED <<now, g_uds_bus_lock, q_uds_response, q_isotp_rx, ecu, hist>>

TakeLock(c) ==
  /\ At(c, "lock") /\ g_uds_bus_lock = "free" /\ g_uds_bus_lock' = c
  /\ Goes(c, [user[c] EXCEPT !.pc = "request", !.remaining = 0])
  /\ UNCHANGED <<now, q_uds_request, q_uds_response, q_isotp_rx, ecu, hist>>

\* The call of user c is over.
Ended(c) ==
  LET u == user[c]
  IN  [hist EXCEPT !.unanswered = IF u.n = u.took.of THEN @ ELSE @ \cup {u.n}]

UdsReturn ==
  /\ At("uds", "return")
  /\ Goes("uds", [user["uds"] EXCEPT !.pc = "reply"])
  /\ g_uds_bus_lock' = "free"
  /\ hist' = Ended("uds")
  /\ UNCHANGED <<now, q_uds_request, q_uds_response, q_isotp_rx, ecu>>

Status(u) ==
  IF u.ok THEN "POSITIVE"
  ELSE CASE u.nrc = NoAnswer -> "TIMEOUT"
         [] u.nrc = BusError -> "BUS_ERROR"
         [] OTHER            -> "NEGATIVE"

\* When q_uds_response stays full the answer is dropped. (Tester Present, which a
\* session request starts or stops, is in FlashSequence.)
Reply ==
  /\ At("uds", "reply")
  /\ q_uds_response' = IF q_uds_response < QResponseCap THEN q_uds_response + 1 ELSE q_uds_response
  /\ Goes("uds", Idle)
  /\ UNCHANGED <<now, g_uds_bus_lock, q_uds_request, q_isotp_rx, ecu, hist>>

\* ws_proto_pump_task
Pump ==
  /\ q_uds_response > 0 /\ q_uds_response' = q_uds_response - 1
  /\ UNCHANGED <<now, g_uds_bus_lock, user, q_uds_request, q_isotp_rx, ecu, hist>>

-----------------------------------------------------------------------------
(* uds_flash_sequence, as a user of the lock and of uds_request_blocking *)

FlashRequest(k) == [Idle EXCEPT !.pc = "request", !.req = FlashRequests[k], !.step = k]

FlashStart ==
  /\ hist.asked + Len(FlashRequests) <= MaxRequests
  /\ At("flash", "idle")
  /\ Goes("flash", [FlashRequest(1) EXCEPT !.pc = "lock", !.remaining = LockWait])
  /\ hist' = [hist EXCEPT !.asked = @ + Len(FlashRequests)]
  /\ UNCHANGED <<now, g_uds_bus_lock, q_uds_request, q_uds_response, q_isotp_rx, ecu>>

FlashRefusedMutant ==    \* mutant: after 5 s the flash goes on without the lock
  /\ At("flash", "lock") /\ g_uds_bus_lock # "free" /\ user["flash"].remaining = 0
  /\ Goes("flash", FlashRequest(1))
  /\ UNCHANGED <<now, g_uds_bus_lock, q_uds_request, q_uds_response, q_isotp_rx, ecu, hist>>
FlashRefused ==
  /\ At("flash", "lock") /\ g_uds_bus_lock # "free" /\ user["flash"].remaining = 0
  /\ Goes("flash", Idle)
  /\ UNCHANGED <<now, g_uds_bus_lock, q_uds_request, q_uds_response, q_isotp_rx, ecu, hist>>

FlashReturnMutant ==     \* mutant: an error path keeps the lock
  LET u == user["flash"] IN
  /\ At("flash", "return")
  /\ \/ /\ u.ok /\ u.step < Len(FlashRequests)
        /\ Goes("flash", FlashRequest(u.step + 1))
        /\ UNCHANGED g_uds_bus_lock
     \/ /\ ~u.ok \/ u.step = Len(FlashRequests)
        /\ Goes("flash", Idle)
        /\ g_uds_bus_lock' = IF u.ok THEN "free" ELSE g_uds_bus_lock
  /\ hist' = Ended("flash")
  /\ UNCHANGED <<now, q_uds_request, q_uds_response, q_isotp_rx, ecu>>
\* The next request, or the end: all done, or FLASH_FAIL.
FlashReturn ==
  LET u == user["flash"] IN
  /\ At("flash", "return")
  /\ \/ /\ u.ok /\ u.step < Len(FlashRequests)
        /\ Goes("flash", FlashRequest(u.step + 1))
        /\ UNCHANGED g_uds_bus_lock
     \/ /\ ~u.ok \/ u.step = Len(FlashRequests)
        /\ Goes("flash", Idle)
        /\ g_uds_bus_lock' = "free"
  /\ hist' = Ended("flash")
  /\ UNCHANGED <<now, q_uds_request, q_uds_response, q_isotp_rx, ecu>>

-----------------------------------------------------------------------------
(* The ECUs, and time *)

Delivers(o, form) ==
  /\ q_isotp_rx' = Send(q_isotp_rx, QIsotpCap, Message(o.ecu, o.sid, form, o.n))
  /\ UNCHANGED <<now, g_uds_bus_lock, user, q_uds_request, q_uds_response, hist>>

\* An answer, at any time or never; a Response Pending, and more to come.
EcuAnswers(o) == \E form \in Forms : Delivers(o, form) /\ ecu' = ecu \ {o}

EcuPending(o) ==
  /\ o.pendings < MaxPending
  /\ Delivers(o, [positive |-> FALSE, len |-> 3, nrc |-> Pending])
  /\ ecu' = (ecu \ {o}) \cup {[o EXCEPT !.pendings = @ + 1]}

\* Users that only wait for the processor.
Ready(c) ==
  LET u == user[c] IN
  CASE u.pc = "idle"    -> c = "uds" /\ q_uds_request # <<>>
    [] u.pc = "lock"    -> g_uds_bus_lock = "free" \/ (c = "flash" /\ u.remaining = 0)
    [] u.pc = "send"    -> FALSE
    [] u.pc = "receive" -> q_isotp_rx # <<>> \/ u.remaining = 0
    [] OTHER            -> TRUE

Down(n) == IF n = 0 THEN 0 ELSE n - 1

Tick ==
  /\ \A c \in Users : Ready(c) => user[c].held < MaxHeld
  /\ now' = (now + 1) % TickMod
  /\ user' = [c \in Users |->
       LET u == user[c] IN
       [u EXCEPT !.held = IF Ready(c) THEN @ + 1 ELSE @,
                 !.remaining = IF Timed(u) THEN Down(@) ELSE @,
                 !.due = IF u.pc \in {"test", "remaining", "receive"} THEN Down(@) ELSE @]]
  /\ UNCHANGED <<g_uds_bus_lock, q_uds_request, q_uds_response, q_isotp_rx, ecu, hist>>

-----------------------------------------------------------------------------

Init ==
  /\ now = 0 /\ g_uds_bus_lock = "free"
  /\ user = [c \in Users |-> Idle]
  /\ q_uds_request = <<>> /\ q_uds_response = 0 /\ q_isotp_rx = <<>>
  /\ ecu = {}
  /\ hist = [asked |-> 0, calls |-> 0, unanswered |-> {}]

Blocking(c) ==
  \/ Request(c) \/ IsoTpSend(c) \/ Test(c) \/ Remaining(c)
  \/ Receive(c) \/ ReceiveTimesOut(c)

UdsTask   == NextRequest \/ TakeLock("uds") \/ Blocking("uds") \/ UdsReturn \/ Reply
FlashTask == TakeLock("flash") \/ FlashRefused \/ Blocking("flash") \/ FlashReturn

Next ==
  \/ UdsTask \/ FlashTask \/ FlashStart \/ Pump \/ Tick
  \/ \E r \in Requests : ClientAsks(r)
  \/ \E o \in ecu : EcuAnswers(o) \/ EcuPending(o)

\* The tasks of higher priority block in every iteration, isotp_send returns (IsoTpTx)
\* and time passes. Nothing is assumed of clients and ECUs.
Fairness == WF_vars(UdsTask) /\ WF_vars(FlashTask) /\ WF_vars(Tick)

Spec == Init /\ [][Next]_vars /\ Fairness

-----------------------------------------------------------------------------
(* Properties *)

Calls == 0..MaxRequests

MessageType ==
  [from : Ecus, sid : Sids, form : Forms \cup [positive : {FALSE}, len : {3}, nrc : {Pending}],
   of : Calls, during : Calls]

UserType ==
  [pc : {"idle", "lock", "request", "send", "test", "remaining", "receive",
         "return", "reply"},
   req : AllRequests \cup {NoRequest}, step : 0..Len(FlashRequests), n : Calls,
   deadline : 0..(TickMod - 1), remaining : 0..(TickMod + LockWait), ok : BOOLEAN, nrc : Nrcs, held : 0..MaxHeld,
   took : MessageType \cup {NoMessage}, due : 0..(TickMod - 1), wrapped : BOOLEAN]

\* The types of the state; deadlines are ticks, queues keep their depth.
TypeOK ==
  /\ now \in 0..(TickMod - 1)
  /\ g_uds_bus_lock \in Users \cup {"free"}
  /\ user \in [Users -> UserType]
  /\ q_uds_request \in Seq(Requests) /\ Len(q_uds_request) <= QRequestCap
  /\ q_uds_response \in 0..QResponseCap
  /\ q_isotp_rx \in Seq(MessageType) /\ Len(q_isotp_rx) <= QIsotpCap
  /\ ecu \subseteq [n : Calls, ecu : Ecus, sid : Sids, pendings : 0..MaxPending]
  /\ hist \in [asked : Calls, calls : Calls, unanswered : SUBSET Calls]

InCall(u) == u.pc \in {"request", "send", "test", "remaining", "receive", "return"}

\* uds_request_blocking and wait_uds_response keep their messages in static buffers:
\* one user at a time is inside, the one that holds the lock, and nobody keeps the
\* lock who is not.
OneUserInside == \A c \in Users : InCall(user[c]) <=> g_uds_bus_lock = c

\* An answer that is accepted came from the ECU asked, to the service asked, after the
\* request was begun. It is the answer to this request, or a late one to an earlier
\* request that had to do without: no answer is accepted twice, or for another ECU.
AnswerOfRequest ==
  \A c \in Users : LET u == user[c] IN
    u.took # NoMessage =>
      /\ u.took.from = u.req.ecu /\ u.took.sid = u.req.sid
      /\ u.took.during = u.n
      /\ u.took.of = u.n \/ u.took.of \in hist.unanswered

\* What is reported is what happened: an answer that was accepted, as the ECU gave it
\* (two bytes give no NRC), or else a timeout, a bus error, or NRC 0 for a request too
\* long to send. The NRCs 0xFF and 0xFE of an ECU are reported as the gateway's own.
StatusTrue ==
  \A c \in Users : LET u == user[c] IN
    u.pc \in {"return", "reply"} =>
      IF u.took # NoMessage
      THEN (u.ok <=> u.took.form.positive) /\ (~u.ok => u.nrc \in NrcsOf(u.took))
      ELSE Status(u) = "TIMEOUT" \/ Status(u) = "BUS_ERROR" \/ (Status(u) = "NEGATIVE" /\ u.req.long)

\* A request times out only when the ECU has had its timeout, and the 5 s of the last
\* Response Pending - unless the deadline wrapped around with the tick count.
TimeoutNotEarly ==
  \A c \in Users : LET u == user[c] IN
    u.pc \in {"return", "reply"} /\ Status(u) = "TIMEOUT" /\ u.took = NoMessage =>
      u.due = 0 \/ u.wrapped

\* The processor was away for two ticks between the two looks at the clock, and the
\* user waits for a message without end, with the lock.
Hangs(c) == user[c].pc = "receive" /\ user[c].remaining = Forever

\* Every flash ends, and every request, whatever the ECUs do - but for an ECU that
\* announces Response Pending for ever, and for a user that hangs. A flash is held up
\* by its own wait only: uds_task's costs it the 5 s for the lock. uds_task is held up by
\* either.
RequestEnds ==
  /\ []<>(user["flash"].pc = "idle") \/ <>[]Hangs("flash")
  /\ []<>(user["uds"].pc = "idle") \/ <>[]Hangs("uds") \/ <>[]Hangs("flash")

\* A positive answer of the ECU asked, to the service asked, ends the wait for it.
PositiveHeard ==
  [][\A c \in Users :
       (user[c].pc = "receive" /\ q_isotp_rx # <<>> /\ q_isotp_rx' = Tail(q_isotp_rx)
        /\ Head(q_isotp_rx).from = user[c].req.ecu /\ Head(q_isotp_rx).sid = user[c].req.sid
        /\ Head(q_isotp_rx).form.positive)
       => user'[c].ok]_vars
=============================================================================
