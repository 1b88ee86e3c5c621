-------------------------- MODULE UdsServiceProofs --------------------------
(***************************************************************************)
(* The bus lock, the answers that are accepted, what is reported and when a *)
(* request times out, for any clients, ECUs, queue depths and timeouts.     *)
(***************************************************************************)
EXTENDS UdsService, SequenceTheorems, TLAPS

-----------------------------------------------------------------------------
(* Data *)

Pcs == {"idle", "lock", "request", "send", "test", "remaining", "receive", "return", "reply"}

LEMMA Consts ==
  /\ \A r \in AllRequests : r.ecu \in Ecus /\ r.sid \in Sids /\ r.timeout \in 0..(TickMod - 1)
  /\ \A k \in 1..Len(FlashRequests) : FlashRequests[k] \in AllRequests
  /\ Requests \subseteq AllRequests
  /\ Len(FlashRequests) \in Nat \ {0}
  /\ \A f \in Forms : f.positive \in BOOLEAN /\ f.len \in 1..4095 /\ f.nrc \in Nrcs
  /\ Pending \in Nrcs /\ 0 \in Nrcs /\ NoAnswer \in Nrcs /\ BusError \in Nrcs
  /\ MaxRequests \in Nat /\ MaxPending \in Nat /\ LockWait \in Nat /\ MaxHeld \in Nat \ {0}
  /\ QRequestCap \in Nat \ {0} /\ QResponseCap \in Nat \ {0} /\ QIsotpCap \in Nat \ {0}
  /\ TickMod \in Nat \ {0} /\ P2Star \in 1..(TickMod - 1)
<1>1. FlashRequests \in Seq(AllRequests) /\ FlashRequests # <<>>
  BY UdsConstants
<1>2. Len(FlashRequests) \in Nat \ {0}
  BY <1>1, EmptySeq
<1>3. \A k \in 1..Len(FlashRequests) : FlashRequests[k] \in AllRequests
  BY <1>1, ElementOfSeq
<1>4. Requests \subseteq AllRequests
  BY DEF AllRequests
<1>5. \A r \in AllRequests : r \in [ecu : Ecus, sid : Sids, timeout : 0..(TickMod - 1), long : BOOLEAN]
  BY UdsConstants
<1>6. \A f \in Forms : f \in [positive : BOOLEAN, len : 1..4095, nrc : Nrcs]
  BY UdsConstants
<1>7. QRequestCap \in Nat \ {0} /\ QResponseCap \in Nat \ {0} /\ QIsotpCap \in Nat \ {0}
      /\ TickMod \in Nat \ {0}
  BY UdsConstants
<1>8. /\ Pending \in Nrcs /\ 0 \in Nrcs /\ NoAnswer \in Nrcs /\ BusError \in Nrcs
      /\ MaxRequests \in Nat /\ MaxPending \in Nat /\ LockWait \in Nat /\ MaxHeld \in Nat \ {0}
      /\ P2Star \in 1..(TickMod - 1)
  BY UdsConstants
<1>9. \A r \in AllRequests : r.ecu \in Ecus /\ r.sid \in Sids /\ r.timeout \in 0..(TickMod - 1)
  BY <1>5
<1>10. \A f \in Forms : f.positive \in BOOLEAN /\ f.len \in 1..4095 /\ f.nrc \in Nrcs
  BY <1>6
<1> QED
  BY <1>2, <1>3, <1>4, <1>7, <1>8, <1>9, <1>10

FormType == Forms \cup [positive : {FALSE}, len : {3}, nrc : {Pending}]

LEMMA FormsTyped ==
  \A f \in FormType : f.positive \in BOOLEAN /\ f.len \in 1..4095 /\ f.nrc \in Nrcs
<1> SUFFICES ASSUME NEW f \in FormType
             PROVE  f.positive \in BOOLEAN /\ f.len \in 1..4095 /\ f.nrc \in Nrcs
  OBVIOUS
<1>1. CASE f \in Forms
  BY <1>1, Consts
<1>2. CASE f \in [positive : {FALSE}, len : {3}, nrc : {Pending}]
  <2>1. Pending \in Nrcs
    BY Consts
  <2>2. f.positive \in {FALSE} /\ f.len \in {3} /\ f.nrc \in {Pending}
    BY <1>2
  <2>3. f.positive \in BOOLEAN
    BY <2>2, Zenon
  <2>4. f.len \in 1..4095 /\ f.nrc \in Nrcs
    BY <2>1, <2>2
  <2> QED
    BY <2>3, <2>4
<1> QED
  BY <1>1, <1>2 DEF FormType

\* Of a message in the queue.
LEMMA MessageTyped ==
  ASSUME NEW m \in MessageType
  PROVE  /\ m.from \in Ecus /\ m.sid \in Sids /\ m.form \in FormType
         /\ m.form.positive \in BOOLEAN /\ m.form.len \in 1..4095 /\ m.form.nrc \in Nrcs
         /\ m.of \in Calls /\ m.during \in Calls
         /\ NrcsOf(m) \subseteq Nrcs
<1>1. m.from \in Ecus /\ m.sid \in Sids /\ m.form \in FormType /\ m.of \in Calls /\ m.during \in Calls
  BY DEF MessageType, FormType
<1> QED
  BY <1>1, FormsTyped DEF NrcsOf

LEMMA IdleTyped == Idle \in UserType
<1>1. 0 \in Calls /\ 0 \in Nrcs /\ 0 \in 0..(TickMod - 1) /\ 0 \in 0..(TickMod + LockWait)
      /\ 0 \in 0..MaxHeld /\ 0 \in 0..Len(FlashRequests)
  BY Consts DEF Calls
<1> QED
  BY <1>1 DEF Idle, UserType

\* A tick count from now is one.
LEMMA TicksTyped ==
  ASSUME NEW t \in Nat, NEW n \in Nat
  PROVE  TicksFrom(t, n) \in 0..(TickMod - 1)
BY Consts DEF TicksFrom

-----------------------------------------------------------------------------
(* A step of a user *)

UsersTyped == user \in [Users -> UserType]

LEMMA Going ==
  ASSUME UsersTyped, NEW c \in Users, NEW u \in UserType, Goes(c, u)
  PROVE  /\ UsersTyped'
         /\ user'[c] = [u EXCEPT !.held = 0]
         /\ \A d \in Users : d # c => user'[d] = user[d]
<1>1. user' = [user EXCEPT ![c] = [u EXCEPT !.held = 0]]
  BY DEF Goes
<1>2. 0 \in 0..MaxHeld
  BY Consts
<1>3. [u EXCEPT !.held = 0] \in UserType
  BY <1>2 DEF UserType
<1> HIDE DEF UserType
<1> QED
  BY <1>1, <1>3 DEF UsersTyped

LEMMA ReturnsTyped ==
  ASSUME NEW u \in UserType, NEW ok \in BOOLEAN, NEW nrc \in Nrcs,
         NEW m \in MessageType \cup {NoMessage}
  PROVE  Returns(u, ok, nrc, m) \in UserType
BY DEF Returns, UserType

LEMMA WaitForTyped ==
  ASSUME NEW u \in UserType, NEW n \in 0..(TickMod - 1), now \in 0..(TickMod - 1)
  PROVE  WaitFor(u, n) \in UserType
<1>1. TicksFrom(now, n) \in 0..(TickMod - 1)
  <2>1. now \in Nat /\ n \in Nat
    OBVIOUS
  <2> QED
    BY <2>1, TicksTyped
<1>2. PICK w \in BOOLEAN : w = (now + n >= TickMod)
  <2> WITNESS (now + n >= TickMod) \in BOOLEAN
  <2> QED
    OBVIOUS
<1>3. WaitFor(u, n) = [u EXCEPT !.pc = "test", !.deadline = TicksFrom(now, n), !.due = n,
                                !.wrapped = w]
  BY <1>2, Zenon DEF WaitFor
<1> QED
  BY <1>1, <1>3 DEF UserType

-----------------------------------------------------------------------------
(* Types *)

\* A user that is not idle has a request, a flash one of its own.
Asking ==
  /\ \A c \in Users : user[c].pc # "idle" => user[c].req \in AllRequests
  /\ user["flash"].pc # "idle" => user["flash"].step \in 1..Len(FlashRequests)
  /\ user["flash"].pc = "lock" => user["flash"].step = 1

\* How many calls a user has still to begin.
Left(c, u) ==
  IF u.pc = "idle" THEN 0
  ELSE (IF c = "flash" THEN Len(FlashRequests) - u.step ELSE 0)
         + (IF u.pc \in {"lock", "request"} THEN 1 ELSE 0)

\* No call is begun that was not asked for.
Budget ==
  hist.calls + Len(q_uds_request) + Left("uds", user["uds"]) + Left("flash", user["flash"])
    <= hist.asked

Base == TypeOK /\ Asking /\ Budget

LEMMA LeftTyped ==
  ASSUME Base, NEW c \in Users
  PROVE  Left(c, user[c]) \in Nat
<1>1. Len(FlashRequests) \in Nat
  BY Consts
<1>2. user[c].step \in Nat
  BY <1>1 DEF Base, TypeOK, UserType
<1> QED
  BY <1>1, <1>2 DEF Base, Asking, Left, Users

LEMMA BaseInit == Init => Base
<1> SUFFICES ASSUME Init PROVE Base
  OBVIOUS
<1>1. \A c \in Users : user[c] = Idle
  BY DEF Init
<1>2. user \in [Users -> UserType]
  BY IdleTyped DEF Init
<1>3. hist \in [asked : Calls, calls : Calls, unanswered : SUBSET Calls]
  BY Consts DEF Init, Calls
<1>4. TypeOK
  BY <1>2, <1>3, Consts DEF Init, TypeOK
<1>5. Asking
  BY <1>1 DEF Asking, Idle, Users
<1>6. Budget
  BY <1>1 DEF Init, Budget, Left, Idle, Users
<1> QED
  BY <1>4, <1>5, <1>6 DEF Base

LEMMA Balance ==
  ASSUME NEW calls \in Nat, NEW queued \in Nat, NEW mine \in Nat, NEW others \in Nat, NEW asked \in Nat,
         NEW calls2 \in Nat, NEW queued2 \in Nat, NEW mine2 \in Nat, NEW asked2 \in Nat,
         calls + queued + mine + others <= asked,
         calls2 + queued2 + mine2 - asked2 <= calls + queued + mine - asked
  PROVE  calls2 + queued2 + mine2 + others <= asked2 /\ calls2 + queued2 + others + mine2 <= asked2
OBVIOUS

LEMMA LessLeft ==
  ASSUME NEW calls \in Nat, NEW queued \in Nat, NEW left \in Nat, NEW left2 \in Nat, NEW asked \in Nat
  PROVE  /\ left2 <= left =>
              calls + queued + left2 - asked <= calls + queued + left - asked
         /\ left2 + 1 <= left =>
              (calls + 1) + queued + left2 - asked <= calls + queued + left - asked
OBVIOUS

\* A step of a user that leaves the queue of requests and the history alone, and begins
\* no call.
LEMMA BaseGoing ==
  ASSUME Base, NEW c \in Users, NEW u \in UserType, Goes(c, u),
         u.pc # "idle" => u.req \in AllRequests,
         c = "flash" /\ u.pc # "idle" => u.step \in 1..Len(FlashRequests),
         c = "flash" /\ u.pc = "lock" => u.step = 1,
         Left(c, u) \in Nat,
         hist'.calls + Len(q_uds_request') + Left(c, u) - hist'.asked
           <= hist.calls + Len(q_uds_request) + Left(c, user[c]) - hist.asked,
         hist' \in [asked : Calls, calls : Nat, unanswered : SUBSET Calls],
         q_uds_request' \in Seq(Requests)
  PROVE  UsersTyped' /\ Asking' /\ Budget' /\ hist'.calls \in Calls
<1>1. /\ UsersTyped' /\ user'[c] = [u EXCEPT !.held = 0]
      /\ \A d \in Users : d # c => user'[d] = user[d]
  BY Going DEF Base, TypeOK, UsersTyped
<1>2. user'[c].pc = u.pc /\ user'[c].req = u.req /\ user'[c].step = u.step
  BY <1>1 DEF UserType
<1>3. Asking'
  BY <1>1, <1>2 DEF Base, Asking, Users
<1>4. Left(c, user'[c]) = Left(c, u)
  BY <1>2 DEF Left
<1>5. Left("uds", user["uds"]) \in Nat /\ Left("flash", user["flash"]) \in Nat
  BY LeftTyped DEF Users
<1>6. /\ hist.calls \in Nat /\ hist.asked \in Nat /\ hist'.asked \in Nat /\ hist'.calls \in Nat
      /\ Len(q_uds_request) \in Nat /\ Len(q_uds_request') \in Nat
  BY Consts DEF Base, TypeOK, Calls
<1>7. Budget'
  <2>1. PICK calls \in Nat, queued \in Nat, asked \in Nat, calls2 \in Nat, queued2 \in Nat, asked2 \in Nat :
          /\ calls = hist.calls /\ queued = Len(q_uds_request) /\ asked = hist.asked
          /\ calls2 = hist'.calls /\ queued2 = Len(q_uds_request') /\ asked2 = hist'.asked
    BY <1>6
  <2>2. PICK mine \in Nat, mine2 \in Nat : mine = Left(c, user[c]) /\ mine2 = Left(c, u)
    BY <1>5 DEF Users
  <2>3. calls2 + queued2 + mine2 - asked2 <= calls + queued + mine - asked
    BY <2>1, <2>2
  <2>4. CASE c = "uds"
    <3>1. PICK others \in Nat : others = Left("flash", user["flash"])
      BY <1>5
    <3>2. calls + queued + mine + others <= asked
      BY <2>1, <2>2, <2>4, <3>1 DEF Base, Budget
    <3>3. calls2 + queued2 + mine2 + others <= asked2
      BY <2>3, <3>2, Balance
    <3>4. Left("uds", user'["uds"]) = mine2 /\ Left("flash", user'["flash"]) = others
      BY <1>1, <1>4, <2>2, <2>4, <3>1 DEF Users
    <3> QED
      BY <2>1, <3>3, <3>4 DEF Budget
  <2>5. CASE c = "flash"
    <3>1. PICK others \in Nat : others = Left("uds", user["uds"])
      BY <1>5
    <3>2. calls + queued + mine + others <= asked
      <4>1. calls + queued + others + mine <= asked
        BY <2>1, <2>2, <2>5, <3>1 DEF Base, Budget
      <4> QED
        BY <4>1
    <3>3. calls2 + queued2 + others + mine2 <= asked2
      BY <2>3, <3>2, Balance
    <3>4. Left("flash", user'["flash"]) = mine2 /\ Left("uds", user'["uds"]) = others
      BY <1>1, <1>4, <2>2, <2>5, <3>1 DEF Users
    <3> QED
      BY <2>1, <3>3, <3>4 DEF Budget
  <2> QED
    BY <2>4, <2>5 DEF Users
<1>8. hist'.calls \in Calls
  <2>1. Left("uds", user'["uds"]) \in Nat /\ Left("flash", user'["flash"]) \in Nat
    BY <1>1, <1>4, <1>5 DEF Users
  <2>2. hist'.asked <= MaxRequests
    BY Consts DEF Calls
  <2> QED
    BY <1>6, <1>7, <2>1, <2>2, Consts DEF Budget, Calls
<1> QED
  BY <1>1, <1>3, <1>7, <1>8

\* In a call a step changes neither the request nor what is left.
LEMMA BaseInCall ==
  ASSUME Base, NEW c \in Users, NEW u \in UserType, Goes(c, u),
         user[c].pc \notin {"idle", "lock", "request"}, u.pc \notin {"idle", "lock", "request"},
         u.req = user[c].req, u.step = user[c].step,
         UNCHANGED <<q_uds_request, hist>>
  PROVE  UsersTyped' /\ Asking' /\ Budget'
<1>1. Left(c, u) = Left(c, user[c]) /\ Left(c, u) \in Nat
  BY LeftTyped DEF Left
<1>2. /\ u.req \in AllRequests
      /\ c = "flash" => u.step \in 1..Len(FlashRequests)
  BY DEF Base, Asking
<1>3. /\ hist' \in [asked : Calls, calls : Nat, unanswered : SUBSET Calls]
      /\ q_uds_request' \in Seq(Requests)
      /\ hist'.calls \in Nat /\ hist'.asked \in Nat /\ Len(q_uds_request') \in Nat
  BY Consts DEF Base, TypeOK, Calls
<1> QED
  BY <1>1, <1>2, <1>3, BaseGoing

\* An answer in the queue, and the queue without it.
LEMMA HeadTyped ==
  ASSUME TypeOK, q_isotp_rx # <<>>
  PROVE  /\ Head(q_isotp_rx) \in MessageType /\ Tail(q_isotp_rx) \in Seq(MessageType)
         /\ Len(Tail(q_isotp_rx)) = Len(q_isotp_rx) - 1 /\ Len(q_isotp_rx) > 0
<1>1. q_isotp_rx \in Seq(MessageType)
  BY DEF TypeOK
<1> QED
  BY <1>1, HeadTailProperties, EmptySeq

\* What uds_request_blocking leaves as it found it.
RestTyped ==
  /\ now \in 0..(TickMod - 1)
  /\ g_uds_bus_lock \in Users \cup {"free"}
  /\ q_uds_request \in Seq(Requests) /\ Len(q_uds_request) <= QRequestCap
  /\ q_uds_response \in 0..QResponseCap
  /\ q_isotp_rx \in Seq(MessageType) /\ Len(q_isotp_rx) <= QIsotpCap
  /\ ecu \subseteq [n : Calls, ecu : Ecus, sid : Sids, pendings : 0..MaxPending]
HistTyped == hist \in [asked : Calls, calls : Calls, unanswered : SUBSET Calls]

LEMMA TypeParts == TypeOK <=> RestTyped /\ HistTyped /\ UsersTyped
BY DEF TypeOK, RestTyped, HistTyped, UsersTyped

LEMMA BaseRequest ==
  ASSUME Base, NEW c \in Users, Request(c)
  PROVE  Base'
<1>1. user[c] \in UserType /\ user[c].req \in AllRequests /\ user[c].pc = "request"
  BY DEF Base, TypeOK, Asking, Request, At
<1>2. hist.calls \in Nat /\ hist.asked \in Nat /\ Len(q_uds_request) \in Nat
      /\ q_uds_request \in Seq(Requests) /\ HistTyped
  BY Consts DEF Base, TypeOK, Calls, HistTyped
<1>3. Left(c, user[c]) = (IF c = "flash" THEN Len(FlashRequests) - user[c].step ELSE 0) + 1
      /\ user[c].step \in Nat /\ Len(FlashRequests) \in Nat
      /\ (c = "flash" => user[c].step \in 1..Len(FlashRequests))
  BY <1>1, Consts DEF Left, Base, TypeOK, UserType, Asking
<1>4. UNCHANGED <<now, g_uds_bus_lock, q_uds_request, q_uds_response, ecu>>
  BY DEF Request
<1>5. CASE Goes(c, Returns(user[c], FALSE, 0, NoMessage)) /\ UNCHANGED <<q_isotp_rx, hist>>
  <2> DEFINE u == Returns(user[c], FALSE, 0, NoMessage)
  <2>1. u \in UserType
    <3>1. 0 \in Nrcs /\ FALSE \in BOOLEAN /\ NoMessage \in MessageType \cup {NoMessage}
      BY Consts
    <3> QED
      BY <1>1, <3>1, ReturnsTyped
  <2>2. u.pc = "return" /\ u.req = user[c].req /\ u.step = user[c].step
    BY <1>1 DEF Returns, UserType
  <2> HIDE DEF u
  <2>3. Left(c, u) + 1 <= Left(c, user[c]) /\ Left(c, u) <= Left(c, user[c]) /\ Left(c, u) \in Nat
    BY <1>3, <2>2 DEF Left
  <2>4. hist'.calls + Len(q_uds_request') + Left(c, u) - hist'.asked
           <= hist.calls + Len(q_uds_request) + Left(c, user[c]) - hist.asked
    <3>1. hist' = hist /\ q_uds_request' = q_uds_request
      BY <1>4, <1>5
    <3> QED
      BY <1>2, <2>3, <3>1, LeftTyped, LessLeft
  <2>5. hist' \in [asked : Calls, calls : Nat, unanswered : SUBSET Calls]
    BY <1>2, <1>5, Consts DEF HistTyped, Calls
  <2>6. UsersTyped' /\ Asking' /\ Budget'
    BY <1>1, <1>2, <1>3, <1>4, <1>5, <2>1, <2>2, <2>3, <2>4, <2>5, BaseGoing DEF u
  <2>7. RestTyped'
    BY <1>4, <1>5 DEF Base, TypeOK, RestTyped
  <2> QED
    BY <1>2, <1>5, <2>6, <2>7, TypeParts DEF Base, HistTyped, TypeOK, RestTyped, UsersTyped
<1>6. CASE /\ Goes(c, [user[c] EXCEPT !.pc = "send", !.n = hist.calls + 1])
           /\ q_isotp_rx' = <<>> /\ hist' = [hist EXCEPT !.calls = @ + 1]
  <2> DEFINE u == [user[c] EXCEPT !.pc = "send", !.n = hist.calls + 1]
  <2>0. hist.calls + 1 \in Calls
    <3>1. Left("uds", user["uds"]) \in Nat /\ Left("flash", user["flash"]) \in Nat
      BY LeftTyped DEF Users
    <3>2. Left("uds", user["uds"]) + Left("flash", user["flash"]) >= 1
      BY <1>3, <3>1 DEF Users
    <3>3. hist.calls + Len(q_uds_request) + Left("uds", user["uds"]) + Left("flash", user["flash"])
            <= hist.asked
      BY DEF Base, Budget
    <3>4. hist.asked <= MaxRequests
      BY DEF Base, TypeOK, Calls
    <3>5. PICK a \in Nat, b \in Nat, l \in Nat :
            a = Left("uds", user["uds"]) /\ b = Left("flash", user["flash"]) /\ l = Len(q_uds_request)
      BY <1>2, <3>1
    <3>6. PICK calls \in Nat, asked \in Nat : calls = hist.calls /\ asked = hist.asked
      BY <1>2
    <3>7. calls + l + a + b <= asked /\ asked <= MaxRequests /\ a + b >= 1
      BY <3>2, <3>3, <3>4, <3>5, <3>6
    <3>8. MaxRequests \in Nat
      BY Consts
    <3>9. calls + 1 \in 0..MaxRequests
      BY <3>7, <3>8
    <3> QED
      BY <3>6, <3>9 DEF Calls
  <2>1. u \in UserType
    BY <1>1, <2>0 DEF UserType
  <2>2. u.pc = "send" /\ u.req = user[c].req /\ u.step = user[c].step
    BY <1>1 DEF UserType
  <2> HIDE DEF u
  <2>3. Left(c, u) + 1 <= Left(c, user[c]) /\ Left(c, u) <= Left(c, user[c]) /\ Left(c, u) \in Nat
    BY <1>3, <2>2 DEF Left
  <2>4. hist'.calls = hist.calls + 1 /\ hist'.asked = hist.asked
        /\ hist' \in [asked : Calls, calls : Calls, unanswered : SUBSET Calls]
    BY <1>2, <1>6, <2>0 DEF HistTyped
  <2>5. hist'.calls + Len(q_uds_request') + Left(c, u) - hist'.asked
           <= hist.calls + Len(q_uds_request) + Left(c, user[c]) - hist.asked
    <3>1. q_uds_request' = q_uds_request
      BY <1>4
    <3> QED
      BY <1>2, <2>3, <2>4, <3>1, LeftTyped, LessLeft
  <2>6. hist' \in [asked : Calls, calls : Nat, unanswered : SUBSET Calls]
    BY <2>4 DEF Calls
  <2>7. UsersTyped' /\ Asking' /\ Budget'
    BY <1>1, <1>2, <1>3, <1>4, <1>6, <2>1, <2>2, <2>3, <2>5, <2>6, BaseGoing DEF u
  <2>8. RestTyped'
    <3>1. <<>> \in Seq(MessageType) /\ Len(<<>>) = 0
      OBVIOUS
    <3> QED
      BY <1>4, <1>6, <3>1, Consts DEF Base, TypeOK, RestTyped
  <2> QED
    BY <2>4, <2>7, <2>8, TypeParts DEF Base, HistTyped, TypeOK, RestTyped, UsersTyped
<1> QED
  BY <1>5, <1>6 DEF Request

LEMMA BaseSend ==
  ASSUME Base, NEW c \in Users, IsoTpSend(c)
  PROVE  Base'
<1> DEFINE w == WaitFor(user[c], user[c].req.timeout)
           r == Returns(user[c], FALSE, BusError, NoMessage)
           o == [n |-> user[c].n, ecu |-> user[c].req.ecu, sid |-> user[c].req.sid, pendings |-> 0]
<1>1. user[c] \in UserType /\ user[c].req \in AllRequests /\ user[c].pc = "send"
  BY DEF Base, TypeOK, Asking, IsoTpSend, At
<1>2. now \in 0..(TickMod - 1) /\ user[c].req.timeout \in 0..(TickMod - 1)
      /\ user[c].req.ecu \in Ecus /\ user[c].req.sid \in Sids /\ user[c].n \in Calls
  <2>1. \A x \in AllRequests : x.ecu \in Ecus /\ x.sid \in Sids /\ x.timeout \in 0..(TickMod - 1)
    BY Consts
  <2>2. user[c].n \in Calls /\ now \in 0..(TickMod - 1)
    BY <1>1 DEF Base, TypeOK, UserType
  <2> QED
    BY <1>1, <2>1, <2>2
<1>3. w \in UserType /\ r \in UserType
  <2>1. BusError \in Nrcs /\ FALSE \in BOOLEAN /\ NoMessage \in MessageType \cup {NoMessage}
    BY Consts
  <2>2. r \in UserType
    BY <1>1, <2>1, ReturnsTyped
  <2>3. w \in UserType
    BY <1>1, <1>2, WaitForTyped
  <2> QED
    BY <2>2, <2>3
<1>4. /\ w.pc = "test" /\ w.req = user[c].req /\ w.step = user[c].step
      /\ r.pc = "return" /\ r.req = user[c].req /\ r.step = user[c].step
  BY <1>1 DEF WaitFor, Returns, UserType
<1>5. o \in [n : Calls, ecu : Ecus, sid : Sids, pendings : 0..MaxPending]
  BY <1>2, Consts
<1>6. /\ Goes(c, w) \/ Goes(c, r)
      /\ ecu' = ecu \cup {o} \/ ecu' = ecu
      /\ UNCHANGED <<now, g_uds_bus_lock, q_uds_request, q_uds_response, q_isotp_rx, hist>>
  BY DEF IsoTpSend
<1> HIDE DEF w, r, o
<1>7. UsersTyped' /\ Asking' /\ Budget'
  BY <1>1, <1>3, <1>4, <1>6, BaseInCall
<1>8. RestTyped'
  BY <1>5, <1>6 DEF Base, TypeOK, RestTyped
<1> QED
  BY <1>6, <1>7, <1>8, TypeParts DEF Base, HistTyped, TypeOK, RestTyped, UsersTyped

\* A step of wait_uds_response.
LEMMA BaseWaiting ==
  ASSUME Base, NEW c \in Users, NEW u \in UserType, Goes(c, u), Waiting,
         user[c].pc \notin {"idle", "lock", "request"}, u.pc \notin {"idle", "lock", "request"},
         u.req = user[c].req, u.step = user[c].step,
         q_isotp_rx' = q_isotp_rx \/ (q_isotp_rx # <<>> /\ q_isotp_rx' = Tail(q_isotp_rx))
  PROVE  Base'
<1>1. UNCHANGED <<now, g_uds_bus_lock, q_uds_request, q_uds_response, ecu, hist>>
  BY DEF Waiting
<1>2. UsersTyped' /\ Asking' /\ Budget'
  BY <1>1, BaseInCall
<1>3. q_isotp_rx' \in Seq(MessageType) /\ Len(q_isotp_rx') <= QIsotpCap
  <2>1. CASE q_isotp_rx' = q_isotp_rx
    BY <2>1 DEF Base, TypeOK
  <2>2. CASE q_isotp_rx # <<>> /\ q_isotp_rx' = Tail(q_isotp_rx)
    <3>1. Len(q_isotp_rx) <= QIsotpCap /\ Len(q_isotp_rx) \in Nat /\ QIsotpCap \in Nat
      BY Consts DEF Base, TypeOK
    <3>2. Tail(q_isotp_rx) \in Seq(MessageType) /\ Len(Tail(q_isotp_rx)) = Len(q_isotp_rx) - 1
      BY <2>2, HeadTyped DEF Base
    <3>3. Len(Tail(q_isotp_rx)) <= QIsotpCap
      BY <3>1, <3>2
    <3> QED
      BY <2>2, <3>2, <3>3
  <2> QED
    BY <2>1, <2>2
<1>4. RestTyped'
  BY <1>1, <1>3 DEF Base, TypeOK, RestTyped
<1> QED
  BY <1>1, <1>2, <1>4, TypeParts DEF Base, HistTyped, TypeOK, RestTyped, UsersTyped

LEMMA TimedOutTyped ==
  ASSUME NEW u \in UserType
  PROVE  /\ TimedOut(u) \in UserType /\ TimedOut(u).pc = "return"
         /\ TimedOut(u).req = u.req /\ TimedOut(u).step = u.step
<1>1. NoAnswer \in Nrcs /\ FALSE \in BOOLEAN /\ NoMessage \in MessageType \cup {NoMessage}
  BY Consts
<1>2. TimedOut(u) \in UserType
  BY <1>1, ReturnsTyped DEF TimedOut
<1> QED
  BY <1>2 DEF TimedOut, Returns, UserType

LEMMA BaseTest ==
  ASSUME Base, NEW c \in Users, Test(c)
  PROVE  Base'
<1> DEFINE r == [user[c] EXCEPT !.pc = "remaining"]
<1>1. user[c] \in UserType /\ user[c].pc = "test" /\ Waiting /\ q_isotp_rx' = q_isotp_rx
  BY DEF Base, TypeOK, Test, At
<1>2. r \in UserType /\ r.pc = "remaining" /\ r.req = user[c].req /\ r.step = user[c].step
  BY <1>1 DEF UserType
<1>3. Goes(c, r) \/ Goes(c, TimedOut(user[c]))
  BY DEF Test
<1> HIDE DEF r
<1> QED
  BY <1>1, <1>2, <1>3, TimedOutTyped, BaseWaiting

LEMMA BaseRemaining ==
  ASSUME Base, NEW c \in Users, Remaining(c)
  PROVE  Base'
<1> DEFINE rest == (user[c].deadline - now) % TickMod
           r == [user[c] EXCEPT !.pc = "receive", !.remaining = rest]
<1>1. user[c] \in UserType /\ user[c].pc = "remaining" /\ Waiting /\ q_isotp_rx' = q_isotp_rx
      /\ Goes(c, r)
  BY DEF Base, TypeOK, Remaining, At
<1>2. rest \in 0..(TickMod + LockWait)
  <2>1. user[c].deadline \in 0..(TickMod - 1) /\ now \in 0..(TickMod - 1)
    BY <1>1 DEF Base, TypeOK, UserType
  <2>2. TickMod \in Nat \ {0} /\ LockWait \in Nat
    BY Consts
  <2>3. user[c].deadline - now \in Int
    BY <2>1
  <2>4. rest \in 0..(TickMod - 1)
    BY <2>2, <2>3
  <2> HIDE DEF rest
  <2> QED
    BY <2>2, <2>4
<1> HIDE DEF rest
<1>3. r \in UserType /\ r.pc = "receive" /\ r.req = user[c].req /\ r.step = user[c].step
  BY <1>1, <1>2 DEF UserType
<1> HIDE DEF r
<1> QED
  BY <1>1, <1>3, BaseWaiting

LEMMA BaseReceive ==
  ASSUME Base, NEW c \in Users, Receive(c)
  PROVE  Base'
<1> DEFINE v == user[c]
           m == Head(q_isotp_rx)
           t == [v EXCEPT !.pc = "test"]
<1>1. v \in UserType /\ v.pc = "receive" /\ Waiting
      /\ q_isotp_rx # <<>> /\ q_isotp_rx' = Tail(q_isotp_rx)
  BY DEF Base, TypeOK, Receive, At
<1>2. m \in MessageType /\ NrcsOf(m) \subseteq Nrcs
  BY <1>1, HeadTyped, MessageTyped DEF Base
<1>3. now \in 0..(TickMod - 1) /\ P2Star \in 0..(TickMod - 1) /\ 0 \in Nrcs
  BY Consts DEF Base, TypeOK
<1>4. \/ Goes(c, t)
      \/ Goes(c, Returns(v, TRUE, 0, m))
      \/ \E nrc \in NrcsOf(m) : Goes(c, Extended(v)) \/ Goes(c, Returns(v, FALSE, nrc, m))
  BY DEF Receive
<1> HIDE DEF v, m, t
<1>5. t \in UserType /\ t.pc = "test" /\ t.req = v.req /\ t.step = v.step
  BY <1>1 DEF t, UserType
<1>6. \A ok \in BOOLEAN, nrc \in Nrcs :
        LET r == Returns(v, ok, nrc, m)
        IN  r \in UserType /\ r.pc = "return" /\ r.req = v.req /\ r.step = v.step
  <2> TAKE ok \in BOOLEAN, nrc \in Nrcs
  <2>1. Returns(v, ok, nrc, m) \in UserType
    BY <1>1, <1>2, ReturnsTyped
  <2> QED
    BY <1>1, <2>1 DEF Returns, UserType
<1>7. LET e == Extended(v)
      IN  e \in UserType /\ e.pc = "test" /\ e.req = v.req /\ e.step = v.step
  <2>1. WaitFor(v, P2Star) \in UserType
    BY <1>1, <1>3, WaitForTyped
  <2> QED
    BY <1>1, <2>1 DEF Extended, WaitFor, UserType
<1>8. PICK u \in UserType :
        Goes(c, u) /\ u.pc \in {"test", "return"} /\ u.req = v.req /\ u.step = v.step
  BY <1>2, <1>3, <1>4, <1>5, <1>6, <1>7
<1> QED
  BY <1>1, <1>8, BaseWaiting DEF v

LEMMA BaseReceiveTimesOut ==
  ASSUME Base, NEW c \in Users, ReceiveTimesOut(c)
  PROVE  Base'
<1>1. user[c] \in UserType /\ user[c].pc = "receive" /\ Waiting /\ q_isotp_rx' = q_isotp_rx
      /\ Goes(c, TimedOut(user[c]))
  BY DEF Base, TypeOK, ReceiveTimesOut, At
<1> QED
  BY <1>1, TimedOutTyped, BaseWaiting

LEMMA BaseBlocking ==
  ASSUME Base, NEW c \in Users, Blocking(c)
  PROVE  Base'
BY BaseRequest, BaseSend, BaseTest, BaseRemaining, BaseReceive, BaseReceiveTimesOut DEF Blocking

\* A request leaves the queue for the user that makes it.
LEMMA BaseNextRequest == ASSUME Base, NextRequest PROVE Base'
<1> DEFINE r == Head(q_uds_request)
           u == [Idle EXCEPT !.pc = "lock", !.req = r]
<1>1. q_uds_request \in Seq(Requests) /\ q_uds_request # <<>> /\ q_uds_request' = Tail(q_uds_request)
      /\ Len(q_uds_request) <= QRequestCap /\ user["uds"].pc = "idle" /\ Goes("uds", u)
      /\ UNCHANGED <<now, g_uds_bus_lock, q_uds_response, q_isotp_rx, ecu, hist>>
  BY DEF Base, TypeOK, NextRequest, At
<1>2. /\ r \in Requests /\ q_uds_request' \in Seq(Requests)
      /\ Len(q_uds_request') = Len(q_uds_request) - 1
      /\ Len(q_uds_request') \in Nat
  BY <1>1, HeadTailProperties, EmptySeq
<1>3. r \in AllRequests /\ QRequestCap \in Nat
  BY <1>2, Consts
<1> HIDE DEF r
<1>4. u \in UserType /\ u.pc = "lock" /\ u.req = r
  BY <1>3, IdleTyped DEF Idle, UserType
<1> HIDE DEF u
<1>5. Left("uds", u) = 1 /\ Left("uds", user["uds"]) = 0
  BY <1>1, <1>4 DEF Left
<1>6. HistTyped /\ hist' = hist /\ hist.calls \in Nat /\ hist.asked \in Nat
  BY <1>1, Consts DEF Base, TypeOK, HistTyped, Calls
<1>7. hist'.calls + Len(q_uds_request') + Left("uds", u) - hist'.asked
        <= hist.calls + Len(q_uds_request) + Left("uds", user["uds"]) - hist.asked
  <2>1. PICK l \in Nat : l = Len(q_uds_request') /\ Len(q_uds_request) = l + 1
    BY <1>2
  <2>2. PICK a \in Nat, b \in Nat : hist.calls = a /\ hist.asked = b
    BY <1>6
  <2>3. a + l + 1 - b <= a + (l + 1) + 0 - b
    OBVIOUS
  <2> QED
    BY <1>5, <1>6, <2>1, <2>2, <2>3
<1>8. hist' \in [asked : Calls, calls : Nat, unanswered : SUBSET Calls]
  BY <1>6 DEF HistTyped, Calls
<1>9. UsersTyped' /\ Asking' /\ Budget'
  BY <1>1, <1>2, <1>3, <1>4, <1>5, <1>7, <1>8, BaseGoing DEF Users
<1>10. Len(q_uds_request') <= QRequestCap
  BY <1>1, <1>2, <1>3
<1>11. RestTyped'
  BY <1>1, <1>2, <1>10 DEF Base, TypeOK, RestTyped
<1> QED
  BY <1>6, <1>9, <1>11, TypeParts DEF Base, HistTyped, TypeOK, RestTyped, UsersTyped

\* A step between calls: neither the queue of requests nor the number of calls changes,
\* and no more calls are left than before.
LEMMA BaseOutside ==
  ASSUME Base, NEW c \in Users, NEW u \in UserType, Goes(c, u),
         u.pc # "idle" => u.req \in AllRequests,
         c = "flash" /\ u.pc # "idle" => u.step \in 1..Len(FlashRequests),
         c = "flash" /\ u.pc = "lock" => u.step = 1,
         Left(c, u) \in Nat, Left(c, u) <= Left(c, user[c]),
         g_uds_bus_lock' \in Users \cup {"free"}, q_uds_response' \in 0..QResponseCap,
         HistTyped', hist'.calls = hist.calls, hist'.asked = hist.asked,
         UNCHANGED <<now, q_uds_request, q_isotp_rx, ecu>>
  PROVE  Base'
<1>1. Left(c, user[c]) \in Nat
  BY LeftTyped
<1>2. hist.calls \in Nat /\ hist.asked \in Nat /\ Len(q_uds_request) \in Nat
      /\ q_uds_request' = q_uds_request /\ q_uds_request \in Seq(Requests)
  BY Consts DEF Base, TypeOK, Calls
<1>3. hist'.calls + Len(q_uds_request') + Left(c, u) - hist'.asked
        <= hist.calls + Len(q_uds_request) + Left(c, user[c]) - hist.asked
  BY <1>1, <1>2, LessLeft
<1>4. hist' \in [asked : Calls, calls : Nat, unanswered : SUBSET Calls]
  BY DEF HistTyped, Calls
<1>5. UsersTyped' /\ Asking' /\ Budget'
  BY <1>2, <1>3, <1>4, BaseGoing
<1>6. RestTyped'
  BY DEF Base, TypeOK, RestTyped
<1> QED
  BY <1>5, <1>6, TypeParts DEF Base, HistTyped, TypeOK, RestTyped, UsersTyped

LEMMA BaseTakeLock == ASSUME Base, NEW c \in Users, TakeLock(c) PROVE Base'
<1> DEFINE u == [user[c] EXCEPT !.pc = "request", !.remaining = 0]
<1>1. user[c] \in UserType /\ user[c].pc = "lock" /\ user[c].req \in AllRequests /\ Goes(c, u)
      /\ (c = "flash" => user[c].step \in 1..Len(FlashRequests))
      /\ g_uds_bus_lock' = c
      /\ UNCHANGED <<now, q_uds_request, q_uds_response, q_isotp_rx, ecu, hist>>
  BY DEF Base, TypeOK, Asking, TakeLock, At
<1>2. 0 \in 0..(TickMod + LockWait)
  BY Consts
<1>3. u \in UserType /\ u.pc = "request" /\ u.req = user[c].req /\ u.step = user[c].step
  BY <1>1, <1>2 DEF UserType
<1> HIDE DEF u
<1>4. Left(c, u) = Left(c, user[c]) /\ Left(c, user[c]) \in Nat
  BY <1>1, <1>3, LeftTyped DEF Left
<1>5. HistTyped' /\ hist' = hist /\ q_uds_response' \in 0..QResponseCap
  BY <1>1 DEF Base, TypeOK, HistTyped
<1>6. Left(c, u) \in Nat /\ Left(c, u) <= Left(c, user[c])
  BY <1>4
<1> QED
  BY <1>1, <1>3, <1>5, <1>6, BaseOutside

\* The history when a call is over.
LEMMA EndedTyped ==
  ASSUME TypeOK, NEW c \in Users
  PROVE  /\ Ended(c) \in [asked : Calls, calls : Calls, unanswered : SUBSET Calls]
         /\ Ended(c).asked = hist.asked /\ Ended(c).calls = hist.calls
         /\ Ended(c).unanswered = IF user[c].n = user[c].took.of THEN hist.unanswered
                                  ELSE hist.unanswered \cup {user[c].n}
<1> DEFINE s == IF user[c].n = user[c].took.of THEN hist.unanswered
                ELSE hist.unanswered \cup {user[c].n}
<1>1. user[c].n \in Calls /\ hist \in [asked : Calls, calls : Calls, unanswered : SUBSET Calls]
  BY DEF TypeOK, UserType
<1>2. s \in SUBSET Calls
  BY <1>1
<1>3. Ended(c) = [hist EXCEPT !.unanswered = s]
  BY <1>1 DEF Ended
<1> HIDE DEF s
<1>4. /\ Ended(c) \in [asked : Calls, calls : Calls, unanswered : SUBSET Calls]
      /\ Ended(c).asked = hist.asked /\ Ended(c).calls = hist.calls /\ Ended(c).unanswered = s
  BY <1>1, <1>2, <1>3
<1> QED
  BY <1>4 DEF s

LEMMA BaseUdsReturn == ASSUME Base, UdsReturn PROVE Base'
<1> DEFINE c == "uds"
           u == [user[c] EXCEPT !.pc = "reply"]
<1>1. user[c] \in UserType /\ user[c].pc = "return" /\ user[c].req \in AllRequests /\ Goes(c, u)
      /\ g_uds_bus_lock' = "free" /\ hist' = Ended(c)
      /\ UNCHANGED <<now, q_uds_request, q_uds_response, q_isotp_rx, ecu>> /\ c \in Users
  BY DEF Base, TypeOK, Asking, UdsReturn, At, Users
<1>2. u \in UserType /\ u.pc = "reply" /\ u.req = user[c].req
  BY <1>1 DEF UserType
<1> HIDE DEF u
<1>3. Left(c, u) = 0 /\ Left(c, user[c]) = 0
  BY <1>1, <1>2 DEF Left
<1>4. HistTyped' /\ hist'.calls = hist.calls /\ hist'.asked = hist.asked
      /\ q_uds_response' \in 0..QResponseCap
  BY <1>1, EndedTyped DEF Base, TypeOK, HistTyped
<1>5. Left(c, u) \in Nat /\ Left(c, u) <= Left(c, user[c])
  BY <1>3
<1> QED
  BY <1>1, <1>2, <1>4, <1>5, BaseOutside

LEMMA IdleLeft == Left("uds", Idle) = 0 /\ Left("flash", Idle) = 0 /\ Idle.pc = "idle"
BY DEF Idle, Left

LEMMA BaseReply == ASSUME Base, Reply PROVE Base'
<1> DEFINE c == "uds"
<1>1. Goes(c, Idle) /\ c \in Users
      /\ q_uds_response' = (IF q_uds_response < QResponseCap THEN q_uds_response + 1 ELSE q_uds_response)
      /\ UNCHANGED <<now, g_uds_bus_lock, q_uds_request, q_isotp_rx, ecu, hist>>
  BY DEF Reply, Users
<1>2. HistTyped' /\ hist' = hist /\ g_uds_bus_lock' \in Users \cup {"free"}
  BY <1>1 DEF Base, TypeOK, HistTyped
<1>3. q_uds_response' \in 0..QResponseCap
  BY <1>1, Consts DEF Base, TypeOK
<1>4. Left(c, Idle) \in Nat /\ Left(c, Idle) <= Left(c, user[c])
  BY <1>1, IdleLeft, LeftTyped
<1> QED
  BY <1>1, <1>2, <1>3, <1>4, IdleTyped, IdleLeft, BaseOutside

LEMMA BaseFlashRefused == ASSUME Base, FlashRefused PROVE Base'
<1> DEFINE c == "flash"
<1>1. Goes(c, Idle) /\ c \in Users
      /\ UNCHANGED <<now, g_uds_bus_lock, q_uds_request, q_uds_response, q_isotp_rx, ecu, hist>>
  BY DEF FlashRefused, Users
<1>2. HistTyped' /\ hist' = hist /\ g_uds_bus_lock' \in Users \cup {"free"}
      /\ q_uds_response' \in 0..QResponseCap
  BY <1>1 DEF Base, TypeOK, HistTyped
<1>3. Left(c, Idle) \in Nat /\ Left(c, Idle) <= Left(c, user[c])
  BY <1>1, IdleLeft, LeftTyped
<1> QED
  BY <1>1, <1>2, <1>3, IdleTyped, IdleLeft, BaseOutside

LEMMA FlashRequestTyped ==
  ASSUME NEW k \in 1..Len(FlashRequests)
  PROVE  /\ FlashRequest(k) \in UserType /\ FlashRequest(k).pc = "request"
         /\ FlashRequest(k).req \in AllRequests /\ FlashRequest(k).step = k
<1>1. FlashRequests[k] \in AllRequests /\ k \in 0..Len(FlashRequests)
  BY Consts
<1>2. FlashRequest(k) \in UserType
  BY <1>1, IdleTyped DEF FlashRequest, Idle, UserType
<1> QED
  BY <1>1, <1>2 DEF FlashRequest, Idle, UserType

LEMMA BaseFlashReturn == ASSUME Base, FlashReturn PROVE Base'
<1> DEFINE c == "flash"
           v == user[c]
<1>1. v \in UserType /\ v.pc = "return" /\ v.step \in 1..Len(FlashRequests)
      /\ hist' = Ended(c) /\ c \in Users
      /\ UNCHANGED <<now, q_uds_request, q_uds_response, q_isotp_rx, ecu>>
  BY DEF Base, TypeOK, Asking, FlashReturn, At, Users
<1>2. Left(c, v) = Len(FlashRequests) - v.step /\ Left(c, v) \in Nat
  BY <1>1, LeftTyped DEF Left
<1>3. HistTyped' /\ hist'.calls = hist.calls /\ hist'.asked = hist.asked
      /\ q_uds_response' \in 0..QResponseCap
  BY <1>1, EndedTyped DEF Base, TypeOK, HistTyped
<1>4. \/ v.step < Len(FlashRequests) /\ Goes(c, FlashRequest(v.step + 1)) /\ UNCHANGED g_uds_bus_lock
      \/ Goes(c, Idle) /\ g_uds_bus_lock' = "free"
  <2>1. v.step <= Len(FlashRequests)
    BY <1>1, Consts
  <2> QED
    BY <2>1 DEF FlashReturn
<1>5. g_uds_bus_lock' \in Users \cup {"free"}
  BY <1>4 DEF Base, TypeOK
<1>6. CASE v.step < Len(FlashRequests) /\ Goes(c, FlashRequest(v.step + 1))
  <2> DEFINE u == FlashRequest(v.step + 1)
  <2>1. v.step + 1 \in 1..Len(FlashRequests) /\ Len(FlashRequests) \in Nat
    BY <1>1, <1>6, Consts
  <2>2. /\ u \in UserType /\ u.pc = "request" /\ u.req \in AllRequests /\ u.step = v.step + 1
    BY <2>1, FlashRequestTyped
  <2> HIDE DEF u
  <2>3. Left(c, u) = Len(FlashRequests) - (v.step + 1) + 1
    BY <2>2 DEF Left
  <2>4. Left(c, u) \in Nat /\ Left(c, u) <= Left(c, v)
    BY <1>1, <1>2, <2>1, <2>3
  <2>5. Goes(c, u)
    BY <1>6 DEF u
  <2> QED
    BY <1>1, <1>3, <1>5, <2>1, <2>2, <2>4, <2>5, BaseOutside
<1>7. CASE Goes(c, Idle)
  <2>1. Left(c, Idle) \in Nat /\ Left(c, Idle) <= Left(c, v)
    BY <1>1, <1>2, IdleLeft
  <2> QED
    BY <1>1, <1>3, <1>5, <1>7, <2>1, IdleTyped, IdleLeft, BaseOutside
<1> QED
  BY <1>4, <1>6, <1>7

LEMMA BaseFlashStart == ASSUME Base, FlashStart PROVE Base'
<1> DEFINE c == "flash"
           n == Len(FlashRequests)
           u == [FlashRequest(1) EXCEPT !.pc = "lock", !.remaining = LockWait]
<1>1. Goes(c, u) /\ user[c].pc = "idle" /\ hist.asked + n <= MaxRequests
      /\ hist' = [hist EXCEPT !.asked = @ + n] /\ c \in Users
      /\ UNCHANGED <<now, g_uds_bus_lock, q_uds_request, q_uds_response, q_isotp_rx, ecu>>
  BY DEF FlashStart, At, Users
<1>2. n \in Nat \ {0} /\ 1 \in 1..n
  BY Consts
<1>3. LockWait \in 0..(TickMod + LockWait)
  BY Consts
<1>4. FlashRequest(1) \in UserType /\ FlashRequest(1).req \in AllRequests /\ FlashRequest(1).step = 1
  BY <1>2, FlashRequestTyped
<1>5. u \in UserType /\ u.pc = "lock" /\ u.req \in AllRequests /\ u.step = 1
  BY <1>3, <1>4 DEF UserType
<1> HIDE DEF u, n
<1>6. Left(c, u) = n /\ Left(c, user[c]) = 0
  <2>1. Left(c, u) = (n - 1) + 1
    BY <1>5 DEF Left, n
  <2> QED
    BY <1>1, <1>2, <2>1 DEF Left
<1>7. hist \in [asked : Calls, calls : Calls, unanswered : SUBSET Calls]
      /\ hist.calls \in Nat /\ hist.asked \in Nat /\ Len(q_uds_request) \in Nat
      /\ q_uds_request' = q_uds_request /\ q_uds_request' \in Seq(Requests)
  BY <1>1, Consts DEF Base, TypeOK, Calls
<1>8. hist.asked + n \in Calls
  BY <1>1, <1>2, <1>7, Consts DEF Calls
<1>9. HistTyped' /\ hist'.calls = hist.calls /\ hist'.asked = hist.asked + n
  BY <1>1, <1>7, <1>8 DEF HistTyped
<1>10. hist'.calls + Len(q_uds_request') + Left(c, u) - hist'.asked
         <= hist.calls + Len(q_uds_request) + Left(c, user[c]) - hist.asked
  <2>1. PICK a \in Nat, l \in Nat, d \in Nat, k \in Nat :
          a = hist.calls /\ l = Len(q_uds_request) /\ d = hist.asked /\ k = n
    BY <1>2, <1>7
  <2>2. a + l + k - (d + k) <= a + l + 0 - d
    OBVIOUS
  <2> QED
    BY <1>6, <1>7, <1>9, <2>1, <2>2
<1>11. hist' \in [asked : Calls, calls : Nat, unanswered : SUBSET Calls] /\ Left(c, u) \in Nat
  BY <1>2, <1>6, <1>9 DEF HistTyped, Calls
<1>12. UsersTyped' /\ Asking' /\ Budget'
  <2>1. u.pc # "idle" => u.req \in AllRequests
    BY <1>5
  <2>2. c = "flash" /\ u.pc # "idle" => u.step \in 1..Len(FlashRequests)
    BY <1>2, <1>5 DEF n
  <2> QED
    BY <1>1, <1>5, <1>7, <1>10, <1>11, <2>1, <2>2, BaseGoing
<1>13. RestTyped'
  BY <1>1 DEF Base, TypeOK, RestTyped
<1> QED
  BY <1>9, <1>12, <1>13, TypeParts DEF Base, HistTyped, TypeOK, RestTyped, UsersTyped

LEMMA BaseClientAsks == ASSUME Base, NEW r \in Requests, ClientAsks(r) PROVE Base'
<1>1. q_uds_request' = Append(q_uds_request, r) /\ hist' = [hist EXCEPT !.asked = @ + 1]
      /\ hist.asked < MaxRequests /\ Len(q_uds_request) < QRequestCap
      /\ UNCHANGED <<now, g_uds_bus_lock, user, q_uds_response, q_isotp_rx, ecu>>
  BY DEF ClientAsks
<1>2. hist \in [asked : Calls, calls : Calls, unanswered : SUBSET Calls]
      /\ q_uds_request \in Seq(Requests)
  BY DEF Base, TypeOK
<1>3. q_uds_request' \in Seq(Requests) /\ Len(q_uds_request') = Len(q_uds_request) + 1
  BY <1>1, <1>2, AppendProperties
<1>4. hist.asked + 1 \in Calls /\ hist.asked \in Nat /\ hist.calls \in Nat
  BY <1>1, <1>2, Consts DEF Calls
<1>5. HistTyped' /\ hist'.asked = hist.asked + 1 /\ hist'.calls = hist.calls
  BY <1>1, <1>2, <1>4 DEF HistTyped
<1>6. Budget'
  <2>1. PICK a \in Nat, l \in Nat, d \in Nat, x \in Nat, y \in Nat :
          /\ a = hist.calls /\ l = Len(q_uds_request) /\ d = hist.asked
          /\ x = Left("uds", user["uds"]) /\ y = Left("flash", user["flash"])
    BY <1>2, <1>4, LeftTyped, LenProperties DEF Users
  <2>2. a + l + x + y <= d
    BY <2>1 DEF Base, Budget
  <2>3. a + (l + 1) + x + y <= d + 1
    BY <2>2
  <2>4. user' = user
    BY <1>1
  <2> QED
    BY <1>3, <1>5, <2>1, <2>3, <2>4 DEF Budget
<1>7. Len(q_uds_request') <= QRequestCap
  BY <1>1, <1>2, <1>3, Consts, LenProperties
<1>8. RestTyped'
  BY <1>1, <1>3, <1>7 DEF Base, TypeOK, RestTyped
<1>9. UsersTyped' /\ Asking'
  BY <1>1 DEF Base, TypeOK, UsersTyped, Asking
<1> QED
  BY <1>5, <1>6, <1>8, <1>9, TypeParts DEF Base, HistTyped, TypeOK, RestTyped, UsersTyped

\* A step that is no user's and no client's.
LEMMA BaseElsewhere ==
  ASSUME Base, UNCHANGED <<q_uds_request, hist>>, RestTyped', UsersTyped',
         \A c \in Users : /\ user'[c].pc = user[c].pc /\ user'[c].req = user[c].req
                          /\ user'[c].step = user[c].step
  PROVE  Base'
<1>1. \A c \in Users : Left(c, user'[c]) = Left(c, user[c])
  BY DEF Left
<1>2. Asking'
  BY DEF Base, Asking, Users
<1>3. Budget'
  BY <1>1 DEF Base, Budget, Users
<1>4. HistTyped'
  BY DEF Base, TypeOK, HistTyped
<1> QED
  BY <1>2, <1>3, <1>4, TypeParts DEF Base, HistTyped, TypeOK, RestTyped, UsersTyped

LEMMA BasePump == ASSUME Base, Pump PROVE Base'
<1>1. RestTyped' /\ UsersTyped'
  BY Consts DEF Pump, Base, TypeOK, RestTyped, UsersTyped
<1> QED
  BY <1>1, BaseElsewhere DEF Pump

\* An answer of an ECU.
LEMMA DeliversTyped ==
  ASSUME Base, NEW o \in ecu, NEW form \in FormType, Delivers(o, form)
  PROVE  /\ q_isotp_rx' \in Seq(MessageType) /\ Len(q_isotp_rx') <= QIsotpCap
         /\ Message(o.ecu, o.sid, form, o.n) \in MessageType
<1> DEFINE m == Message(o.ecu, o.sid, form, o.n)
<1>1. o \in [n : Calls, ecu : Ecus, sid : Sids, pendings : 0..MaxPending]
      /\ hist.calls \in Calls
      /\ q_isotp_rx \in Seq(MessageType) /\ Len(q_isotp_rx) <= QIsotpCap
  BY DEF Base, TypeOK
<1>2. m \in MessageType
  BY <1>1 DEF Message, MessageType, FormType
<1>3. q_isotp_rx' = IF Len(q_isotp_rx) < QIsotpCap THEN Append(q_isotp_rx, m) ELSE q_isotp_rx
  BY DEF Delivers, Send
<1> HIDE DEF m
<1>4. Append(q_isotp_rx, m) \in Seq(MessageType) /\ Len(Append(q_isotp_rx, m)) = Len(q_isotp_rx) + 1
  BY <1>1, <1>2, AppendProperties
<1>5. Len(q_isotp_rx) \in Nat /\ QIsotpCap \in Nat
  BY <1>1, Consts
<1> QED
  BY <1>1, <1>2, <1>3, <1>4, <1>5 DEF m

LEMMA BaseEcu == ASSUME Base, NEW o \in ecu, EcuAnswers(o) \/ EcuPending(o) PROVE Base'
<1> DEFINE waits == [positive |-> FALSE, len |-> 3, nrc |-> Pending]
           Obligations == [n : Calls, ecu : Ecus, sid : Sids, pendings : 0..MaxPending]
<1>1. waits \in FormType
  BY DEF FormType
<1>2. PICK form \in FormType : Delivers(o, form)
  BY <1>1 DEF EcuAnswers, EcuPending, FormType
<1>3. q_isotp_rx' \in Seq(MessageType) /\ Len(q_isotp_rx') <= QIsotpCap
  BY <1>2, DeliversTyped
<1>4. UNCHANGED <<now, g_uds_bus_lock, user, q_uds_request, q_uds_response, hist>>
  BY <1>2 DEF Delivers
<1>5. ecu' \subseteq Obligations
  <2>1. ecu \subseteq Obligations /\ MaxPending \in Nat
    BY Consts DEF Base, TypeOK
  <2>2. CASE EcuAnswers(o)
    BY <2>1, <2>2 DEF EcuAnswers
  <2>3. CASE EcuPending(o)
    <3>1. o \in Obligations /\ o.pendings + 1 \in 0..MaxPending
      BY <2>1, <2>3 DEF EcuPending
    <3>2. [o EXCEPT !.pendings = @ + 1] \in Obligations
      BY <3>1
    <3> QED
      BY <2>1, <2>3, <3>2 DEF EcuPending
  <2> QED
    BY <2>2, <2>3
<1>6. RestTyped' /\ UsersTyped'
  BY <1>3, <1>4, <1>5 DEF Base, TypeOK, RestTyped, UsersTyped
<1> QED
  BY <1>4, <1>6, BaseElsewhere

\* What a tick does to a user.
LEMMA TickUser ==
  ASSUME TypeOK, Tick, NEW c \in Users
  PROVE  /\ user'[c] \in UserType
         /\ user'[c] = [user[c] EXCEPT !.held = user'[c].held, !.remaining = user'[c].remaining,
                                       !.due = user'[c].due]
         /\ user'[c].remaining = (IF Timed(user[c]) THEN Down(user[c].remaining)
                                  ELSE user[c].remaining)
         /\ user'[c].due = (IF user[c].pc \in {"test", "remaining", "receive"} THEN Down(user[c].due)
                            ELSE user[c].due)
<1> DEFINE v == user[c]
           h == IF Ready(c) THEN v.held + 1 ELSE v.held
           r == IF Timed(v) THEN Down(v.remaining) ELSE v.remaining
           d == IF v.pc \in {"test", "remaining", "receive"} THEN Down(v.due) ELSE v.due
<1>1. v \in UserType
  BY DEF TypeOK
<1>2. /\ v.held \in 0..MaxHeld /\ v.remaining \in 0..(TickMod + LockWait) /\ v.due \in 0..(TickMod - 1)
      /\ MaxHeld \in Nat /\ TickMod \in Nat /\ LockWait \in Nat
  BY <1>1, Consts DEF UserType
<1>3. h \in 0..MaxHeld
  <2>1. Ready(c) => v.held < MaxHeld
    BY DEF Tick
  <2>2. CASE Ready(c)
    <3>1. h = v.held + 1
      BY <2>2
    <3> QED
      BY <1>2, <2>1, <2>2, <3>1
  <2>3. CASE ~Ready(c)
    <3>1. h = v.held
      BY <2>3
    <3> QED
      BY <1>2, <3>1
  <2> QED
    BY <2>2, <2>3
<1>4. r \in 0..(TickMod + LockWait) /\ d \in 0..(TickMod - 1)
  BY <1>2 DEF Down
<1>5. user'[c] = [v EXCEPT !.held = h, !.remaining = r, !.due = d]
  BY <1>1 DEF Tick, UserType
<1> HIDE DEF h, r, d
<1>6. user'[c] \in UserType /\ user'[c].held = h /\ user'[c].remaining = r /\ user'[c].due = d
  BY <1>1, <1>3, <1>4, <1>5 DEF UserType
<1> QED
  BY <1>5, <1>6 DEF r, d

LEMMA BaseTick == ASSUME Base, Tick PROVE Base'
<1>1. \A c \in Users : user'[c] \in UserType
  BY TickUser DEF Base
<1>2. UsersTyped'
  BY <1>1 DEF Tick, UsersTyped
<1>3. \A c \in Users : /\ user'[c].pc = user[c].pc /\ user'[c].req = user[c].req
                       /\ user'[c].step = user[c].step
  <2> TAKE c \in Users
  <2>1. user[c] \in UserType
    BY DEF Base, TypeOK
  <2>2. user'[c] = [user[c] EXCEPT !.held = user'[c].held, !.remaining = user'[c].remaining,
                                   !.due = user'[c].due]
    BY TickUser DEF Base
  <2> QED
    BY <2>1, <2>2 DEF UserType
<1>4. now' \in 0..(TickMod - 1)
  <2>1. now \in 0..(TickMod - 1) /\ now' = (now + 1) % TickMod
    BY DEF Tick, Base, TypeOK
  <2>2. TickMod \in Nat \ {0}
    BY Consts
  <2>3. now + 1 \in Nat
    BY <2>1
  <2> QED
    BY <2>1, <2>2, <2>3
<1>5. RestTyped'
  BY <1>4 DEF Tick, Base, TypeOK, RestTyped
<1> QED
  BY <1>2, <1>3, <1>5, BaseElsewhere DEF Tick

LEMMA BaseNext == Base /\ [Next]_vars => Base'
<1> SUFFICES ASSUME Base, [Next]_vars PROVE Base'
  OBVIOUS
<1>1. CASE UNCHANGED vars
  BY <1>1, TypeParts DEF vars, Base, TypeOK, RestTyped, UsersTyped, HistTyped, Asking, Budget
<1> QED
  BY <1>1, BaseNextRequest, BaseTakeLock, BaseBlocking, BaseUdsReturn, BaseReply, BaseFlashRefused,
     BaseFlashReturn, BaseFlashStart, BasePump, BaseTick, BaseClientAsks, BaseEcu
     DEF Next, UdsTask, FlashTask, Users

\* Deadlines stay tick counts, the queues keep their depth, and no call is begun that
\* nobody asked for.
THEOREM TypeCorrect == Spec => []TypeOK
<1>1. Base => TypeOK
  BY DEF Base
<1> QED
  BY <1>1, BaseInit, BaseNext, PTL DEF Spec

-----------------------------------------------------------------------------
(* The bus lock *)

\* A step of a user that stays where it is, inside or outside,
LEMMA InsideStays ==
  ASSUME Base, OneUserInside, NEW c \in Users, NEW u \in UserType, Goes(c, u),
         InCall(u) <=> InCall(user[c]), g_uds_bus_lock' = g_uds_bus_lock
  PROVE  OneUserInside'
<1>1. /\ user'[c] = [u EXCEPT !.held = 0]
      /\ \A d \in Users : d # c => user'[d] = user[d]
  BY Going DEF Base, TypeOK, UsersTyped
<1>2. user'[c].pc = u.pc
  BY <1>1 DEF UserType
<1> QED
  BY <1>1, <1>2 DEF OneUserInside, InCall

\* that enters with the lock,
LEMMA InsideEnters ==
  ASSUME Base, OneUserInside, NEW c \in Users, NEW u \in UserType, Goes(c, u),
         InCall(u), g_uds_bus_lock = "free", g_uds_bus_lock' = c
  PROVE  OneUserInside'
<1>1. /\ user'[c] = [u EXCEPT !.held = 0]
      /\ \A d \in Users : d # c => user'[d] = user[d]
  BY Going DEF Base, TypeOK, UsersTyped
<1>2. user'[c].pc = u.pc
  BY <1>1 DEF UserType
<1> QED
  BY <1>1, <1>2 DEF OneUserInside, InCall, Users

\* or that leaves and gives it back.
LEMMA InsideLeaves ==
  ASSUME Base, OneUserInside, NEW c \in Users, NEW u \in UserType, Goes(c, u),
         InCall(user[c]), ~InCall(u), g_uds_bus_lock' = "free"
  PROVE  OneUserInside'
<1>1. /\ user'[c] = [u EXCEPT !.held = 0]
      /\ \A d \in Users : d # c => user'[d] = user[d]
  BY Going DEF Base, TypeOK, UsersTyped
<1>2. user'[c].pc = u.pc
  BY <1>1 DEF UserType
<1> QED
  BY <1>1, <1>2 DEF OneUserInside, InCall, Users

\* A step of uds_request_blocking stays in the call.
LEMMA BlockingGoes ==
  ASSUME Base, NEW c \in Users, Blocking(c)
  PROVE  \E u \in UserType : Goes(c, u) /\ InCall(u) /\ InCall(user[c])
                             /\ g_uds_bus_lock' = g_uds_bus_lock
<1> DEFINE v == user[c]
           m == Head(q_isotp_rx)
<1>1. v \in UserType /\ (v.pc # "idle" => v.req \in AllRequests) /\ now \in 0..(TickMod - 1)
  BY DEF Base, TypeOK, Asking
<1>2. 0 \in Nrcs /\ NoAnswer \in Nrcs /\ BusError \in Nrcs /\ P2Star \in 0..(TickMod - 1)
      /\ TRUE \in BOOLEAN /\ FALSE \in BOOLEAN /\ NoMessage \in MessageType \cup {NoMessage}
  BY Consts
<1>3. \A ok \in BOOLEAN, nrc \in Nrcs, k \in MessageType \cup {NoMessage} :
        Returns(v, ok, nrc, k) \in UserType /\ Returns(v, ok, nrc, k).pc = "return"
  <2> TAKE ok \in BOOLEAN, nrc \in Nrcs, k \in MessageType \cup {NoMessage}
  <2>1. Returns(v, ok, nrc, k) \in UserType
    BY <1>1, ReturnsTyped
  <2> QED
    BY <1>1, <2>1 DEF Returns, UserType
<1>4. \A n \in 0..(TickMod - 1) : WaitFor(v, n) \in UserType /\ WaitFor(v, n).pc = "test"
  <2> TAKE n \in 0..(TickMod - 1)
  <2>1. WaitFor(v, n) \in UserType
    BY <1>1, WaitForTyped
  <2> QED
    BY <1>1, <2>1 DEF WaitFor, UserType
<1> HIDE DEF v, m
<1>5. CASE Request(c)
  <2>1. v.pc = "request" /\ g_uds_bus_lock' = g_uds_bus_lock
    BY <1>5 DEF Request, At, v
  <2>2. CASE Goes(c, Returns(v, FALSE, 0, NoMessage))
    BY <1>2, <1>3, <2>1, <2>2 DEF InCall, v
  <2>3. CASE Goes(c, [v EXCEPT !.pc = "send", !.n = hist.calls + 1])
    <3>1. hist.calls + 1 \in Calls
      <4>1. Base'
        BY <1>5, BaseRequest
      <4>2. user'[c] \in UserType
        BY <4>1 DEF Base, TypeOK
      <4>3. user'[c] = [[v EXCEPT !.pc = "send", !.n = hist.calls + 1] EXCEPT !.held = 0]
        BY <2>3 DEF Goes, Base, TypeOK
      <4> QED
        BY <1>1, <4>2, <4>3 DEF UserType
    <3>2. /\ [v EXCEPT !.pc = "send", !.n = hist.calls + 1] \in UserType
          /\ [v EXCEPT !.pc = "send", !.n = hist.calls + 1].pc = "send"
      BY <1>1, <3>1 DEF UserType
    <3> QED
      BY <2>1, <2>3, <3>2 DEF InCall, v
  <2> QED
    BY <1>5, <2>2, <2>3 DEF Request, v
<1>6. CASE IsoTpSend(c)
  <2>1. v.pc = "send" /\ g_uds_bus_lock' = g_uds_bus_lock
        /\ (Goes(c, WaitFor(v, v.req.timeout)) \/ Goes(c, Returns(v, FALSE, BusError, NoMessage)))
    BY <1>6 DEF IsoTpSend, At, v
  <2>2. v.req.timeout \in 0..(TickMod - 1)
    <3>1. \A x \in AllRequests : x.timeout \in 0..(TickMod - 1)
      BY Consts
    <3> QED
      BY <1>1, <2>1, <3>1
  <2> QED
    BY <1>2, <1>3, <1>4, <2>1, <2>2 DEF InCall, v
<1>7. CASE Test(c)
  <2>1. v.pc = "test" /\ g_uds_bus_lock' = g_uds_bus_lock
        /\ (Goes(c, [v EXCEPT !.pc = "remaining"]) \/ Goes(c, Returns(v, FALSE, NoAnswer, NoMessage)))
    BY <1>7 DEF Test, Waiting, At, TimedOut, v
  <2>2. [v EXCEPT !.pc = "remaining"] \in UserType /\ [v EXCEPT !.pc = "remaining"].pc = "remaining"
    BY <1>1 DEF UserType
  <2> QED
    BY <1>2, <1>3, <2>1, <2>2 DEF InCall, v
<1>8. CASE Remaining(c)
  <2> DEFINE r == [v EXCEPT !.pc = "receive", !.remaining = (v.deadline - now) % TickMod]
  <2>1. v.pc = "remaining" /\ g_uds_bus_lock' = g_uds_bus_lock /\ Goes(c, r)
    BY <1>8 DEF Remaining, Waiting, At, v
  <2>2. (v.deadline - now) % TickMod \in 0..(TickMod + LockWait)
    <3>1. v.deadline \in 0..(TickMod - 1)
      BY <1>1 DEF UserType
    <3>2. TickMod \in Nat \ {0} /\ LockWait \in Nat
      BY Consts
    <3>3. (v.deadline - now) % TickMod \in 0..(TickMod - 1)
      BY <1>1, <3>1, <3>2
    <3> QED
      BY <3>2, <3>3
  <2>3. r \in UserType /\ r.pc = "receive"
    BY <1>1, <2>2 DEF UserType
  <2> QED
    BY <2>1, <2>3 DEF InCall, v
<1>9. CASE Receive(c)
  <2>1. v.pc = "receive" /\ g_uds_bus_lock' = g_uds_bus_lock /\ q_isotp_rx # <<>>
    BY <1>9 DEF Receive, Waiting, At, v
  <2>2. m \in MessageType /\ NrcsOf(m) \subseteq Nrcs
    <3>1. TypeOK
      BY DEF Base
    <3>2. m \in MessageType
      BY <2>1, <3>1, HeadTyped DEF m
    <3> QED
      BY <3>2, MessageTyped
  <2>3. [v EXCEPT !.pc = "test"] \in UserType /\ [v EXCEPT !.pc = "test"].pc = "test"
    BY <1>1 DEF UserType
  <2>4. \/ Goes(c, [v EXCEPT !.pc = "test"])
        \/ Goes(c, Returns(v, TRUE, 0, m))
        \/ Goes(c, WaitFor(v, P2Star))
        \/ \E nrc \in NrcsOf(m) : Goes(c, Returns(v, FALSE, nrc, m))
    BY <1>9 DEF Receive, Extended, v, m
  <2> QED
    BY <1>2, <1>3, <1>4, <2>1, <2>2, <2>3, <2>4 DEF InCall, v
<1>10. CASE ReceiveTimesOut(c)
  <2>1. v.pc = "receive" /\ g_uds_bus_lock' = g_uds_bus_lock
        /\ Goes(c, Returns(v, FALSE, NoAnswer, NoMessage))
    BY <1>10 DEF ReceiveTimesOut, Waiting, At, TimedOut, v
  <2> QED
    BY <1>2, <1>3, <2>1 DEF InCall, v
<1> QED
  BY <1>5, <1>6, <1>7, <1>8, <1>9, <1>10 DEF Blocking

LEMMA InsideNext == Base /\ OneUserInside /\ [Next]_vars => OneUserInside'
<1> SUFFICES ASSUME Base, OneUserInside, [Next]_vars PROVE OneUserInside'
  OBVIOUS
<1>1. ASSUME NEW c \in Users, Blocking(c) PROVE OneUserInside'
  <2>1. PICK u \in UserType : Goes(c, u) /\ InCall(u) /\ InCall(user[c])
                              /\ g_uds_bus_lock' = g_uds_bus_lock
    BY <1>1, BlockingGoes
  <2> QED
    BY <2>1, InsideStays
<1>2. ASSUME NEW c \in Users, TakeLock(c) PROVE OneUserInside'
  <2> DEFINE u == [user[c] EXCEPT !.pc = "request", !.remaining = 0]
  <2>1. user[c] \in UserType /\ Goes(c, u) /\ g_uds_bus_lock = "free" /\ g_uds_bus_lock' = c
    BY <1>2 DEF TakeLock, Base, TypeOK
  <2>2. u \in UserType /\ u.pc = "request"
    <3>1. 0 \in 0..(TickMod + LockWait)
      BY Consts
    <3> QED
      BY <2>1, <3>1 DEF UserType
  <2>3. InCall(u)
    BY <2>2 DEF InCall
  <2> HIDE DEF u
  <2> QED
    BY <2>1, <2>2, <2>3, InsideEnters
<1>3. CASE NextRequest
  <2> DEFINE c == "uds"
             r == Head(q_uds_request)
             u == [Idle EXCEPT !.pc = "lock", !.req = r]
  <2>1. q_uds_request \in Seq(Requests) /\ q_uds_request # <<>> /\ user[c].pc = "idle" /\ Goes(c, u)
        /\ g_uds_bus_lock' = g_uds_bus_lock /\ c \in Users
    BY <1>3 DEF NextRequest, At, Base, TypeOK, Users
  <2>2. r \in AllRequests
    BY <2>1, Consts, HeadTailProperties, EmptySeq
  <2> HIDE DEF r
  <2>3. u \in UserType /\ u.pc = "lock"
    BY <2>2, IdleTyped DEF Idle, UserType
  <2> HIDE DEF u
  <2>4. ~InCall(u) /\ ~InCall(user[c])
    BY <2>1, <2>3 DEF InCall
  <2> QED
    BY <2>1, <2>3, <2>4, InsideStays
<1>4. CASE UdsReturn
  <2> DEFINE c == "uds"
             u == [user[c] EXCEPT !.pc = "reply"]
  <2>1. user[c] \in UserType /\ user[c].pc = "return" /\ Goes(c, u) /\ g_uds_bus_lock' = "free"
        /\ c \in Users
    BY <1>4 DEF UdsReturn, At, Base, TypeOK, Users
  <2>2. u \in UserType /\ u.pc = "reply"
    BY <2>1 DEF UserType
  <2> HIDE DEF u
  <2>3. InCall(user[c]) /\ ~InCall(u)
    BY <2>1, <2>2 DEF InCall
  <2> QED
    BY <2>1, <2>2, <2>3, InsideLeaves
<1>5. Idle \in UserType /\ ~InCall(Idle)
  BY IdleTyped DEF Idle, InCall
<1>6. CASE Reply
  BY <1>5, <1>6, InsideStays DEF Reply, At, InCall, Users
<1>7. CASE FlashRefused
  BY <1>5, <1>7, InsideStays DEF FlashRefused, At, InCall, Users
<1>8. CASE FlashStart
  <2> DEFINE c == "flash"
             u == [FlashRequest(1) EXCEPT !.pc = "lock", !.remaining = LockWait]
  <2>1. user[c].pc = "idle" /\ Goes(c, u) /\ g_uds_bus_lock' = g_uds_bus_lock /\ c \in Users
    BY <1>8 DEF FlashStart, At, Users
  <2>2. 1 \in 1..Len(FlashRequests) /\ LockWait \in 0..(TickMod + LockWait)
    BY Consts
  <2>3. FlashRequest(1) \in UserType
    BY <2>2, FlashRequestTyped
  <2>4. u \in UserType /\ u.pc = "lock"
    BY <2>2, <2>3 DEF UserType
  <2> HIDE DEF u
  <2>5. ~InCall(u) /\ ~InCall(user[c])
    BY <2>1, <2>4 DEF InCall
  <2> QED
    BY <2>1, <2>4, <2>5, InsideStays
<1>9. CASE FlashReturn
  <2> DEFINE c == "flash"
             v == user[c]
             u == FlashRequest(v.step + 1)
  <2>1. v \in UserType /\ v.pc = "return" /\ v.step \in 1..Len(FlashRequests) /\ c \in Users
    BY <1>9 DEF FlashReturn, At, Base, TypeOK, Asking, Users
  <2>2. \/ v.step < Len(FlashRequests) /\ Goes(c, u) /\ g_uds_bus_lock' = g_uds_bus_lock
        \/ Goes(c, Idle) /\ g_uds_bus_lock' = "free"
    <3>1. v.step <= Len(FlashRequests)
      BY <2>1, Consts
    <3> QED
      BY <1>9, <3>1 DEF FlashReturn
  <2>3. InCall(v)
    BY <2>1 DEF InCall
  <2>4. CASE v.step < Len(FlashRequests) /\ Goes(c, u) /\ g_uds_bus_lock' = g_uds_bus_lock
    <3>1. v.step + 1 \in 1..Len(FlashRequests)
      BY <2>1, <2>4, Consts
    <3>2. u \in UserType /\ InCall(u)
      BY <3>1, FlashRequestTyped DEF InCall
    <3> QED
      BY <2>1, <2>3, <2>4, <3>2, InsideStays
  <2>5. CASE Goes(c, Idle) /\ g_uds_bus_lock' = "free"
    BY <1>5, <2>1, <2>3, <2>5, InsideLeaves
  <2> QED
    BY <2>2, <2>4, <2>5
\* The others do not move a user.
<1>10. ASSUME \A c \in Users : user'[c].pc = user[c].pc, g_uds_bus_lock' = g_uds_bus_lock
       PROVE  OneUserInside'
  BY <1>10 DEF OneUserInside, InCall
<1>11. CASE Tick
  <2>1. \A c \in Users : user'[c].pc = user[c].pc
    <3> TAKE c \in Users
    <3>1. user[c] \in UserType
      BY DEF Base, TypeOK
    <3>2. user'[c] = [user[c] EXCEPT !.held = user'[c].held, !.remaining = user'[c].remaining,
                                     !.due = user'[c].due]
      BY <1>11, TickUser DEF Base
    <3> QED
      BY <3>1, <3>2 DEF UserType
  <2> QED
    BY <1>10, <1>11, <2>1 DEF Tick
<1>12. CASE Pump \/ \E r \in Requests : ClientAsks(r)
  BY <1>10, <1>12 DEF Pump, ClientAsks
<1>13. ASSUME NEW o \in ecu, EcuAnswers(o) \/ EcuPending(o) PROVE OneUserInside'
  BY <1>10, <1>13 DEF EcuAnswers, EcuPending, Delivers
<1>14. CASE UNCHANGED vars
  BY <1>10, <1>14 DEF vars
<1> QED
  BY <1>1, <1>2, <1>3, <1>4, <1>6, <1>7, <1>8, <1>9, <1>11, <1>12, <1>13, <1>14
     DEF Next, UdsTask, FlashTask, Users

LEMMA BaseAndInside == Spec => [](Base /\ OneUserInside)
<1>1. Init => OneUserInside
  BY DEF Init, OneUserInside, InCall, Idle, Users
<1>2. Base /\ OneUserInside /\ [Next]_vars => (Base /\ OneUserInside)'
  BY BaseNext, InsideNext
<1> QED
  BY <1>1, <1>2, BaseInit, PTL DEF Spec

\* The static buffers of uds_request_blocking have one user at a time, the one that
\* holds the lock, and no path of either user keeps the lock.
THEOREM OneUserInsideAlways == Spec => []OneUserInside
BY BaseAndInside, PTL

-----------------------------------------------------------------------------
(* What is reported, and when *)

\* The result of a call that is over: what was accepted, or why nothing was.
Truth(u) ==
  IF u.took # NoMessage
  THEN (u.ok <=> u.took.form.positive) /\ (~u.ok => u.nrc \in NrcsOf(u.took))
  ELSE Status(u) = "TIMEOUT" \/ Status(u) = "BUS_ERROR" \/ (Status(u) = "NEGATIVE" /\ u.req.long)

NotEarly(u) == Status(u) = "TIMEOUT" /\ u.took = NoMessage => u.due = 0 \/ u.wrapped

\* While a user waits, its deadline is as far away as the time it still owes the ECU, and
\* it does not wait for less; nothing is accepted before the call is over.
Sound(t, u) ==
  /\ u.pc \notin {"return", "reply"} => u.took = NoMessage
  /\ u.pc \in {"test", "remaining", "receive"} /\ ~u.wrapped => u.due = 0 \/ u.deadline = t + u.due
  /\ u.pc = "receive" /\ ~u.wrapped => u.due <= u.remaining
  /\ u.pc \in {"return", "reply"} => Truth(u) /\ NotEarly(u)

AllSound == \A c \in Users : Sound(now, user[c])

LEMMA MessageIsOne == \A m \in MessageType : m # NoMessage
BY DEF MessageType, NoMessage

LEMMA SoundGoing ==
  ASSUME Base, AllSound, NEW c \in Users, NEW u \in UserType, Goes(c, u), Sound(now, u), now' = now
  PROVE  AllSound'
<1>1. /\ user'[c] = [u EXCEPT !.held = 0]
      /\ \A d \in Users : d # c => user'[d] = user[d]
  BY Going DEF Base, TypeOK, UsersTyped
<1>2. /\ user'[c].pc = u.pc /\ user'[c].took = u.took /\ user'[c].due = u.due
      /\ user'[c].deadline = u.deadline /\ user'[c].remaining = u.remaining
      /\ user'[c].nrc = u.nrc /\ user'[c].req = u.req
      /\ (user'[c].ok <=> u.ok) /\ (user'[c].wrapped <=> u.wrapped)
  BY <1>1 DEF UserType
<1>3. Truth(u) => Truth(user'[c])
  BY <1>2 DEF Truth, Status
<1>4. NotEarly(u) => NotEarly(user'[c])
  BY <1>2 DEF NotEarly, Status
<1>5. Sound(now, user'[c])
  BY <1>2, <1>3, <1>4 DEF Sound
<1> QED
  BY <1>1, <1>5 DEF AllSound

\* A call that ends with an answer, or without.
LEMMA SoundAnswered ==
  ASSUME NEW u \in UserType, NEW m \in MessageType
  PROVE  /\ m.form.positive => Sound(now, Returns(u, TRUE, 0, m))
         /\ \A nrc \in NrcsOf(m) : ~m.form.positive => Sound(now, Returns(u, FALSE, nrc, m))
<1>1. m # NoMessage /\ 0 \in Nrcs /\ NrcsOf(m) \subseteq Nrcs
  BY MessageIsOne, MessageTyped, Consts
<1>2. \A ok \in BOOLEAN, nrc \in Nrcs :
        LET r == Returns(u, ok, nrc, m)
        IN  r.pc = "return" /\ r.took = m /\ (r.ok <=> ok) /\ r.nrc = nrc
  BY DEF Returns, UserType
<1>3. ASSUME m.form.positive PROVE Sound(now, Returns(u, TRUE, 0, m))
  <2> DEFINE r == Returns(u, TRUE, 0, m)
  <2>1. r.pc = "return" /\ r.took = m /\ r.ok
    BY <1>1, <1>2
  <2> HIDE DEF r
  <2>2. Truth(r) /\ NotEarly(r)
    BY <1>1, <1>3, <2>1 DEF Truth, NotEarly
  <2> QED
    BY <2>1, <2>2 DEF Sound, r
<1>4. ASSUME NEW nrc \in NrcsOf(m), ~m.form.positive PROVE Sound(now, Returns(u, FALSE, nrc, m))
  <2> DEFINE r == Returns(u, FALSE, nrc, m)
  <2>1. r.pc = "return" /\ r.took = m /\ ~r.ok /\ r.nrc = nrc
    BY <1>1, <1>2
  <2> HIDE DEF r
  <2>2. Truth(r) /\ NotEarly(r)
    BY <1>1, <1>4, <2>1 DEF Truth, NotEarly
  <2> QED
    BY <2>1, <2>2 DEF Sound, r
<1> QED
  BY <1>3, <1>4

LEMMA SoundTimedOut ==
  ASSUME NEW u \in UserType, u.due = 0 \/ u.wrapped
  PROVE  Sound(now, TimedOut(u))
<1> DEFINE r == TimedOut(u)
<1>1. /\ r.pc = "return" /\ r.took = NoMessage /\ ~r.ok /\ r.nrc = NoAnswer
      /\ (r.due = 0 \/ r.wrapped)
  BY DEF TimedOut, Returns, UserType
<1> HIDE DEF r
<1>2. Truth(r) /\ NotEarly(r)
  BY <1>1 DEF Truth, NotEarly, Status
<1> QED
  BY <1>1, <1>2 DEF Sound, r

\* A new deadline: the whole wait is owed.
LEMMA SoundWait ==
  ASSUME NEW u \in UserType, NEW n \in 0..(TickMod - 1), u.took = NoMessage, now \in 0..(TickMod - 1)
  PROVE  Sound(now, WaitFor(u, n))
<1> DEFINE r == WaitFor(u, n)
<1>1. TickMod \in Nat \ {0}
  BY Consts
<1>2. PICK w \in BOOLEAN : w <=> now + n >= TickMod
  <2>1. CASE now + n >= TickMod
    BY <2>1
  <2>2. CASE ~(now + n >= TickMod)
    BY <2>2
  <2> QED
    BY <2>1, <2>2
<1>3. r.pc = "test" /\ r.took = NoMessage /\ r.due = n /\ r.deadline = TicksFrom(now, n)
      /\ (r.wrapped <=> now + n >= TickMod)
  BY DEF WaitFor, UserType
<1> HIDE DEF r
<1>4. ~r.wrapped => r.deadline = now + r.due
  <2>1. ASSUME now + n < TickMod PROVE (now + n) % TickMod = now + n
    BY <1>1, <2>1
  <2> QED
    BY <1>1, <1>3, <2>1 DEF TicksFrom
<1> QED
  BY <1>3, <1>4 DEF Sound, r

LEMMA SoundBlocking ==
  ASSUME Base, AllSound, NEW c \in Users, Blocking(c)
  PROVE  AllSound'
<1> DEFINE v == user[c]
           m == Head(q_isotp_rx)
<1>1. v \in UserType /\ (v.pc # "idle" => v.req \in AllRequests) /\ now \in 0..(TickMod - 1)
  BY DEF Base, TypeOK, Asking
<1>2. Sound(now, v)
  BY DEF AllSound
<1>3. 0 \in Nrcs /\ NoAnswer \in Nrcs /\ BusError \in Nrcs /\ P2Star \in 0..(TickMod - 1)
      /\ TRUE \in BOOLEAN /\ FALSE \in BOOLEAN /\ NoMessage \in MessageType \cup {NoMessage}
  BY Consts
<1>n. 0 # NoAnswer /\ 0 # BusError /\ BusError # NoAnswer
  BY UdsConstants
<1> HIDE DEF v, m
<1>4. now' = now
  BY DEF Blocking, Request, IsoTpSend, Test, Remaining, Receive, ReceiveTimesOut, Waiting
<1>5. CASE Request(c)
  <2>1. v.pc = "request" /\ v.took = NoMessage
    BY <1>2, <1>5 DEF Request, At, v, Sound
  <2>2. CASE v.req.long /\ Goes(c, Returns(v, FALSE, 0, NoMessage))
    <3> DEFINE r == Returns(v, FALSE, 0, NoMessage)
    <3>1. r \in UserType
      BY <1>1, <1>3, ReturnsTyped
    <3>2. r.pc = "return" /\ r.took = NoMessage /\ ~r.ok /\ r.nrc = 0 /\ r.req = v.req
      BY <1>1 DEF Returns, UserType
    <3>3. Goes(c, r)
      BY <2>2
    <3> HIDE DEF r
    <3>4. Truth(r) /\ NotEarly(r)
      BY <1>n, <2>2, <3>2 DEF Truth, NotEarly, Status
    <3>5. Sound(now, r)
      BY <3>2, <3>4 DEF Sound
    <3> QED
      BY <1>4, <3>1, <3>3, <3>5, SoundGoing
  <2>3. CASE Goes(c, [v EXCEPT !.pc = "send", !.n = hist.calls + 1])
    <3> DEFINE r == [v EXCEPT !.pc = "send", !.n = hist.calls + 1]
    <3>1. r \in UserType
      <4>1. user'[c] \in UserType /\ user'[c] = [r EXCEPT !.held = 0]
        BY <1>5, <2>3, BaseRequest DEF Goes, Base, TypeOK
      <4>2. hist.calls + 1 \in Calls
        BY <1>1, <4>1 DEF UserType
      <4> QED
        BY <1>1, <4>2 DEF UserType
    <3>2. r.pc = "send" /\ r.took = NoMessage
      BY <1>1, <2>1 DEF UserType
    <3> HIDE DEF r
    <3>3. Sound(now, r)
      BY <3>2 DEF Sound
    <3> QED
      BY <1>4, <2>3, <3>1, <3>3, SoundGoing DEF r
  <2> QED
    BY <1>5, <2>2, <2>3 DEF Request, v
<1>6. CASE IsoTpSend(c)
  <2>1. v.pc = "send" /\ v.took = NoMessage
        /\ (Goes(c, WaitFor(v, v.req.timeout)) \/ Goes(c, Returns(v, FALSE, BusError, NoMessage)))
    BY <1>2, <1>6 DEF IsoTpSend, At, v, Sound
  <2>2. v.req.timeout \in 0..(TickMod - 1)
    <3>1. \A x \in AllRequests : x.timeout \in 0..(TickMod - 1)
      BY Consts
    <3> QED
      BY <1>1, <2>1, <3>1
  <2>3. CASE Goes(c, WaitFor(v, v.req.timeout))
    <3>1. WaitFor(v, v.req.timeout) \in UserType /\ Sound(now, WaitFor(v, v.req.timeout))
      BY <1>1, <2>1, <2>2, WaitForTyped, SoundWait
    <3> QED
      BY <1>4, <2>3, <3>1, SoundGoing
  <2>4. CASE Goes(c, Returns(v, FALSE, BusError, NoMessage))
    <3> DEFINE r == Returns(v, FALSE, BusError, NoMessage)
    <3>1. r \in UserType
      BY <1>1, <1>3, ReturnsTyped
    <3>2. r.pc = "return" /\ r.took = NoMessage /\ ~r.ok /\ r.nrc = BusError
      BY <1>1 DEF Returns, UserType
    <3>3. Goes(c, r)
      BY <2>4
    <3> HIDE DEF r
    <3>4. Truth(r) /\ NotEarly(r)
      BY <1>n, <3>2 DEF Truth, NotEarly, Status
    <3>5. Sound(now, r)
      BY <3>2, <3>4 DEF Sound
    <3> QED
      BY <1>4, <3>1, <3>3, <3>5, SoundGoing
  <2> QED
    BY <2>1, <2>3, <2>4
\* A timeout at either place: the ECU has had its time.
<1>7. CASE Test(c)
  <2> DEFINE r == [v EXCEPT !.pc = "remaining"]
  <2>1. v.pc = "test"
        /\ (Goes(c, r) \/ (~(now < v.deadline) /\ Goes(c, TimedOut(v))))
    BY <1>7 DEF Test, At, v
  <2>2. /\ r \in UserType /\ r.pc = "remaining" /\ r.took = v.took /\ r.due = v.due
        /\ r.deadline = v.deadline /\ (r.wrapped <=> v.wrapped)
    BY <1>1 DEF UserType
  <2> HIDE DEF r
  <2>3. Sound(now, r)
    BY <1>2, <2>1, <2>2 DEF Sound
  <2>4. ~(now < v.deadline) => v.due = 0 \/ v.wrapped
    <3>1. v.due \in Nat /\ v.deadline \in Nat /\ now \in Nat
      BY <1>1 DEF UserType
    <3>2. v.wrapped \/ v.due = 0 \/ v.deadline = now + v.due
      BY <1>2, <2>1 DEF Sound
    <3> QED
      BY <3>1, <3>2
  <2> QED
    BY <1>1, <1>4, <2>1, <2>2, <2>3, <2>4, TimedOutTyped, SoundTimedOut, SoundGoing
<1>8. CASE ReceiveTimesOut(c)
  <2>1. v.pc = "receive" /\ v.remaining = 0 /\ Goes(c, TimedOut(v))
    BY <1>8 DEF ReceiveTimesOut, At, v
  <2>2. v.due = 0 \/ v.wrapped
    <3>1. v.due \in Nat
      BY <1>1 DEF UserType
    <3>2. v.wrapped \/ v.due <= 0
      BY <1>2, <2>1 DEF Sound
    <3> QED
      BY <3>1, <3>2
  <2> QED
    BY <1>1, <1>4, <2>1, <2>2, TimedOutTyped, SoundTimedOut, SoundGoing
\* The second look at the clock does not make the wait shorter.
<1>9. CASE Remaining(c)
  <2> DEFINE rest == (v.deadline - now) % TickMod
             r == [v EXCEPT !.pc = "receive", !.remaining = rest]
  <2>1. v.pc = "remaining" /\ Goes(c, r)
    BY <1>9 DEF Remaining, At, v
  <2>2. v.deadline \in 0..(TickMod - 1) /\ v.due \in 0..(TickMod - 1)
    BY <1>1 DEF UserType
  <2>3. TickMod \in Nat \ {0} /\ LockWait \in Nat
    BY Consts
  <2>4. rest \in 0..(TickMod - 1)
    BY <1>1, <2>2, <2>3
  <2>5. v.wrapped \/ v.due <= rest
    <3>1. v.wrapped \/ v.due = 0 \/ v.deadline = now + v.due
      BY <1>2, <2>1 DEF Sound
    <3>2. CASE v.due = 0
      BY <2>4, <3>2
    <3>3. CASE v.deadline = now + v.due
      <4>1. v.deadline - now = v.due
        BY <1>1, <2>2, <3>3
      <4>2. v.due % TickMod = v.due
        BY <2>2, <2>3
      <4> QED
        BY <2>2, <4>1, <4>2
    <3> QED
      BY <3>1, <3>2, <3>3
  <2> HIDE DEF rest
  <2>6. rest \in 0..(TickMod + LockWait)
    BY <2>3, <2>4
  <2>7. /\ r \in UserType /\ r.pc = "receive" /\ r.took = v.took /\ r.due = v.due
        /\ r.deadline = v.deadline /\ r.remaining = rest /\ (r.wrapped <=> v.wrapped)
    BY <1>1, <2>6 DEF UserType
  <2> HIDE DEF r
  <2>8. Sound(now, r)
    BY <1>2, <2>1, <2>5, <2>7 DEF Sound
  <2> QED
    BY <1>4, <2>1, <2>7, <2>8, SoundGoing
<1>10. CASE Receive(c)
  <2> DEFINE r == [v EXCEPT !.pc = "test"]
  <2>1. v.pc = "receive" /\ q_isotp_rx # <<>>
    BY <1>10 DEF Receive, At, v
  <2>2. m \in MessageType /\ NrcsOf(m) \subseteq Nrcs
    <3>1. TypeOK
      BY DEF Base
    <3>2. m \in MessageType
      BY <2>1, <3>1, HeadTyped DEF m
    <3> QED
      BY <3>2, MessageTyped
  <2>3. \/ Goes(c, r)
        \/ m.form.positive /\ Goes(c, Returns(v, TRUE, 0, m))
        \/ Goes(c, WaitFor(v, P2Star))
        \/ ~m.form.positive /\ \E nrc \in NrcsOf(m) : Goes(c, Returns(v, FALSE, nrc, m))
    BY <1>10 DEF Receive, Extended, v, m
  <2>4. /\ r \in UserType /\ r.pc = "test" /\ r.took = v.took /\ r.due = v.due
        /\ r.deadline = v.deadline /\ (r.wrapped <=> v.wrapped)
    BY <1>1 DEF UserType
  <2> HIDE DEF r
  <2>5. Sound(now, r)
    BY <1>2, <2>1, <2>4 DEF Sound
  <2>6. WaitFor(v, P2Star) \in UserType /\ Sound(now, WaitFor(v, P2Star))
    <3>1. v.took = NoMessage
      BY <1>2, <2>1 DEF Sound
    <3> QED
      BY <1>1, <1>3, <3>1, WaitForTyped, SoundWait
  <2>7. m.form.positive => Returns(v, TRUE, 0, m) \in UserType /\ Sound(now, Returns(v, TRUE, 0, m))
    BY <1>1, <1>3, <2>2, ReturnsTyped, SoundAnswered
  <2>8. \A nrc \in NrcsOf(m) : ~m.form.positive =>
          Returns(v, FALSE, nrc, m) \in UserType /\ Sound(now, Returns(v, FALSE, nrc, m))
    BY <1>1, <1>3, <2>2, ReturnsTyped, SoundAnswered
  <2> QED
    BY <1>4, <2>3, <2>4, <2>5, <2>6, <2>7, <2>8, SoundGoing
<1> QED
  BY <1>5, <1>6, <1>7, <1>8, <1>9, <1>10 DEF Blocking

\* A user that begins, or has nothing to do, has nothing to report.
LEMMA SoundFresh ==
  /\ Sound(now, Idle)
  /\ \A r \in AllRequests : Sound(now, [Idle EXCEPT !.pc = "lock", !.req = r])
  /\ \A k \in 1..Len(FlashRequests) :
       /\ Sound(now, FlashRequest(k))
       /\ Sound(now, [FlashRequest(k) EXCEPT !.pc = "lock", !.remaining = LockWait])
BY FlashRequestTyped DEF Sound, Idle, FlashRequest

LEMMA SoundTick == ASSUME Base, AllSound, Tick PROVE AllSound'
<1> SUFFICES ASSUME NEW c \in Users PROVE Sound(now', user'[c])
  BY DEF AllSound
<1> DEFINE u == user[c]
           w == user'[c]
<1>1. u \in UserType /\ w \in UserType
  BY TickUser DEF Base, TypeOK
<1>2. /\ w.pc = u.pc /\ w.took = u.took /\ w.deadline = u.deadline /\ w.nrc = u.nrc /\ w.req = u.req
      /\ (w.ok <=> u.ok) /\ (w.wrapped <=> u.wrapped)
  <2>1. w = [u EXCEPT !.held = w.held, !.remaining = w.remaining, !.due = w.due]
    BY TickUser DEF Base
  <2> HIDE DEF u, w
  <2>2. /\ [u EXCEPT !.held = w.held, !.remaining = w.remaining, !.due = w.due].pc = u.pc
        /\ [u EXCEPT !.held = w.held, !.remaining = w.remaining, !.due = w.due].took = u.took
        /\ [u EXCEPT !.held = w.held, !.remaining = w.remaining, !.due = w.due].deadline = u.deadline
        /\ [u EXCEPT !.held = w.held, !.remaining = w.remaining, !.due = w.due].nrc = u.nrc
        /\ [u EXCEPT !.held = w.held, !.remaining = w.remaining, !.due = w.due].req = u.req
        /\ ([u EXCEPT !.held = w.held, !.remaining = w.remaining, !.due = w.due].ok <=> u.ok)
        /\ ([u EXCEPT !.held = w.held, !.remaining = w.remaining, !.due = w.due].wrapped <=> u.wrapped)
    BY <1>1 DEF UserType
  <2> QED
    BY <2>1, <2>2
<1>3. /\ w.remaining = IF Timed(u) THEN Down(u.remaining) ELSE u.remaining
      /\ w.due = IF u.pc \in {"test", "remaining", "receive"} THEN Down(u.due) ELSE u.due
  BY TickUser DEF Base
<1>4. /\ u.due \in 0..(TickMod - 1) /\ u.remaining \in Nat /\ u.deadline \in 0..(TickMod - 1)
      /\ now \in 0..(TickMod - 1) /\ TickMod \in Nat \ {0}
  BY <1>1, Consts DEF UserType, Base, TypeOK
<1>5. Sound(now, u)
  BY DEF AllSound
<1>6. now' = (now + 1) % TickMod
  BY DEF Tick
<1> HIDE DEF u, w
<1>7. CASE u.pc \in {"return", "reply"}
  <2>1. w.due = u.due
    BY <1>3, <1>7
  <2>2. Truth(w) /\ NotEarly(w)
    <3>1. Truth(u) /\ NotEarly(u)
      BY <1>5, <1>7 DEF Sound
    <3>2. Truth(w)
      BY <1>2, <3>1 DEF Truth, Status
    <3>3. NotEarly(w)
      BY <1>2, <2>1, <3>1 DEF NotEarly, Status
    <3> QED
      BY <3>2, <3>3
  <2>3. Sound(now', w)
    BY <1>2, <1>7, <2>2 DEF Sound
  <2> QED
    BY <2>3 DEF w
<1>8. CASE u.pc \in {"test", "remaining", "receive"}
  <2>1. w.due = IF u.due = 0 THEN 0 ELSE u.due - 1
    BY <1>3, <1>8 DEF Down
  <2>2. ~u.wrapped => w.due = 0 \/ w.deadline = now' + w.due
    <3>1. CASE u.due = 0
      BY <2>1, <3>1
    <3>2. CASE u.due # 0 /\ ~u.wrapped
      <4>1. u.deadline = now + u.due
        BY <1>5, <1>8, <3>2 DEF Sound
      <4>2. now + 1 < TickMod
        BY <1>4, <3>2, <4>1
      <4>3. now' = now + 1
        BY <1>4, <1>6, <4>2
      <4> QED
        BY <1>2, <1>4, <2>1, <3>2, <4>1, <4>3
    <3> QED
      BY <3>1, <3>2
  <2>3. u.pc = "receive" /\ ~u.wrapped => w.due <= w.remaining
    <3>1. w.remaining = u.remaining \/ w.remaining = IF u.remaining = 0 THEN 0 ELSE u.remaining - 1
      BY <1>3 DEF Down
    <3>2. u.pc = "receive" /\ ~u.wrapped => u.due <= u.remaining
      BY <1>5 DEF Sound
    <3>3. u.due \in Nat /\ u.remaining \in Nat
      BY <1>4
    <3> QED
      BY <2>1, <3>1, <3>2, <3>3
  <2>4. Sound(now', w)
    BY <1>2, <1>5, <1>8, <2>2, <2>3 DEF Sound
  <2> QED
    BY <2>4 DEF w
<1>9. CASE u.pc \notin {"test", "remaining", "receive", "return", "reply"}
  <2>1. Sound(now', w)
    BY <1>2, <1>5, <1>9 DEF Sound
  <2> QED
    BY <2>1 DEF w
<1> QED
  BY <1>7, <1>8, <1>9

LEMMA SoundNext == Base /\ AllSound /\ [Next]_vars => AllSound'
<1> SUFFICES ASSUME Base, AllSound, [Next]_vars PROVE AllSound'
  OBVIOUS
<1>1. ASSUME NEW c \in Users, TakeLock(c) PROVE AllSound'
  <2> DEFINE u == [user[c] EXCEPT !.pc = "request", !.remaining = 0]
  <2>1. user[c] \in UserType /\ Goes(c, u) /\ now' = now /\ user[c].pc = "lock"
    BY <1>1 DEF TakeLock, At, Base, TypeOK
  <2>2. 0 \in 0..(TickMod + LockWait)
    BY Consts
  <2>3. u \in UserType /\ u.pc = "request" /\ u.took = user[c].took
    BY <2>1, <2>2 DEF UserType
  <2> HIDE DEF u
  <2>4. Sound(now, u)
    BY <2>1, <2>3 DEF AllSound, Sound
  <2> QED
    BY <2>1, <2>3, <2>4, SoundGoing
<1>2. CASE NextRequest
  <2> DEFINE r == Head(q_uds_request)
             u == [Idle EXCEPT !.pc = "lock", !.req = r]
  <2>1. q_uds_request \in Seq(Requests) /\ q_uds_request # <<>> /\ Goes("uds", u) /\ now' = now
    BY <1>2 DEF NextRequest, Base, TypeOK
  <2>2. r \in AllRequests
    BY <2>1, Consts, HeadTailProperties, EmptySeq
  <2> HIDE DEF r
  <2>3. u \in UserType
    BY <2>2, IdleTyped DEF Idle, UserType
  <2>4. Sound(now, u)
    BY <2>2, SoundFresh
  <2> HIDE DEF u
  <2> QED
    BY <2>1, <2>3, <2>4, SoundGoing DEF Users
<1>3. CASE UdsReturn
  <2> DEFINE c == "uds"
             u == [user[c] EXCEPT !.pc = "reply"]
  <2>1. user[c] \in UserType /\ user[c].pc = "return" /\ Goes(c, u) /\ now' = now /\ c \in Users
    BY <1>3 DEF UdsReturn, At, Base, TypeOK, Users
  <2>2. /\ u \in UserType /\ u.pc = "reply" /\ u.took = user[c].took /\ u.due = user[c].due
        /\ u.nrc = user[c].nrc /\ u.req = user[c].req
        /\ (u.ok <=> user[c].ok) /\ (u.wrapped <=> user[c].wrapped)
    BY <2>1 DEF UserType
  <2> HIDE DEF u
  <2>3. Truth(user[c]) /\ NotEarly(user[c])
    BY <2>1 DEF AllSound, Sound
  <2>4. Truth(u)
    BY <2>2, <2>3 DEF Truth, Status
  <2>5. NotEarly(u)
    BY <2>2, <2>3 DEF NotEarly, Status
  <2>6. Sound(now, u)
    BY <2>2, <2>4, <2>5 DEF Sound
  <2> QED
    BY <2>1, <2>2, <2>6, SoundGoing
<1>4. CASE Reply
  BY <1>4, IdleTyped, SoundFresh, SoundGoing DEF Reply, Users
<1>5. CASE FlashRefused
  BY <1>5, IdleTyped, SoundFresh, SoundGoing DEF FlashRefused, Users
<1>6. CASE FlashStart
  <2> DEFINE u == [FlashRequest(1) EXCEPT !.pc = "lock", !.remaining = LockWait]
  <2>1. 1 \in 1..Len(FlashRequests) /\ LockWait \in 0..(TickMod + LockWait)
    BY Consts
  <2>2. FlashRequest(1) \in UserType /\ Sound(now, u)
    BY <2>1, FlashRequestTyped, SoundFresh
  <2>3. u \in UserType
    BY <2>1, <2>2 DEF UserType
  <2>4. Goes("flash", u) /\ now' = now
    BY <1>6 DEF FlashStart
  <2> HIDE DEF u
  <2> QED
    BY <2>2, <2>3, <2>4, SoundGoing DEF Users
<1>7. CASE FlashReturn
  <2> DEFINE k == user["flash"].step + 1
  <2>1. user["flash"].step \in 1..Len(FlashRequests) /\ now' = now
    BY <1>7 DEF FlashReturn, At, Base, Asking
  <2>2. \/ user["flash"].step < Len(FlashRequests) /\ Goes("flash", FlashRequest(k))
        \/ Goes("flash", Idle)
    BY <1>7 DEF FlashReturn
  <2>3. user["flash"].step < Len(FlashRequests) => k \in 1..Len(FlashRequests)
    BY <2>1, Consts
  <2> HIDE DEF k
  <2> QED
    BY <2>1, <2>2, <2>3, IdleTyped, FlashRequestTyped, SoundFresh, SoundGoing DEF Users
<1>8. ASSUME UNCHANGED <<now, user>> PROVE AllSound'
  BY <1>8 DEF AllSound
<1>9. CASE Pump \/ \E r \in Requests : ClientAsks(r)
  BY <1>8, <1>9 DEF Pump, ClientAsks
<1>10. ASSUME NEW o \in ecu, EcuAnswers(o) \/ EcuPending(o) PROVE AllSound'
  BY <1>8, <1>10 DEF EcuAnswers, EcuPending, Delivers
<1>11. CASE UNCHANGED vars
  BY <1>8, <1>11 DEF vars
<1> QED
  BY <1>1, <1>2, <1>3, <1>4, <1>5, <1>6, <1>7, <1>9, <1>10, <1>11, SoundBlocking, SoundTick
     DEF Next, UdsTask, FlashTask, Users

LEMMA BaseAndSound == Spec => [](Base /\ AllSound)
<1>1. Init => AllSound
  BY SoundFresh DEF Init, AllSound
<1>2. Base /\ AllSound /\ [Next]_vars => (Base /\ AllSound)'
  BY BaseNext, SoundNext
<1> QED
  BY <1>1, <1>2, BaseInit, PTL DEF Spec

\* What a client or a flash is told is what happened to its request.
THEOREM StatusIsTrue == Spec => []StatusTrue
<1>1. AllSound => StatusTrue
  BY DEF AllSound, Sound, Truth, StatusTrue
<1> QED
  BY <1>1, BaseAndSound, PTL

\* No timeout is reported before the ECU has had its time, but for a deadline past the
\* wrap of the tick count.
THEOREM NoEarlyTimeout == Spec => []TimeoutNotEarly
<1>1. AllSound => TimeoutNotEarly
  BY DEF AllSound, Sound, NotEarly, TimeoutNotEarly
<1> QED
  BY <1>1, BaseAndSound, PTL

-----------------------------------------------------------------------------
(* Answers *)

Sent(u) == u.pc \in {"send", "test", "remaining", "receive"}

\* User u is in call k and has not accepted its answer.
Open(u, k) == (Sent(u) \/ u.pc = "return") /\ u.n = k /\ u.took.of # k

\* Call k has begun, and its answer was never accepted.
Owed(k) == k \in 1..hist.calls /\ (k \in hist.unanswered \/ \E c \in Users : Open(user[c], k))

\* An answer to call k may yet come, or waits in the queue.
Flying(k) == (\E o \in ecu : o.n = k) \/ (\E i \in 1..Len(q_isotp_rx) : q_isotp_rx[i].of = k)

\* wait_uds_response takes it for a Response Pending: it is not the last answer.
Interim(m) == ~m.form.positive /\ m.form.len > 2 /\ m.form.nrc = Pending

\* An ECU owes one final answer to a call.
Ordered ==
  /\ \A o1, o2 \in ecu : o1.n = o2.n => o1 = o2
  /\ \A i \in 1..Len(q_isotp_rx) : ~Interim(q_isotp_rx[i]) =>
       /\ \A j \in 1..Len(q_isotp_rx) : j > i => q_isotp_rx[j].of # q_isotp_rx[i].of
       /\ \A o \in ecu : o.n # q_isotp_rx[i].of

Owing == \A k \in Calls : Flying(k) => Owed(k)

Fresh == \A i \in 1..Len(q_isotp_rx) : q_isotp_rx[i].during = hist.calls

Current ==
  \A c \in Users :
    /\ Sent(user[c]) => user[c].n = hist.calls /\ hist.calls # 0
    /\ user[c].pc = "send" => ~Flying(hist.calls)

Accepted(u, unanswered) ==
  u.took # NoMessage => /\ u.took.from = u.req.ecu /\ u.took.sid = u.req.sid
                        /\ u.took.during = u.n
                        /\ u.took.of = u.n \/ u.took.of \in unanswered

Traffic ==
  /\ Ordered /\ Owing /\ Fresh /\ Current
  /\ \A c \in Users : Accepted(user[c], hist.unanswered)

\* A step of a user, with what it does to the answers.
LEMMA TrafficGoing ==
  ASSUME Base, Traffic, NEW c \in Users, NEW u \in UserType, Goes(c, u),
         u.pc # "send", Sent(u) => Sent(user[c]) /\ u.n = user[c].n,
         Accepted(u, hist'.unanswered), hist'.calls = hist.calls,
         hist.unanswered \subseteq hist'.unanswered,
         (\A k \in Calls : Flying(k)' => Flying(k)) \/ (\A d \in Users : d # c => ~Sent(user[d])),
         Ordered', Owing', Fresh'
  PROVE  Traffic'
<1>1. /\ user'[c] = [u EXCEPT !.held = 0]
      /\ \A d \in Users : d # c => user'[d] = user[d]
  BY Going DEF Base, TypeOK, UsersTyped
<1>2. /\ user'[c].pc = u.pc /\ user'[c].took = u.took /\ user'[c].n = u.n /\ user'[c].req = u.req
  BY <1>1 DEF UserType
<1>3. hist.calls \in Calls
  BY DEF Base, TypeOK
<1>4. Current'
  <2> SUFFICES ASSUME NEW d \in Users
               PROVE  /\ Sent(user'[d]) => user'[d].n = hist'.calls /\ hist'.calls # 0
                      /\ user'[d].pc = "send" => ~Flying(hist.calls)'
    BY DEF Current
  <2>1. /\ Sent(user[d]) => user[d].n = hist.calls /\ hist.calls # 0
        /\ user[d].pc = "send" => ~Flying(hist.calls)
        /\ Sent(user[c]) => user[c].n = hist.calls /\ hist.calls # 0
    BY DEF Traffic, Current
  <2>2. CASE d = c
    BY <1>2, <2>1, <2>2 DEF Sent
  <2>3. CASE d # c
    BY <1>1, <1>3, <2>1, <2>3 DEF Sent
  <2> QED
    BY <2>2, <2>3
<1>5. ASSUME NEW d \in Users PROVE Accepted(user'[d], hist'.unanswered)
  <2>1. Accepted(user[d], hist.unanswered)
    BY DEF Traffic
  <2>2. CASE d = c
    BY <1>2, <2>2 DEF Accepted
  <2>3. CASE d # c
    BY <1>1, <2>1, <2>3 DEF Accepted
  <2> QED
    BY <2>2, <2>3
<1> QED
  BY <1>4, <1>5 DEF Traffic

LEMMA OwedGoing ==
  ASSUME Base, NEW c \in Users, NEW u \in UserType, Goes(c, u), NEW k, Owed(k),
         Open(user[c], k) => k \in hist'.unanswered \/ Open(u, k),
         hist'.calls \in Nat, hist'.calls >= hist.calls, hist.unanswered \subseteq hist'.unanswered
  PROVE  Owed(k)'
<1>1. /\ user'[c] = [u EXCEPT !.held = 0]
      /\ \A d \in Users : d # c => user'[d] = user[d]
  BY Going DEF Base, TypeOK, UsersTyped
<1>2. user'[c].pc = u.pc /\ user'[c].took = u.took /\ user'[c].n = u.n
  BY <1>1 DEF UserType
<1>3. Open(u, k) => Open(user'[c], k)
  BY <1>2 DEF Open, Sent
<1>4. k \in 1..hist'.calls
  <2>1. hist.calls \in Nat /\ k \in 1..hist.calls
    BY Consts DEF Owed, Base, TypeOK, Calls
  <2> QED
    BY <2>1
<1>5. k \in hist.unanswered \/ \E d \in Users : Open(user[d], k)
  BY DEF Owed
<1>6. k \in hist'.unanswered \/ \E d \in Users : Open(user'[d], k)
  <2>1. CASE k \in hist.unanswered
    BY <2>1
  <2>2. ASSUME NEW d \in Users, Open(user[d], k), d # c PROVE Open(user'[d], k)
    BY <1>1, <2>2
  <2> QED
    BY <1>3, <1>5, <2>1, <2>2
<1>7. Owed(k)' = (k \in 1..hist'.calls /\ (k \in hist'.unanswered \/ \E d \in Users : Open(user'[d], k)))
  BY DEF Owed, Open, Sent
<1> QED
  BY <1>4, <1>6, <1>7

\* A step that neither sends nor hears anything.
LEMMA TrafficQuiet ==
  ASSUME Base, Traffic, NEW c \in Users, NEW u \in UserType, Goes(c, u),
         u.pc # "send", Sent(u) => Sent(user[c]) /\ u.n = user[c].n,
         Accepted(u, hist'.unanswered), hist'.calls = hist.calls,
         hist.unanswered \subseteq hist'.unanswered,
         \A k \in Calls : Open(user[c], k) => k \in hist'.unanswered \/ Open(u, k),
         UNCHANGED <<q_isotp_rx, ecu>>
  PROVE  Traffic'
<1>1. \A k \in Calls : Flying(k)' => Flying(k)
  BY DEF Flying
<1>2. Ordered'
  BY DEF Traffic, Ordered
<1>3. Fresh'
  BY DEF Traffic, Fresh
<1>4. hist'.calls \in Nat /\ hist'.calls >= hist.calls
  BY Consts DEF Base, TypeOK, Calls
<1>5. Owing'
  <2>1. ASSUME NEW k \in Calls, Flying(k)' PROVE Owed(k)'
    <3>1. Owed(k)
      BY <1>1, <2>1 DEF Traffic, Owing
    <3> QED
      BY <1>4, <3>1, OwedGoing
  <2> QED
    BY <2>1 DEF Owing
<1> QED
  BY <1>1, <1>2, <1>3, <1>5, TrafficGoing

Inv == Base /\ OneUserInside /\ AllSound /\ Traffic

\* In a call nobody else is in one.
LEMMA AloneInCall ==
  ASSUME Inv, NEW c \in Users, InCall(user[c])
  PROVE  \A d \in Users : d # c => ~Sent(user[d]) /\ ~InCall(user[d]) /\ \A k : ~Open(user[d], k)
BY DEF Inv, OneUserInside, InCall, Sent, Open

\* wait_uds_response goes on, or gives up: its call stays open.
LEMMA TrafficWaits ==
  ASSUME Inv, NEW c \in Users, NEW u \in UserType, Goes(c, u), Sent(user[c]),
         u.pc \in {"test", "remaining", "receive", "return"}, u.n = user[c].n, u.took = NoMessage,
         UNCHANGED <<q_isotp_rx, ecu, hist>>
  PROVE  Traffic'
<1>1. user[c].n = hist.calls /\ hist.calls # 0
  BY DEF Inv, Traffic, Current
<1>2. u.took.of # u.n
  BY <1>1 DEF NoMessage
<1>3. \A k \in Calls : Open(user[c], k) => Open(u, k)
  BY <1>2 DEF Open, Sent
<1>4. Accepted(u, hist'.unanswered)
  BY DEF Accepted
<1>5. u.pc # "send" /\ (Sent(u) => Sent(user[c]) /\ u.n = user[c].n)
  OBVIOUS
<1> QED
  BY <1>3, <1>4, <1>5, TrafficQuiet DEF Inv

LEMMA TrafficTest ==
  ASSUME Inv, NEW c \in Users, Test(c) \/ ReceiveTimesOut(c)
  PROVE  Traffic'
<1> DEFINE r == [user[c] EXCEPT !.pc = "remaining"]
<1>1. /\ user[c] \in UserType /\ Sent(user[c]) /\ user[c].took = NoMessage
      /\ UNCHANGED <<q_isotp_rx, ecu, hist>>
      /\ Goes(c, r) \/ Goes(c, TimedOut(user[c]))
  BY DEF Inv, Base, TypeOK, AllSound, Sound, Test, ReceiveTimesOut, At, Sent, Waiting
<1>2. r \in UserType /\ r.pc = "remaining" /\ r.n = user[c].n /\ r.took = user[c].took
  BY <1>1 DEF UserType
<1>3. /\ TimedOut(user[c]) \in UserType /\ TimedOut(user[c]).pc = "return"
      /\ TimedOut(user[c]).n = user[c].n /\ TimedOut(user[c]).took = NoMessage
  BY <1>1, TimedOutTyped DEF TimedOut, Returns, UserType
<1> HIDE DEF r
<1> QED
  BY <1>1, <1>2, <1>3, TrafficWaits

LEMMA TrafficRemaining ==
  ASSUME Inv, NEW c \in Users, Remaining(c)
  PROVE  Traffic'
<1> DEFINE rest == (user[c].deadline - now) % TickMod
           r == [user[c] EXCEPT !.pc = "receive", !.remaining = rest]
<1>1. /\ user[c] \in UserType /\ Sent(user[c]) /\ user[c].took = NoMessage
      /\ UNCHANGED <<q_isotp_rx, ecu, hist>> /\ Goes(c, r)
  BY DEF Inv, Base, TypeOK, AllSound, Sound, Remaining, At, Sent, Waiting
<1>2. rest \in 0..(TickMod + LockWait)
  <2>1. user[c].deadline \in 0..(TickMod - 1) /\ now \in 0..(TickMod - 1)
    BY <1>1 DEF Inv, Base, TypeOK, UserType
  <2>2. TickMod \in Nat \ {0} /\ LockWait \in Nat
    BY Consts
  <2>3. user[c].deadline - now \in Int
    BY <2>1
  <2>4. rest \in 0..(TickMod - 1)
    BY <2>2, <2>3
  <2> HIDE DEF rest
  <2> QED
    BY <2>2, <2>4
<1> HIDE DEF rest
<1>3. r \in UserType /\ r.pc = "receive" /\ r.n = user[c].n /\ r.took = user[c].took
  BY <1>1, <1>2 DEF UserType
<1> HIDE DEF r
<1> QED
  BY <1>1, <1>3, TrafficWaits

\* A request begins: the queue is emptied, and what is still owed belongs to calls before.
LEMMA TrafficRequest ==
  ASSUME Inv, NEW c \in Users, Request(c)
  PROVE  Traffic'
<1>1. /\ user[c] \in UserType /\ user[c].pc = "request" /\ user[c].took = NoMessage
      /\ ecu' = ecu /\ Base'
  BY BaseRequest DEF Inv, Base, TypeOK, AllSound, Sound, Request, At
<1>2. CASE Goes(c, Returns(user[c], FALSE, 0, NoMessage)) /\ UNCHANGED <<q_isotp_rx, hist>>
  <2> DEFINE u == Returns(user[c], FALSE, 0, NoMessage)
  <2>1. u \in UserType
    <3>1. 0 \in Nrcs /\ FALSE \in BOOLEAN /\ NoMessage \in MessageType \cup {NoMessage}
      BY Consts
    <3> QED
      BY <1>1, <3>1, ReturnsTyped
  <2>2. u.pc = "return" /\ u.took = NoMessage
    BY <1>1 DEF Returns, UserType
  <2>3. Goes(c, u)
    BY <1>2
  <2> HIDE DEF u
  <2>4. u.pc # "send" /\ ~Sent(u) /\ Accepted(u, hist'.unanswered)
    BY <2>2 DEF Sent, Accepted
  <2>5. \A k \in Calls : ~Open(user[c], k)
    BY <1>1 DEF Open, Sent
  <2> QED
    BY <1>1, <1>2, <2>1, <2>3, <2>4, <2>5, TrafficQuiet DEF Inv
<1>3. CASE /\ Goes(c, [user[c] EXCEPT !.pc = "send", !.n = hist.calls + 1])
           /\ q_isotp_rx' = <<>> /\ hist' = [hist EXCEPT !.calls = @ + 1]
  <2>0. PICK n \in Calls : n = hist.calls + 1 /\ hist'.calls = n /\ hist.calls \in Nat
                           /\ hist'.unanswered = hist.unanswered
    <3>1. hist \in [asked : Calls, calls : Calls, unanswered : SUBSET Calls]
      BY DEF Inv, Base, TypeOK
    <3>2. hist'.calls = hist.calls + 1 /\ hist'.unanswered = hist.unanswered
      BY <1>3, <3>1
    <3>3. hist'.calls \in Calls
      BY <1>1 DEF Base, TypeOK
    <3>4. hist.calls \in Nat
      BY <3>1, Consts DEF Calls
    <3> QED
      BY <3>2, <3>3, <3>4
  <2>1. hist'.calls = n /\ hist'.unanswered = hist.unanswered /\ hist.calls \in Nat
    BY <2>0
  <2> DEFINE u == [user[c] EXCEPT !.pc = "send", !.n = n]
  <2>2. u \in UserType /\ u.pc = "send" /\ u.n = n /\ u.took = NoMessage
    BY <1>1 DEF UserType
  <2>3. Goes(c, u)
    BY <1>3, <2>0
  <2> HIDE DEF u
  <2>4. /\ user'[c] = [u EXCEPT !.held = 0]
        /\ \A d \in Users : d # c => user'[d] = user[d]
    BY <2>2, <2>3, Going DEF Inv, Base, TypeOK, UsersTyped
  <2>5. user'[c].pc = "send" /\ user'[c].took = NoMessage /\ user'[c].n = n
    BY <2>2, <2>4 DEF UserType
  <2>6. Ordered' /\ Fresh'
    BY <1>1, <1>3 DEF Inv, Traffic, Ordered, Fresh
  <2>7. \A k \in Calls : Flying(k)' => Flying(k) /\ k \in 1..hist.calls
    <3> SUFFICES ASSUME NEW k \in Calls, Flying(k)' PROVE Flying(k) /\ k \in 1..hist.calls
      OBVIOUS
    <3>1. \E o \in ecu : o.n = k
      BY <1>1, <1>3 DEF Flying
    <3>2. Flying(k)
      BY <3>1 DEF Flying
    <3> QED
      BY <3>2 DEF Inv, Traffic, Owing, Owed
  <2>8. ~Flying(n)'
    <3>1. n \notin 1..hist.calls
      BY <2>0
    <3> QED
      BY <2>7, <3>1
  <2>9. Owing'
    <3>1. ASSUME NEW k \in Calls, Flying(k)' PROVE Owed(k)'
      <4>1. Owed(k)
        BY <2>7, <3>1 DEF Inv, Traffic, Owing
      <4>2. hist'.calls \in Nat /\ hist'.calls >= hist.calls
        BY <2>0
      <4>3. ~Open(user[c], k)
        BY <1>1 DEF Open, Sent
      <4> QED
        BY <2>1, <2>2, <2>3, <4>1, <4>2, <4>3, OwedGoing DEF Inv
    <3> QED
      BY <3>1 DEF Owing
  <2>10. \A d \in Users : d # c => ~Sent(user[d])
    BY <1>1, AloneInCall DEF InCall
  <2>11. Current'
    <3>1. n # 0
      BY <2>0
    <3> SUFFICES ASSUME NEW d \in Users
                 PROVE  /\ Sent(user'[d]) => user'[d].n = n /\ n # 0
                        /\ user'[d].pc = "send" => ~Flying(n)'
      BY <2>1 DEF Current
    <3>2. CASE d = c
      BY <2>5, <2>8, <3>1, <3>2
    <3>3. CASE d # c
      BY <2>4, <2>10, <3>3 DEF Sent
    <3> QED
      BY <3>2, <3>3
  <2>12. \A d \in Users : Accepted(user'[d], hist'.unanswered)
    <3> TAKE d \in Users
    <3>1. Accepted(user[d], hist.unanswered)
      BY DEF Inv, Traffic
    <3> QED
      BY <2>1, <2>4, <2>5, <3>1 DEF Accepted
  <2> QED
    BY <2>6, <2>9, <2>11, <2>12 DEF Traffic
<1> QED
  BY <1>2, <1>3 DEF Request

LEMMA TrafficSend ==
  ASSUME Inv, NEW c \in Users, IsoTpSend(c)
  PROVE  Traffic'
<1> DEFINE w == WaitFor(user[c], user[c].req.timeout)
           r == Returns(user[c], FALSE, BusError, NoMessage)
<1>1. user[c] \in UserType /\ user[c].req \in AllRequests /\ user[c].pc = "send" /\ Sent(user[c])
      /\ user[c].took = NoMessage /\ InCall(user[c])
  BY DEF Inv, Base, TypeOK, Asking, AllSound, Sound, IsoTpSend, At, Sent, InCall
<1>2. PICK n \in Calls : user[c].n = n /\ hist.calls = n /\ n # 0
  <2>1. user[c].n = hist.calls /\ hist.calls # 0
    BY <1>1 DEF Inv, Traffic, Current
  <2>2. user[c].n \in Calls
    BY <1>1 DEF UserType
  <2> QED
    BY <2>1, <2>2
<1>3. w \in UserType /\ r \in UserType
  <2>1. BusError \in Nrcs /\ FALSE \in BOOLEAN /\ NoMessage \in MessageType \cup {NoMessage}
    BY Consts
  <2>2. r \in UserType
    BY <1>1, <2>1, ReturnsTyped
  <2>3. \A x \in AllRequests : x.timeout \in 0..(TickMod - 1)
    BY Consts
  <2>4. user[c].req.timeout \in 0..(TickMod - 1) /\ now \in 0..(TickMod - 1)
    BY <1>1, <2>3 DEF Inv, Base, TypeOK
  <2>5. w \in UserType
    BY <1>1, <2>4, WaitForTyped
  <2> QED
    BY <2>2, <2>5
<1>4. /\ w.pc = "test" /\ w.n = n /\ w.took = NoMessage
      /\ r.pc = "return" /\ r.n = n /\ r.took = NoMessage
  BY <1>1, <1>2 DEF WaitFor, Returns, UserType
<1>5. Goes(c, w) \/ Goes(c, r)
  BY DEF IsoTpSend
<1> HIDE DEF w, r
<1>6. PICK u \in UserType : Goes(c, u) /\ u.pc \in {"test", "return"} /\ u.n = n /\ u.took = NoMessage
  BY <1>3, <1>4, <1>5
<1>7. UNCHANGED <<q_isotp_rx, hist>>
  BY DEF IsoTpSend
<1>8. CASE ecu' = ecu
  BY <1>1, <1>2, <1>6, <1>7, <1>8, TrafficWaits
<1>9. CASE ecu' # ecu
  <2>1. PICK o : ecu' = ecu \cup {o} /\ o.n = n
    BY <1>2, <1>9 DEF IsoTpSend
  <2>2. ~Flying(n)
    BY <1>1, <1>2 DEF Inv, Traffic, Current
  <2>3. \A k \in Calls : Flying(k)' => Flying(k) \/ k = n
    BY <1>7, <2>1 DEF Flying
  <2>4. Ordered'
    BY <1>7, <2>1, <2>2 DEF Inv, Traffic, Ordered, Flying
  <2>5. Fresh'
    BY <1>7 DEF Inv, Traffic, Fresh
  <2>6. Open(u, n)
    <3>1. u.took.of # n
      BY <1>2, <1>6 DEF NoMessage
    <3> QED
      BY <1>6, <3>1 DEF Open, Sent
  <2>7. hist'.calls = n /\ hist'.unanswered = hist.unanswered /\ hist'.calls \in Nat /\ n \in Nat
        /\ n >= n
    BY <1>2, <1>7, Consts DEF Calls
  <2>8. \A k \in Calls : Open(user[c], k) => Open(u, k)
    BY <1>2, <2>6 DEF Open
  <2>9. Owing'
    <3>1. ASSUME NEW k \in Calls, Flying(k)' PROVE Owed(k)'
      <4>1. Owed(k)
        <5>1. CASE Flying(k)
          BY <5>1 DEF Inv, Traffic, Owing
        <5>2. CASE k = n
          <6>1. Open(user[c], n)
            BY <1>1, <1>2 DEF Open, NoMessage
          <6>2. n \in 1..hist.calls
            BY <1>2, <2>7
          <6> QED
            BY <5>2, <6>1, <6>2 DEF Owed
        <5> QED
          BY <2>3, <3>1, <5>1, <5>2
      <4> QED
        BY <1>2, <1>6, <2>7, <2>8, <4>1, OwedGoing DEF Inv
    <3> QED
      BY <3>1 DEF Owing
  <2>10. \A d \in Users : d # c => ~Sent(user[d])
    BY <1>1, AloneInCall
  <2>11. Accepted(u, hist'.unanswered)
    BY <1>6 DEF Accepted
  <2>12. u.pc # "send" /\ (Sent(u) => Sent(user[c]) /\ u.n = user[c].n) /\ hist'.calls = hist.calls
    BY <1>1, <1>2, <1>6, <2>7
  <2> QED
    BY <1>6, <2>4, <2>5, <2>7, <2>9, <2>10, <2>11, <2>12, TrafficGoing DEF Inv
<1> QED
  BY <1>8, <1>9

\* The message at the head is taken. When it is the last answer to its call, nothing more
\* of that call is to come.
LEMMA MessageTaken ==
  ASSUME Inv, q_isotp_rx # <<>>, q_isotp_rx' = Tail(q_isotp_rx), ecu' = ecu, hist' = hist
  PROVE  /\ Ordered' /\ Fresh' /\ \A k \in Calls : Flying(k)' => Flying(k)
         /\ Flying(Head(q_isotp_rx).of) /\ Head(q_isotp_rx).during = hist.calls
         /\ ~Interim(Head(q_isotp_rx)) => \A k \in Calls : Flying(k)' => k # Head(q_isotp_rx).of
<1>1. q_isotp_rx \in Seq(MessageType)
  BY DEF Inv, Base, TypeOK
<1>2. PICK q \in Seq(MessageType) : q = q_isotp_rx
  BY <1>1
<1>3. PICK t \in Seq(MessageType) : t = Tail(q_isotp_rx)
  BY HeadTyped DEF Inv, Base
<1>4. PICK l \in Nat : l = Len(t)
  BY <1>3, LenProperties
<1>5. /\ Len(q) = l + 1 /\ Head(q_isotp_rx) = q[1]
      /\ \A i \in 1..l : t[i] = q[i + 1]
  BY <1>2, <1>3, <1>4, HeadTailProperties, EmptySeq
<1>6. /\ \A i \in 1..l : i + 1 \in 1..(l + 1)
      /\ \A i, j \in 1..l : j > i => j + 1 > i + 1
      /\ 1 \in 1..(l + 1) /\ \A i \in 1..l : i + 1 > 1
  OBVIOUS
<1>7. /\ \A o1, o2 \in ecu : o1.n = o2.n => o1 = o2
      /\ \A i \in 1..(l + 1) : ~Interim(q[i]) =>
           /\ \A j \in 1..(l + 1) : j > i => q[j].of # q[i].of
           /\ \A o \in ecu : o.n # q[i].of
      /\ \A i \in 1..(l + 1) : q[i].during = hist.calls
  BY <1>2, <1>5 DEF Inv, Traffic, Ordered, Fresh
<1>8. Ordered' = /\ \A o1, o2 \in ecu : o1.n = o2.n => o1 = o2
                 /\ \A i \in 1..l : ~Interim(t[i]) =>
                      /\ \A j \in 1..l : j > i => t[j].of # t[i].of
                      /\ \A o \in ecu : o.n # t[i].of
  BY <1>3, <1>4 DEF Ordered, Interim
<1>9. Ordered'
  <2>1. ASSUME NEW i \in 1..l, ~Interim(t[i])
        PROVE  (\A j \in 1..l : j > i => t[j].of # t[i].of) /\ \A o \in ecu : o.n # t[i].of
    <3>1. i + 1 \in 1..(l + 1) /\ ~Interim(q[i + 1]) /\ t[i] = q[i + 1]
      BY <1>5, <1>6, <2>1
    <3>2. /\ \A j \in 1..(l + 1) : j > i + 1 => q[j].of # q[i + 1].of
          /\ \A o \in ecu : o.n # q[i + 1].of
      BY <1>7, <3>1
    <3>3. ASSUME NEW j \in 1..l, j > i PROVE t[j].of # t[i].of
      <4>1. j + 1 \in 1..(l + 1) /\ j + 1 > i + 1 /\ t[j] = q[j + 1]
        BY <1>5, <1>6, <3>3
      <4> QED
        BY <3>1, <3>2, <4>1
    <3> QED
      BY <3>1, <3>2, <3>3
  <2> QED
    BY <1>7, <1>8, <2>1
<1>10. Fresh'
  <2>1. Fresh' = \A i \in 1..l : t[i].during = hist.calls
    BY <1>3, <1>4 DEF Fresh
  <2> QED
    BY <1>5, <1>6, <1>7, <2>1
<1>11. \A k \in Calls : Flying(k)' = ((\E o \in ecu : o.n = k) \/ \E i \in 1..l : t[i].of = k)
  BY <1>3, <1>4 DEF Flying
<1>12. \A k : Flying(k) = ((\E o \in ecu : o.n = k) \/ \E i \in 1..(l + 1) : q[i].of = k)
  BY <1>2, <1>5 DEF Flying
<1>13. \A k \in Calls : Flying(k)' => Flying(k)
  <2> SUFFICES ASSUME NEW k \in Calls, Flying(k)' PROVE Flying(k)
    OBVIOUS
  <2>1. CASE \E o \in ecu : o.n = k
    BY <1>12, <2>1
  <2>2. CASE \E i \in 1..l : t[i].of = k
    <3>1. PICK i \in 1..l : t[i].of = k
      BY <2>2
    <3>2. i + 1 \in 1..(l + 1) /\ q[i + 1].of = k
      BY <1>5, <1>6, <3>1
    <3> QED
      BY <1>12, <3>2
  <2> QED
    BY <1>11, <2>1, <2>2
<1>14. Flying(q[1].of) /\ q[1].during = hist.calls
  BY <1>6, <1>7, <1>12
<1>15. ~Interim(q[1]) => \A k \in Calls : Flying(k)' => k # q[1].of
  <2> SUFFICES ASSUME ~Interim(q[1]), NEW k \in Calls, Flying(k)' PROVE k # q[1].of
    OBVIOUS
  <2>1. /\ \A j \in 1..(l + 1) : j > 1 => q[j].of # q[1].of
        /\ \A o \in ecu : o.n # q[1].of
    BY <1>6, <1>7
  <2>2. CASE \E o \in ecu : o.n = k
    BY <2>1, <2>2
  <2>3. CASE \E i \in 1..l : t[i].of = k
    BY <1>5, <1>6, <2>1, <2>3
  <2> QED
    BY <1>11, <2>2, <2>3
<1> QED
  BY <1>5, <1>9, <1>10, <1>13, <1>14, <1>15

LEMMA TrafficReceive ==
  ASSUME Inv, NEW c \in Users, Receive(c)
  PROVE  Traffic'
<1> DEFINE v == user[c]
           m == Head(q_isotp_rx)
           r == [v EXCEPT !.pc = "test"]
           w == WaitFor(v, P2Star)
<1>1. v \in UserType /\ v.pc = "receive" /\ Sent(v) /\ InCall(v) /\ v.took = NoMessage
      /\ q_isotp_rx # <<>> /\ q_isotp_rx' = Tail(q_isotp_rx) /\ ecu' = ecu /\ hist' = hist
  BY DEF Inv, Base, TypeOK, AllSound, Sound, Receive, At, Sent, InCall, Waiting
<1>2. m \in MessageType /\ NrcsOf(m) \subseteq Nrcs /\ m.of \in Calls
  <2>1. TypeOK
    BY DEF Inv, Base
  <2>2. m \in MessageType
    BY <1>1, <2>1, HeadTyped
  <2> HIDE DEF m
  <2> QED
    BY <2>2, MessageTyped
<1>3. /\ Ordered' /\ Fresh' /\ \A k \in Calls : Flying(k)' => Flying(k)
      /\ Flying(m.of) /\ m.during = hist.calls
      /\ ~Interim(m) => \A k \in Calls : Flying(k)' => k # m.of
  BY <1>1, MessageTaken
<1>4. v.n = hist.calls
  BY <1>1 DEF Inv, Traffic, Current
<1>5. m.of = v.n \/ m.of \in hist.unanswered
  <2>1. Owed(m.of)
    BY <1>2, <1>3 DEF Inv, Traffic, Owing
  <2>2. \A d \in Users : d # c => ~Open(user[d], m.of)
    BY <1>1, AloneInCall
  <2> QED
    BY <2>1, <2>2 DEF Owed, Open
<1>6. \A k \in Calls : Flying(k) => Owed(k)
  BY DEF Inv, Traffic, Owing
<1>7. /\ hist'.calls \in Nat /\ hist'.calls >= hist.calls /\ hist'.calls = hist.calls
      /\ hist'.unanswered = hist.unanswered
  BY <1>1, Consts DEF Inv, Base, TypeOK, Calls
<1> HIDE DEF v, m
<1>8. ASSUME NEW u \in UserType, Goes(c, u), u.pc \in {"test", "return"}, u.n = v.n,
             Accepted(u, hist.unanswered), \A k \in Calls : Flying(k)' => k # u.took.of
      PROVE  Traffic'
  <2>1. ASSUME NEW k \in Calls, Flying(k)' PROVE Owed(k)'
    <3>1. Owed(k)
      BY <1>3, <1>6, <2>1
    <3>2. Open(user[c], k) => Open(u, k)
      BY <1>8, <2>1 DEF Open, Sent, v
    <3> QED
      BY <1>7, <1>8, <3>1, <3>2, OwedGoing DEF Inv
  <2>2. Owing'
    BY <2>1 DEF Owing
  <2>3. u.pc # "send" /\ (Sent(u) => Sent(user[c]) /\ u.n = user[c].n)
    BY <1>1, <1>8 DEF v
  <2> QED
    BY <1>3, <1>7, <1>8, <2>2, <2>3, TrafficGoing DEF Inv
\* It waits on,
<1>9. \A k \in Calls : Flying(k)' => k # NoMessage.of
  <2>1. \A k \in Calls : Owed(k) => k # 0
    BY DEF Owed
  <2> QED
    BY <1>3, <1>6, <2>1 DEF NoMessage
<1>10. ASSUME NEW u \in UserType, Goes(c, u), u.pc = "test", u.n = v.n, u.took = NoMessage
       PROVE  Traffic'
  BY <1>8, <1>9, <1>10 DEF Accepted
<1>11. r \in UserType /\ r.pc = "test" /\ r.n = v.n /\ r.took = NoMessage
  BY <1>1 DEF UserType
<1>12. w \in UserType /\ w.pc = "test" /\ w.n = v.n /\ w.took = NoMessage
  <2>1. w \in UserType
    <3>1. P2Star \in 0..(TickMod - 1) /\ now \in 0..(TickMod - 1)
      BY Consts DEF Inv, Base, TypeOK
    <3> QED
      BY <1>1, <3>1, WaitForTyped
  <2> QED
    BY <1>1, <2>1 DEF WaitFor, UserType
\* or it has the last answer to a call.
<1>13. ASSUME NEW ok \in BOOLEAN, NEW nrc \in Nrcs, Goes(c, Returns(v, ok, nrc, m)),
              ForUs(v, m), ~Interim(m)
       PROVE  Traffic'
  <2> DEFINE u == Returns(v, ok, nrc, m)
  <2>1. u \in UserType
    BY <1>1, <1>2, ReturnsTyped
  <2>2. u.pc = "return" /\ u.n = v.n /\ u.took = m /\ u.req = v.req
    BY <1>1 DEF Returns, UserType
  <2>3. Goes(c, u)
    BY <1>13
  <2> HIDE DEF u
  <2>4. m.from = v.req.ecu /\ m.sid = v.req.sid
    BY <1>13 DEF ForUs
  <2>5. Accepted(u, hist.unanswered)
    BY <1>3, <1>4, <1>5, <2>2, <2>4 DEF Accepted
  <2>6. \A k \in Calls : Flying(k)' => k # u.took.of
    BY <1>3, <1>13, <2>2
  <2> QED
    BY <1>8, <2>1, <2>2, <2>3, <2>5, <2>6
<1>14. \/ Goes(c, r)
       \/ ForUs(v, m) /\ m.form.positive /\ Goes(c, Returns(v, TRUE, 0, m))
       \/ ForUs(v, m) /\ ~m.form.positive
            /\ \E nrc \in NrcsOf(m) : \/ Goes(c, w)
                                      \/ nrc # Pending /\ Goes(c, Returns(v, FALSE, nrc, m))
  BY DEF Receive, Extended, v, m
<1> HIDE DEF r, w
<1>15. CASE Goes(c, r) \/ Goes(c, w)
  BY <1>10, <1>11, <1>12, <1>15
<1>16. CASE ForUs(v, m) /\ m.form.positive /\ Goes(c, Returns(v, TRUE, 0, m))
  <2>1. 0 \in Nrcs /\ TRUE \in BOOLEAN /\ ~Interim(m)
    BY <1>16, Consts DEF Interim
  <2> QED
    BY <1>13, <1>16, <2>1
<1>17. ASSUME ForUs(v, m), ~m.form.positive, NEW nrc \in NrcsOf(m), nrc # Pending,
              Goes(c, Returns(v, FALSE, nrc, m))
       PROVE  Traffic'
  <2>1. nrc \in Nrcs /\ FALSE \in BOOLEAN
    BY <1>2, <1>17
  <2>2. ~Interim(m)
    BY <1>17 DEF Interim, NrcsOf
  <2> QED
    BY <1>13, <1>17, <2>1, <2>2
<1> QED
  BY <1>14, <1>15, <1>16, <1>17

LEMMA TrafficBlocking ==
  ASSUME Inv, NEW c \in Users, Blocking(c)
  PROVE  Traffic'
BY TrafficRequest, TrafficSend, TrafficTest, TrafficRemaining, TrafficReceive DEF Blocking

\* A step that is no user's.
LEMMA TrafficElsewhere ==
  ASSUME Inv, hist'.calls = hist.calls, hist'.unanswered = hist.unanswered,
         \A c \in Users : /\ user'[c].pc = user[c].pc /\ user'[c].n = user[c].n
                          /\ user'[c].took = user[c].took /\ user'[c].req = user[c].req,
         Ordered', Fresh', \A k \in Calls : Flying(k)' => Flying(k)
  PROVE  Traffic'
<1>1. hist.calls \in Calls
  BY DEF Inv, Base, TypeOK
<1>2. \A k : Owed(k) => Owed(k)'
  BY DEF Owed, Open, Sent
<1>3. Owing'
  BY <1>2 DEF Inv, Traffic, Owing
<1>4. Current'
  BY <1>1 DEF Inv, Traffic, Current, Sent
<1>5. \A c \in Users : Accepted(user'[c], hist'.unanswered)
  <2> TAKE c \in Users
  <2>1. Accepted(user[c], hist.unanswered)
    BY DEF Inv, Traffic
  <2> QED
    BY <2>1 DEF Accepted
<1> QED
  BY <1>3, <1>4, <1>5 DEF Traffic

\* A message joins the queue, from an ECU that owes one.
LEMMA Arrives ==
  ASSUME Inv, NEW o \in ecu, NEW form \in FormType, Delivers(o, form),
         \A k \in Calls : (\E p \in ecu' : p.n = k) => \E p \in ecu : p.n = k,
         \A p1, p2 \in ecu' : p1.n = p2.n => p1 = p2,
         Interim(Message(o.ecu, o.sid, form, o.n)) \/ \A p \in ecu' : p.n # o.n
  PROVE  Traffic'
<1> DEFINE m == Message(o.ecu, o.sid, form, o.n)
<1>1. /\ q_isotp_rx' = Send(q_isotp_rx, QIsotpCap, m) /\ UNCHANGED <<user, hist>>
      /\ ecu \subseteq [n : Calls, ecu : Ecus, sid : Sids, pendings : 0..MaxPending]
      /\ q_isotp_rx \in Seq(MessageType)
  BY DEF Inv, Base, TypeOK, Delivers
<1>2. o.n \in Calls /\ m.of = o.n /\ m.during = hist.calls
  BY <1>1 DEF Message
<1>3. Interim(m) \/ \A p \in ecu' : p.n # o.n
  OBVIOUS
<1>4. m \in MessageType
  BY DeliversTyped DEF Inv
<1>5. PICK q \in Seq(MessageType) : q = q_isotp_rx
  BY <1>1
<1>6. PICK q2 \in Seq(MessageType) : q2 = q_isotp_rx'
  BY DeliversTyped DEF Inv
<1>7. PICK l \in Nat, l2 \in Nat : l = Len(q) /\ l2 = Len(q2)
  BY <1>5, <1>6, LenProperties
<1> HIDE DEF m
<1>8. /\ \A o1, o2 \in ecu : o1.n = o2.n => o1 = o2
      /\ \A i \in 1..l : ~Interim(q[i]) =>
           /\ \A j \in 1..l : j > i => q[j].of # q[i].of
           /\ \A p \in ecu : p.n # q[i].of
      /\ \A i \in 1..l : q[i].during = hist.calls
  BY <1>5, <1>7 DEF Inv, Traffic, Ordered, Fresh
<1>9. \A i \in 1..l : q[i] \in MessageType /\ q[i].of \in Calls
  <2> TAKE i \in 1..l
  <2>1. q[i] \in MessageType
    BY <1>7, ElementOfSeq
  <2> QED
    BY <2>1, MessageTyped
<1>10. /\ Ordered' = /\ \A o1, o2 \in ecu' : o1.n = o2.n => o1 = o2
                     /\ \A i \in 1..l2 : ~Interim(q2[i]) =>
                          /\ \A j \in 1..l2 : j > i => q2[j].of # q2[i].of
                          /\ \A p \in ecu' : p.n # q2[i].of
       /\ Fresh' = \A i \in 1..l2 : q2[i].during = hist.calls
  BY <1>1, <1>6, <1>7 DEF Ordered, Fresh, Interim
<1>11. /\ \A k \in Calls : Flying(k)' = ((\E p \in ecu' : p.n = k) \/ \E i \in 1..l2 : q2[i].of = k)
       /\ \A k \in Calls : Flying(k) = ((\E p \in ecu : p.n = k) \/ \E i \in 1..l : q[i].of = k)
  BY <1>5, <1>6, <1>7 DEF Flying
<1>12. CASE q2 = q
  <2>1. l2 = l
    BY <1>7, <1>12
  <2>2. \A i \in 1..l : ~Interim(q[i]) => \A p \in ecu' : p.n # q[i].of
    BY <1>8, <1>9
  <2>3. Ordered'
    BY <1>8, <1>10, <1>12, <2>1, <2>2
  <2>4. Fresh'
    BY <1>8, <1>10, <1>12, <2>1
  <2>5. \A k \in Calls : Flying(k)' => Flying(k)
    BY <1>11, <1>12, <2>1
  <2> QED
    BY <1>1, <2>3, <2>4, <2>5, TrafficElsewhere
<1>13. CASE q2 = Append(q, m)
  <2>1. /\ l2 = l + 1 /\ q2[l + 1] = m
        /\ \A i \in 1..l : q2[i] = q[i]
    BY <1>4, <1>7, <1>13, AppendProperties
  <2>2. \A i \in 1..(l + 1) : i \in 1..l \/ i = l + 1
    OBVIOUS
  <2>3. \A i \in 1..(l + 1), j \in 1..(l + 1) : j > i => i \in 1..l
    OBVIOUS
  <2>4. ASSUME NEW i \in 1..(l + 1), ~Interim(q2[i])
        PROVE  /\ \A j \in 1..(l + 1) : j > i => q2[j].of # q2[i].of
               /\ \A p \in ecu' : p.n # q2[i].of
    <3>1. CASE i = l + 1
      <4>1. \A j \in 1..(l + 1) : ~(j > i)
        BY <3>1
      <4> QED
        BY <1>2, <1>3, <2>1, <2>4, <3>1, <4>1
    <3>2. CASE i \in 1..l
      <4>1. q2[i] = q[i] /\ q[i].of \in Calls /\ ~Interim(q[i])
        BY <1>9, <2>1, <2>4, <3>2
      <4>2. /\ \A j \in 1..l : j > i => q[j].of # q[i].of
            /\ \A p \in ecu : p.n # q[i].of
        BY <1>8, <3>2, <4>1
      <4>3. \A p \in ecu' : p.n # q[i].of
        BY <4>1, <4>2
      <4>4. ASSUME NEW j \in 1..(l + 1), j > i PROVE q2[j].of # q[i].of
        BY <1>2, <2>1, <2>2, <4>2, <4>4
      <4> QED
        BY <4>1, <4>3, <4>4
    <3> QED
      BY <2>2, <3>1, <3>2
  <2>5. Ordered'
    BY <1>10, <2>1, <2>4
  <2>6. Fresh'
    BY <1>2, <1>8, <1>10, <2>1, <2>2
  <2>7. \A k \in Calls : Flying(k)' => Flying(k)
    <3> SUFFICES ASSUME NEW k \in Calls, Flying(k)' PROVE Flying(k)
      OBVIOUS
    <3>1. CASE \E p \in ecu' : p.n = k
      BY <1>11, <3>1
    <3>2. ASSUME NEW i \in 1..(l + 1), q2[i].of = k PROVE Flying(k)
      BY <1>2, <1>11, <2>1, <2>2, <3>2
    <3> QED
      BY <1>11, <2>1, <3>1, <3>2
  <2> QED
    BY <1>1, <2>5, <2>6, <2>7, TrafficElsewhere
<1> QED
  BY <1>1, <1>5, <1>6, <1>12, <1>13 DEF Send

LEMMA TrafficEcu ==
  ASSUME Inv, NEW o \in ecu, EcuAnswers(o) \/ EcuPending(o)
  PROVE  Traffic'
<1>1. \A o1, o2 \in ecu : o1.n = o2.n => o1 = o2
  BY DEF Inv, Traffic, Ordered
<1>2. o \in [n : Calls, ecu : Ecus, sid : Sids, pendings : 0..MaxPending]
  BY DEF Inv, Base, TypeOK
<1>3. CASE EcuAnswers(o)
  <2>1. PICK form \in Forms : Delivers(o, form) /\ ecu' = ecu \ {o}
    BY <1>3 DEF EcuAnswers
  <2>2. form \in FormType
    BY DEF FormType
  <2>3. \A p \in ecu' : p.n # o.n
    BY <1>1, <2>1
  <2>4. \A p1, p2 \in ecu' : p1.n = p2.n => p1 = p2
    BY <1>1, <2>1
  <2>5. \A k \in Calls : (\E p \in ecu' : p.n = k) => \E p \in ecu : p.n = k
    BY <2>1
  <2> QED
    BY <2>1, <2>2, <2>3, <2>4, <2>5, Arrives
<1>4. CASE EcuPending(o)
  <2> DEFINE form == [positive |-> FALSE, len |-> 3, nrc |-> Pending]
             o2 == [o EXCEPT !.pendings = @ + 1]
  <2>1. Delivers(o, form) /\ ecu' = (ecu \ {o}) \cup {o2}
    BY <1>4 DEF EcuPending
  <2>2. form \in FormType
    BY DEF FormType
  <2>3. o2.n = o.n
    BY <1>2
  <2>4. Interim(Message(o.ecu, o.sid, form, o.n))
    BY DEF Interim, Message
  <2> HIDE DEF form, o2
  <2>5. \A p1, p2 \in ecu' : p1.n = p2.n => p1 = p2
    BY <1>1, <2>1, <2>3
  <2>6. \A k \in Calls : (\E p \in ecu' : p.n = k) => \E p \in ecu : p.n = k
    BY <2>1, <2>3
  <2> QED
    BY <2>1, <2>2, <2>4, <2>5, <2>6, Arrives
<1> QED
  BY <1>3, <1>4

\* A step of a user that is in no call, before or after.
LEMMA TrafficOutside ==
  ASSUME Inv, NEW c \in Users, NEW u \in UserType, Goes(c, u), ~Sent(u),
         ~Sent(user[c]), user[c].pc # "return", Accepted(u, hist.unanswered),
         hist'.calls = hist.calls, hist'.unanswered = hist.unanswered,
         UNCHANGED <<q_isotp_rx, ecu>>
  PROVE  Traffic'
<1>1. \A k \in Calls : ~Open(user[c], k)
  BY DEF Open
<1>2. u.pc # "send"
  BY DEF Sent
<1>3. hist.unanswered \subseteq hist'.unanswered /\ Accepted(u, hist'.unanswered)
  OBVIOUS
<1> QED
  BY <1>1, <1>2, <1>3, TrafficQuiet DEF Inv

\* The end of a call: without its own answer it counts among the unanswered.
LEMMA TrafficEnds ==
  ASSUME Inv, NEW c \in Users, NEW u \in UserType, Goes(c, u), ~Sent(u),
         user[c].pc = "return", hist' = Ended(c),
         u.took = NoMessage \/ (u.took = user[c].took /\ u.req = user[c].req /\ u.n = user[c].n),
         UNCHANGED <<q_isotp_rx, ecu>>
  PROVE  Traffic'
<1>1. /\ hist'.calls = hist.calls
      /\ hist'.unanswered = IF user[c].n = user[c].took.of THEN hist.unanswered
                            ELSE hist.unanswered \cup {user[c].n}
  BY EndedTyped DEF Inv, Base
<1>2. hist.unanswered \subseteq hist'.unanswered
  BY <1>1
<1>3. \A k \in Calls : Open(user[c], k) => k \in hist'.unanswered
  BY <1>1 DEF Open
<1>4. Accepted(u, hist'.unanswered)
  <2>1. Accepted(user[c], hist.unanswered)
    BY DEF Inv, Traffic
  <2> QED
    BY <1>2, <2>1 DEF Accepted
<1>5. u.pc # "send"
  BY DEF Sent
<1> QED
  BY <1>1, <1>2, <1>3, <1>4, <1>5, TrafficQuiet DEF Inv

LEMMA TrafficNext == Inv /\ [Next]_vars => Traffic'
<1> SUFFICES ASSUME Inv, [Next]_vars PROVE Traffic'
  OBVIOUS
<1>1. ASSUME NEW c \in Users, TakeLock(c) PROVE Traffic'
  <2> DEFINE u == [user[c] EXCEPT !.pc = "request", !.remaining = 0]
  <2>1. /\ user[c] \in UserType /\ Goes(c, u) /\ user[c].pc = "lock" /\ user[c].took = NoMessage
        /\ UNCHANGED <<q_isotp_rx, ecu, hist>>
    BY <1>1 DEF TakeLock, At, Inv, Base, TypeOK, AllSound, Sound
  <2>2. 0 \in 0..(TickMod + LockWait)
    BY Consts
  <2>3. u \in UserType /\ u.pc = "request" /\ u.took = NoMessage
    BY <2>1, <2>2 DEF UserType
  <2> HIDE DEF u
  <2>4. ~Sent(u) /\ ~Sent(user[c]) /\ user[c].pc # "return" /\ Accepted(u, hist.unanswered)
    BY <2>1, <2>3 DEF Sent, Accepted
  <2> QED
    BY <2>1, <2>3, <2>4, TrafficOutside
<1>2. CASE NextRequest
  <2> DEFINE r == Head(q_uds_request)
             u == [Idle EXCEPT !.pc = "lock", !.req = r]
  <2>1. /\ q_uds_request \in Seq(Requests) /\ q_uds_request # <<>> /\ Goes("uds", u)
        /\ user["uds"].pc = "idle" /\ "uds" \in Users /\ UNCHANGED <<q_isotp_rx, ecu, hist>>
    BY <1>2 DEF NextRequest, At, Inv, Base, TypeOK, Users
  <2>2. r \in AllRequests
    BY <2>1, Consts, HeadTailProperties, EmptySeq
  <2> HIDE DEF r
  <2>3. u \in UserType /\ u.pc = "lock" /\ u.took = NoMessage
    BY <2>2, IdleTyped DEF Idle, UserType
  <2> HIDE DEF u
  <2>4. ~Sent(u) /\ ~Sent(user["uds"]) /\ Accepted(u, hist.unanswered)
    BY <2>1, <2>3 DEF Sent, Accepted
  <2> QED
    BY <2>1, <2>3, <2>4, TrafficOutside
<1>3. CASE UdsReturn
  <2> DEFINE u == [user["uds"] EXCEPT !.pc = "reply"]
  <2>1. /\ user["uds"] \in UserType /\ user["uds"].pc = "return" /\ Goes("uds", u)
        /\ hist' = Ended("uds") /\ "uds" \in Users /\ UNCHANGED <<q_isotp_rx, ecu>>
    BY <1>3 DEF UdsReturn, At, Inv, Base, TypeOK, Users
  <2>2. /\ u \in UserType /\ u.pc = "reply" /\ u.took = user["uds"].took /\ u.req = user["uds"].req
        /\ u.n = user["uds"].n
    BY <2>1 DEF UserType
  <2> HIDE DEF u
  <2>3. ~Sent(u)
    BY <2>2 DEF Sent
  <2> QED
    BY <2>1, <2>2, <2>3, TrafficEnds
<1>4. Idle \in UserType /\ Idle.took = NoMessage /\ ~Sent(Idle) /\ Accepted(Idle, hist.unanswered)
  BY IdleTyped DEF Idle, Sent, Accepted
<1>5. CASE Reply
  <2>1. /\ Goes("uds", Idle) /\ "uds" \in Users /\ user["uds"].pc = "reply"
        /\ UNCHANGED <<q_isotp_rx, ecu, hist>>
    BY <1>5 DEF Reply, At, Users
  <2> QED
    BY <1>4, <2>1, TrafficOutside DEF Sent
<1>6. CASE FlashRefused
  <2>1. /\ Goes("flash", Idle) /\ "flash" \in Users /\ user["flash"].pc = "lock"
        /\ UNCHANGED <<q_isotp_rx, ecu, hist>>
    BY <1>6 DEF FlashRefused, At, Users
  <2> QED
    BY <1>4, <2>1, TrafficOutside DEF Sent
<1>7. CASE FlashStart
  <2> DEFINE u == [FlashRequest(1) EXCEPT !.pc = "lock", !.remaining = LockWait]
  <2>1. 1 \in 1..Len(FlashRequests) /\ LockWait \in 0..(TickMod + LockWait)
    BY Consts
  <2>2. FlashRequest(1) \in UserType /\ FlashRequest(1).took = NoMessage
    BY <2>1, FlashRequestTyped DEF FlashRequest, Idle
  <2>3. u \in UserType /\ u.pc = "lock" /\ u.took = NoMessage
    BY <2>1, <2>2 DEF UserType
  <2>4. /\ Goes("flash", u) /\ "flash" \in Users /\ user["flash"].pc = "idle"
        /\ UNCHANGED <<q_isotp_rx, ecu>> /\ hist' = [hist EXCEPT !.asked = @ + Len(FlashRequests)]
    BY <1>7 DEF FlashStart, At, Users
  <2>5. hist'.calls = hist.calls /\ hist'.unanswered = hist.unanswered
    <3>1. hist \in [asked : Calls, calls : Calls, unanswered : SUBSET Calls]
      BY DEF Inv, Base, TypeOK
    <3> QED
      BY <2>4, <3>1
  <2> HIDE DEF u
  <2>6. ~Sent(u) /\ ~Sent(user["flash"]) /\ Accepted(u, hist.unanswered)
    BY <2>3, <2>4 DEF Sent, Accepted
  <2> QED
    BY <2>3, <2>4, <2>5, <2>6, TrafficOutside
<1>8. CASE FlashReturn
  <2> DEFINE k == user["flash"].step + 1
  <2>1. /\ user["flash"].pc = "return" /\ user["flash"].step \in 1..Len(FlashRequests)
        /\ hist' = Ended("flash") /\ "flash" \in Users /\ UNCHANGED <<q_isotp_rx, ecu>>
    BY <1>8 DEF FlashReturn, At, Inv, Base, Asking, Users
  <2>2. \/ user["flash"].step < Len(FlashRequests) /\ Goes("flash", FlashRequest(k))
        \/ Goes("flash", Idle)
    BY <1>8 DEF FlashReturn
  <2>3. user["flash"].step < Len(FlashRequests) => k \in 1..Len(FlashRequests)
    BY <2>1, Consts
  <2> HIDE DEF k
  <2>4. \A i \in 1..Len(FlashRequests) :
          FlashRequest(i) \in UserType /\ ~Sent(FlashRequest(i)) /\ FlashRequest(i).took = NoMessage
    BY FlashRequestTyped DEF FlashRequest, Idle, Sent
  <2> QED
    BY <1>4, <2>1, <2>2, <2>3, <2>4, TrafficEnds
<1>9. ASSUME UNCHANGED <<q_isotp_rx, ecu>>, hist'.calls = hist.calls,
             hist'.unanswered = hist.unanswered,
             \A c \in Users : /\ user'[c].pc = user[c].pc /\ user'[c].n = user[c].n
                              /\ user'[c].took = user[c].took /\ user'[c].req = user[c].req
      PROVE  Traffic'
  <2>1. Ordered'
    BY <1>9 DEF Inv, Traffic, Ordered
  <2>2. Fresh' /\ \A k \in Calls : Flying(k)' => Flying(k)
    BY <1>9 DEF Inv, Traffic, Fresh, Flying
  <2> QED
    BY <1>9, <2>1, <2>2, TrafficElsewhere
<1>10. CASE Tick
  <2>1. ASSUME NEW c \in Users
        PROVE  /\ user'[c].pc = user[c].pc /\ user'[c].n = user[c].n
               /\ user'[c].took = user[c].took /\ user'[c].req = user[c].req
    <3>1. user[c] \in UserType
      BY DEF Inv, Base, TypeOK
    <3>2. user'[c] = [user[c] EXCEPT !.held = user'[c].held, !.remaining = user'[c].remaining,
                                     !.due = user'[c].due]
      BY <1>10, TickUser DEF Inv, Base
    <3> QED
      BY <3>1, <3>2 DEF UserType
  <2> QED
    BY <1>9, <1>10, <2>1 DEF Tick
<1>11. CASE Pump
  BY <1>9, <1>11 DEF Pump
<1>12. ASSUME NEW r \in Requests, ClientAsks(r) PROVE Traffic'
  <2>1. hist \in [asked : Calls, calls : Calls, unanswered : SUBSET Calls]
    BY DEF Inv, Base, TypeOK
  <2>2. hist'.calls = hist.calls /\ hist'.unanswered = hist.unanswered
    BY <1>12, <2>1 DEF ClientAsks
  <2> QED
    BY <1>9, <1>12, <2>2 DEF ClientAsks
<1>13. CASE UNCHANGED vars
  BY <1>9, <1>13 DEF vars
<1> QED
  BY <1>1, <1>2, <1>3, <1>5, <1>6, <1>7, <1>8, <1>10, <1>11, <1>12, <1>13, TrafficBlocking, TrafficEcu
     DEF Next, UdsTask, FlashTask, Users

LEMMA InvAlways == Spec => []Inv
<1>1. Init => OneUserInside /\ AllSound /\ Traffic
  <2> SUFFICES ASSUME Init PROVE OneUserInside /\ AllSound /\ Traffic
    OBVIOUS
  <2>1. \A c \in Users : user[c] = Idle
    BY DEF Init
  <2>2. q_isotp_rx = <<>> /\ ecu = {} /\ g_uds_bus_lock = "free"
    BY DEF Init
  <2>3. OneUserInside
    BY <2>1, <2>2 DEF OneUserInside, InCall, Idle, Users
  <2>4. AllSound
    BY <2>1, SoundFresh DEF AllSound
  <2>5. Ordered /\ Fresh /\ Owing
    BY <2>2 DEF Ordered, Fresh, Owing, Flying
  <2>6. Current /\ \A c \in Users : Accepted(user[c], hist.unanswered)
    BY <2>1 DEF Current, Accepted, Sent, Idle
  <2> QED
    BY <2>3, <2>4, <2>5, <2>6 DEF Traffic
<1>2. Inv /\ [Next]_vars => Inv'
  BY BaseNext, InsideNext, SoundNext, TrafficNext DEF Inv
<1> QED
  BY <1>1, <1>2, BaseInit, PTL DEF Spec, Inv

\* An answer is accepted from the ECU and for the service that were asked; it answers this
\* request, or one of before that went without, and it arrived after this one was begun.
THEOREM AnswersAreAsked == Spec => []AnswerOfRequest
<1>1. Inv => AnswerOfRequest
  BY DEF Inv, Traffic, Accepted, AnswerOfRequest
<1> QED
  BY <1>1, InvAlways, PTL
====
