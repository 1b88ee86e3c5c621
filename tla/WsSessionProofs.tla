------------------------- MODULE WsSessionProofs -------------------------
(***************************************************************************)
(* The slot of WsSession, for any number of sockets and connections.       *)
(***************************************************************************)
EXTENDS WsSession, TLAPS

(* What the invariants rest on: a handshake is done on open sockets only, a    *)
(* connection has one socket, and a writer that has copied the slot holds a    *)
(* connection whose handshake was done.                                        *)

WsIsOpen == \A f \in Fds : sess[f].ws => Open(f)

ConnsDistinct ==
  /\ \A f \in Fds : sess[f].conn <= conns
  /\ \A f, g \in Fds : Open(f) /\ sess[f].conn = sess[g].conn => f = g

Copied ==
  \A s \in Senders : sender[s].pc \in {"send", "clear"} =>
    /\ sender[s].fd \in Fds /\ sender[s].conn \in 1..conns
    /\ \A f \in Fds : sess[f].conn = sender[s].conn => sess[f].ws
    /\ sender[s].pc = "clear" /\ sender[s].conn = last.conn => last.gone

SlotInv == TypeOK /\ SlotIsOpen /\ WsIsOpen /\ ConnsDistinct
IInv == SlotInv /\ Copied /\ LastBrowserKept

-----------------------------------------------------------------------------

LEMMA Caps ==
  /\ MaxConns \in Nat /\ QRespCap \in Nat \ {0} /\ QMonCap \in Nat \ {0}
  /\ Fds \subseteq Nat \ {0}
BY WsConstants

LEMMA Zero == 0 \in 0..MaxConns /\ 0 \notin Fds
BY Caps

LEMMA InitInv == Init => IInv
<1> SUFFICES ASSUME Init PROVE IInv
  OBVIOUS
<1> USE DEF Init, Free, Idle, None, Connected, Open
<1>1. TypeOK
  <2>1. last \in [conn : 0..MaxConns, gone : BOOLEAN, hit : BOOLEAN]
    BY Zero
  <2>2. sess \in [Fds -> [conn : 0..MaxConns, ws : BOOLEAN]]
    BY Zero
  <2>3. sender \in [Senders -> [pc : {"idle", "copy", "send", "clear"},
                               fd : Fds \cup {None}, conn : 0..MaxConns]]
    BY Zero
  <2>4. slot \in [fd : Fds \cup {None}, bit : BOOLEAN]
    OBVIOUS
  <2>5. responses \in 0..QRespCap /\ monitor \in 0..QMonCap /\ conns \in 0..MaxConns
    BY Caps
  <2> QED
    BY <2>1, <2>2, <2>3, <2>4, <2>5 DEF TypeOK
<1>2. SlotIsOpen /\ WsIsOpen /\ ConnsDistinct
  <2>1. ~slot.bit /\ ~Connected
    OBVIOUS
  <2>2. \A f \in Fds : ~sess[f].ws /\ sess[f].conn = 0
    OBVIOUS
  <2> QED
    BY <2>1, <2>2, Caps DEF SlotIsOpen, WsIsOpen, ConnsDistinct
<1>3. Copied /\ LastBrowserKept
  BY DEF Copied, LastBrowserKept, Senders
<1> QED
  BY <1>1, <1>2, <1>3 DEF IInv, SlotInv

\* The types, and what is known of the slot and the sessions without the writers.
LEMMA SlotStep == SlotInv /\ [Next]_vars => SlotInv'
<1> SUFFICES ASSUME SlotInv, [Next]_vars PROVE SlotInv'
  OBVIOUS
<1> USE Caps, Zero DEF SlotInv, TypeOK, SlotIsOpen, WsIsOpen, ConnsDistinct, Connected, Open,
        None, Free, Idle
<1>1. CASE Accept
  BY <1>1 DEF Accept, HttpdIdle
<1>2. ASSUME NEW f \in Fds, Handshake(f) PROVE SlotInv'
  <2>0. sess' = [sess EXCEPT ![f].ws = TRUE]
    BY <1>2 DEF Handshake
  <2>1. /\ sess' \in [Fds -> [conn : 0..MaxConns, ws : BOOLEAN]]
        /\ sess'[f].ws /\ sess'[f].conn = sess[f].conn
        /\ \A g \in Fds \ {f} : sess'[g] = sess[g]
    BY <2>0
  <2>2. /\ slot' \in [fd : Fds \cup {None}, bit : BOOLEAN]
        /\ slot'.fd = f /\ slot'.bit /\ httpd' = None
    BY <1>2 DEF Handshake, HttpdIdle, SetClient
  <2>3. last' \in [conn : 0..MaxConns, gone : BOOLEAN, hit : BOOLEAN]
    <3>1. sess[f].conn \in 0..MaxConns
      OBVIOUS
    <3> QED
      BY <1>2, <3>1 DEF Handshake
  <2>4. UNCHANGED <<httpd, sender, pump, responses, monitor, quiet, conns>>
    BY <1>2 DEF Handshake
  <2>5. TypeOK'
    BY <2>1, <2>2, <2>3, <2>4
  <2>6. SlotIsOpen'
    BY <2>1, <2>2
  <2>7. WsIsOpen' /\ ConnsDistinct'
    BY <1>2, <2>1, <2>4 DEF Handshake
  <2> QED
    BY <2>5, <2>6, <2>7
<1>3. ASSUME NEW f \in Fds, CloseFrame(f) PROVE SlotInv'
  BY <1>3 DEF CloseFrame, HttpdIdle, ClearClient
<1>4. ASSUME NEW f \in Fds, TextFrame(f) PROVE SlotInv'
  BY <1>4 DEF TextFrame, HttpdIdle, Senders
<1>5. ASSUME NEW f \in Fds, BeginClose(f) PROVE SlotInv'
  BY <1>5 DEF BeginClose, HttpdIdle, CloseCallback, ClearClient
<1>6. CASE CloseSocket
  BY <1>6 DEF CloseSocket
<1>7. ASSUME NEW s \in Senders, CopySlot(s) PROVE SlotInv'
  <2>1. UNCHANGED <<sess, slot, httpd, pump, responses, monitor, quiet, conns, last>>
    BY <1>7 DEF CopySlot
  <2>2. sender' \in [Senders -> [pc : {"idle", "copy", "send", "clear"},
                                fd : Fds \cup {None}, conn : 0..MaxConns]]
    BY <1>7 DEF CopySlot
  <2> QED
    BY <2>1, <2>2
<1>8. ASSUME NEW s \in Senders, SendDone(s) PROVE SlotInv'
  BY <1>8 DEF SendDone, Senders
<1>9. ASSUME NEW s \in Senders, SendFails(s) PROVE SlotInv'
  <2>1. UNCHANGED <<sess, slot, httpd, pump, responses, monitor, quiet, conns>>
    BY <1>9 DEF SendFails
  <2>2. last' \in [conn : 0..MaxConns, gone : BOOLEAN, hit : BOOLEAN]
    BY <1>9 DEF SendFails
  <2>3. sender' \in [Senders -> [pc : {"idle", "copy", "send", "clear"},
                                fd : Fds \cup {None}, conn : 0..MaxConns]]
    BY <1>9 DEF SendFails
  <2> QED
    BY <2>1, <2>2, <2>3
<1>10. ASSUME NEW s \in Senders, AfterFailure(s) PROVE SlotInv'
  <2>1. UNCHANGED <<sess, httpd, pump, responses, monitor, quiet, conns>>
    BY <1>10 DEF AfterFailure
  <2>2. slot' = slot \/ slot' = [fd |-> 0, bit |-> FALSE]
    BY <1>10 DEF AfterFailure, ClearClient
  <2>3. sender' = [sender EXCEPT ![s] = [pc |-> "idle", fd |-> 0, conn |-> 0]]
    BY <1>10 DEF AfterFailure
  <2>4. last' \in [conn : 0..MaxConns, gone : BOOLEAN, hit : BOOLEAN]
    BY <1>10 DEF AfterFailure
  <2>5. slot' \in [fd : Fds \cup {None}, bit : BOOLEAN] /\ SlotIsOpen'
    <3>1. CASE slot' = slot
      BY <2>1, <3>1
    <3>2. CASE slot' = [fd |-> 0, bit |-> FALSE]
      <4>1. slot'.fd = 0 /\ ~slot'.bit /\ slot' \in [fd : Fds \cup {None}, bit : BOOLEAN]
        BY <3>2
      <4> QED
        BY <2>1, <4>1
    <3> QED
      BY <2>2, <3>1, <3>2
  <2>6. sender' \in [Senders -> [pc : {"idle", "copy", "send", "clear"},
                                fd : Fds \cup {None}, conn : 0..MaxConns]]
    BY <2>3
  <2> QED
    BY <2>1, <2>4, <2>5, <2>6
<1>11. CASE PumpTask
  BY <1>11 DEF PumpTask, PumpWait, PumpLook, PumpDrain, PumpDiscard, PumpSends, PumpReady,
               TakeMonitor, Senders
<1>12. CASE Answer \/ CanFrame \/ Bus
  <2>1. UNCHANGED <<sess, slot, httpd, sender, pump, conns, last>>
    BY <1>12 DEF Answer, CanFrame, Bus
  <2>2. responses' \in 0..QRespCap
    BY <1>12 DEF Answer, CanFrame, Bus
  <2>3. monitor' \in 0..QMonCap
    BY <1>12 DEF Answer, CanFrame, Bus, Into
  <2>4. quiet' \in BOOLEAN
    BY <1>12 DEF Answer, CanFrame, Bus
  <2> QED
    BY <2>1, <2>2, <2>3, <2>4
<1>13. CASE FlashReports
  BY <1>13 DEF FlashReports, Senders
<1>14. CASE UNCHANGED vars
  BY <1>14 DEF vars
<1> QED
  BY <1>1, <1>2, <1>3, <1>4, <1>5, <1>6, <1>7, <1>8, <1>9, <1>10, <1>11, <1>12, <1>13, <1>14
  DEF Next, Httpd, Send

LEMMA CopiedStep == IInv /\ [Next]_vars => Copied'
<1> SUFFICES ASSUME IInv, [Next]_vars PROVE Copied'
  OBVIOUS
<1> USE Caps, Zero DEF IInv, SlotInv, TypeOK, WsIsOpen, ConnsDistinct, Copied, Open, None, Free,
        Idle
<1>1. CASE Accept
  BY <1>1 DEF Accept
<1>2. ASSUME NEW f \in Fds, Handshake(f) PROVE Copied'
  BY <1>2 DEF Handshake
<1>3. ASSUME NEW f \in Fds, CloseFrame(f) PROVE Copied'
  BY <1>3 DEF CloseFrame
<1>4. ASSUME NEW f \in Fds, TextFrame(f) PROVE Copied'
  BY <1>4 DEF TextFrame, Senders
<1>5. ASSUME NEW f \in Fds, BeginClose(f) PROVE Copied'
  BY <1>5 DEF BeginClose
<1>6. CASE CloseSocket
  BY <1>6 DEF CloseSocket
<1>7. ASSUME NEW s \in Senders, CopySlot(s) PROVE Copied'
  <2>1. UNCHANGED <<sess, conns, last>>
    BY <1>7 DEF CopySlot
  <2>2. CASE slot.fd = None
    BY <1>7, <2>1, <2>2 DEF CopySlot
  <2>3. CASE slot.fd # None
    <3>1. slot.fd \in Fds
      BY <2>3
    <3>2. sess[slot.fd].ws
      BY <2>3 DEF SlotIsOpen, Connected
    <3>3. sess[slot.fd].conn \in 1..conns
      <4>1. sess[slot.fd].conn \in 0..MaxConns /\ conns \in 0..MaxConns
        BY <3>1
      <4>2. sess[slot.fd].conn # 0 /\ sess[slot.fd].conn <= conns
        BY <3>1, <3>2
      <4> QED
        BY <4>1, <4>2
    <3>4. sender' = [sender EXCEPT ![s] = [pc |-> "send", fd |-> slot.fd,
                                           conn |-> sess[slot.fd].conn]]
      BY <1>7, <2>3 DEF CopySlot
    <3>5. \A f \in Fds : sess[f].conn = sess[slot.fd].conn => f = slot.fd
      BY <3>1, <3>2
    <3> QED
      BY <2>1, <3>1, <3>2, <3>3, <3>4, <3>5
  <2> QED
    BY <2>2, <2>3
<1>8. ASSUME NEW s \in Senders, SendDone(s) PROVE Copied'
  BY <1>8 DEF SendDone
<1>9. ASSUME NEW s \in Senders, SendFails(s) PROVE Copied'
  <2>1. /\ sess' = sess /\ conns' = conns /\ last'.conn = last.conn
        /\ last'.gone <=> last.gone \/ last.conn = sender[s].conn
    BY <1>9 DEF SendFails
  <2>2. /\ sender[s].pc = "send" /\ sender'[s].pc = "clear"
        /\ sender'[s].fd = sender[s].fd /\ sender'[s].conn = sender[s].conn
        /\ \A t \in Senders \ {s} : sender'[t] = sender[t]
    BY <1>9 DEF SendFails
  <2> QED
    BY <2>1, <2>2
<1>10. ASSUME NEW s \in Senders, AfterFailure(s) PROVE Copied'
  <2>1. sender' = [sender EXCEPT ![s] = [pc |-> "idle", fd |-> 0, conn |-> 0]]
    BY <1>10 DEF AfterFailure
  <2>2. sess' = sess /\ conns' = conns /\ last'.conn = last.conn /\ last'.gone = last.gone
    BY <1>10 DEF AfterFailure
  <2> QED
    BY <2>1, <2>2
<1>11. CASE PumpTask
  BY <1>11 DEF PumpTask, PumpWait, PumpLook, PumpDrain, PumpDiscard, PumpSends, PumpReady, Senders
<1>12. CASE Answer \/ CanFrame \/ Bus
  BY <1>12 DEF Answer, CanFrame, Bus
<1>13. CASE FlashReports
  BY <1>13 DEF FlashReports, Senders
<1>14. CASE UNCHANGED vars
  BY <1>14 DEF vars
<1> QED
  BY <1>1, <1>2, <1>3, <1>4, <1>5, <1>6, <1>7, <1>8, <1>9, <1>10, <1>11, <1>12, <1>13, <1>14
  DEF Next, Httpd, Send

LEMMA LastStep == IInv /\ [Next]_vars => LastBrowserKept'
<1> SUFFICES ASSUME IInv, [Next]_vars PROVE LastBrowserKept'
  OBVIOUS
<1> USE Caps, Zero DEF IInv, SlotInv, TypeOK, WsIsOpen, ConnsDistinct, LastBrowserKept, Open,
        None, Free, HttpdIdle
<1>1. CASE Accept
  <2>1. UNCHANGED <<slot, httpd, last>>
    BY <1>1 DEF Accept
  <2>2. \A g \in Fds : sess'[g].ws => sess'[g] = sess[g]
    BY <1>1 DEF Accept
  <2> QED
    BY <2>1, <2>2
<1>2. ASSUME NEW f \in Fds, Handshake(f) PROVE LastBrowserKept'
  <2>1. \A g \in Fds : sess'[g].conn = sess[g].conn
    BY <1>2 DEF Handshake
  <2>2. slot'.fd = f /\ last'.conn = sess[f].conn
    BY <1>2 DEF Handshake, SetClient
  <2>3. \A g \in Fds : sess'[g].conn = last'.conn => g = f
    BY <1>2, <2>1, <2>2 DEF Handshake
  <2> QED
    BY <2>2, <2>3
<1>3. ASSUME NEW f \in Fds, CloseFrame(f) PROVE LastBrowserKept'
  BY <1>3 DEF CloseFrame, ClearClient
<1>4. ASSUME NEW f \in Fds, BeginClose(f) PROVE LastBrowserKept'
  BY <1>4 DEF BeginClose, CloseCallback, ClearClient
<1>5. CASE CloseSocket
  BY <1>5 DEF CloseSocket
<1>6. ASSUME NEW s \in Senders, SendFails(s) PROVE LastBrowserKept'
  BY <1>6 DEF SendFails
<1>7. ASSUME NEW s \in Senders, AfterFailure(s) PROVE LastBrowserKept'
  BY <1>7 DEF AfterFailure, ClearClient, Copied
<1>8. CASE UNCHANGED <<sess, slot, httpd, last>>
  BY <1>8
<1> QED
  BY <1>1, <1>2, <1>3, <1>4, <1>5, <1>6, <1>7, <1>8
  DEF Next, Httpd, Send, TextFrame, CopySlot, SendDone, PumpTask, PumpWait, PumpLook,
      PumpDrain, PumpDiscard, Answer, CanFrame, Bus, FlashReports, vars

\* The slot, the sockets it was copied from and the last browser are invariant together
\* (all actions of WsSession).
THEOREM InductiveInv == Spec => []IInv
<1>1. IInv /\ [Next]_vars => IInv'
  BY SlotStep, CopiedStep, LastStep DEF IInv
<1> QED
  BY InitInv, <1>1, PTL DEF Spec

-----------------------------------------------------------------------------
(* Theorems *)

\* The state has its types (all actions of WsSession).
THEOREM TypeCorrect == Spec => []TypeOK
<1>1. IInv => TypeOK
  BY DEF IInv, SlotInv
<1> QED
  BY InductiveInv, <1>1, PTL

\* The slot names an open session whose handshake is done (ws_set_client,
\* ws_clear_client, ws_close_callback), however sockets are reused.
THEOREM SlotNamesOpenSession == Spec => []SlotIsOpen
<1>1. IInv => SlotIsOpen
  BY DEF IInv, SlotInv
<1> QED
  BY InductiveInv, <1>1, PTL

\* The last browser keeps the slot (ws_handler, http_server_ws_send_text).
THEOREM LastBrowserHasSlot == Spec => []LastBrowserKept
<1>1. IInv => LastBrowserKept
  BY DEF IInv
<1> QED
  BY InductiveInv, <1>1, PTL
=============================================================================
