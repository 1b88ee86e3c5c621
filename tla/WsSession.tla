----------------------------- MODULE WsSession -----------------------------
(***************************************************************************)
(* The /ws session of main/http_server.c and its three writers: httpd (the *)
(* acknowledgements of ws_proto.c), the flash task (progress) and          *)
(* ws_proto_pump_task (answers, CAN monitor). One slot names the last      *)
(* browser that opened /ws. A writer copies the slot under g_ws_mtx, sends *)
(* without it, and clears the slot when the send fails.                    *)
(*                                                                         *)
(* Sockets are numbers that the next connection may get again; connections *)
(* are numbered, which the code does not see.                              *)
(***************************************************************************)
EXTENDS Naturals

CONSTANTS
  Fds,           \* sockets of httpd (7 with HTTPD_DEFAULT_CONFIG)
  MaxConns,      \* bound: connections
  QRespCap,      \* depth of q_uds_response (2)
  QMonCap        \* depth of q_can_monitor (16)

ASSUME WsConstants ==
  /\ Fds \subseteq Nat \ {0} /\ Fds # {}
  /\ MaxConns \in Nat
  /\ {QRespCap, QMonCap} \subseteq Nat \ {0}

Senders == {"httpd", "pump", "flash"}
None == 0        \* no socket (-1), no connection

VARIABLES
  sess,          \* the sessions of httpd: the connection on each socket, and whether its
                 \* handshake for /ws is done
  slot,          \* fd is g_ws_fd, set together with g_ws_server; bit is EVT_WS_CONNECTED
  httpd,         \* the socket httpd is closing
  sender,        \* http_server_ws_send_text of each writer: pc, the fd it copied; as
                 \* history, the connection that had it
  pump,          \* the place in ws_proto_pump_task
  responses,     \* frames in q_uds_response
  monitor,       \* frames in q_can_monitor
  quiet,         \* no traffic on the bus
  conns,         \* history: connections so far
  last           \* history: the connection that opened /ws last; gone, that it sent
                 \* CLOSE or a send to it failed; hit, that a send to an earlier user
                 \* of its socket failed

vars == <<sess, slot, httpd, sender, pump, responses, monitor, quiet, conns, last>>

Free == [conn |-> None, ws |-> FALSE]
Idle == [pc |-> "idle", fd |-> None, conn |-> None]

Init ==
  /\ sess = [f \in Fds |-> Free]
  /\ slot = [fd |-> None, bit |-> FALSE]
  /\ httpd = None
  /\ sender = [s \in Senders |-> Idle]
  /\ pump = "wait" /\ responses = 0 /\ monitor = 0 /\ quiet = FALSE
  /\ conns = 0
  /\ last = [conn |-> None, gone |-> FALSE, hit |-> FALSE]

Open(f) == sess[f].conn # None
Connected == slot.fd # None            \* http_server_ws_connected
HttpdIdle == httpd = None /\ sender["httpd"] = Idle

-----------------------------------------------------------------------------
(* The slot, under g_ws_mtx *)

SetClient(f) == slot' = [fd |-> f, bit |-> TRUE]

ClearClientMutant(f) == slot' = [fd |-> None, bit |-> FALSE]   \* mutant: whoever has it
ClearClient(f) ==
  slot' = IF slot.fd = f THEN [fd |-> None, bit |-> FALSE] ELSE slot

-----------------------------------------------------------------------------
(* httpd, one task *)

\* The lowest free socket goes to the next connection.
Accept ==
  /\ HttpdIdle /\ conns < MaxConns
  /\ \E f \in Fds : /\ ~Open(f) /\ \A g \in Fds : g < f => Open(g)
                    /\ sess' = [sess EXCEPT ![f] = [conn |-> conns + 1, ws |-> FALSE]]
  /\ conns' = conns + 1
  /\ UNCHANGED <<slot, httpd, sender, pump, responses, monitor, quiet, last>>

\* ws_handler, HTTP_GET: the browser's /ws is open.
Handshake(f) ==
  /\ HttpdIdle /\ Open(f) /\ ~sess[f].ws
  /\ sess' = [sess EXCEPT ![f].ws = TRUE]
  /\ SetClient(f)
  /\ last' = [conn |-> sess[f].conn, gone |-> FALSE, hit |-> FALSE]
  /\ UNCHANGED <<httpd, sender, pump, responses, monitor, quiet, conns>>

\* ws_handler, CLOSE: the slot is cleared, the socket closed later.
CloseFrame(f) ==
  /\ HttpdIdle /\ sess[f].ws
  /\ ClearClient(f)
  /\ last' = [last EXCEPT !.gone = @ \/ last.conn = sess[f].conn]
  /\ UNCHANGED <<sess, httpd, sender, pump, responses, monitor, quiet, conns>>

\* ws_handler, TEXT: ws_proto_handle_json answers what the handler says.
TextFrame(f) ==
  /\ HttpdIdle /\ sess[f].ws
  /\ sender' = [sender EXCEPT !["httpd"].pc = "copy"]
  /\ UNCHANGED <<sess, slot, httpd, pump, responses, monitor, quiet, conns, last>>

\* ws_close_callback, called when the peer left, a handler failed or the least recently
\* used session has to make room: the slot first, then the socket.
CloseCallbackMutant(f) == slot' = slot     \* mutant: a client that leaves keeps the slot
CloseCallback(f) == ClearClient(f)

BeginClose(f) ==
  /\ HttpdIdle /\ Open(f)
  /\ CloseCallback(f)
  /\ httpd' = f
  /\ UNCHANGED <<sess, sender, pump, responses, monitor, quiet, conns, last>>

CloseSocket ==
  /\ httpd # None
  /\ sess' = [sess EXCEPT ![httpd] = Free]
  /\ httpd' = None
  /\ UNCHANGED <<slot, sender, pump, responses, monitor, quiet, conns, last>>

-----------------------------------------------------------------------------
(* http_server_ws_send_text *)

CopySlot(s) ==
  /\ sender[s].pc = "copy"
  /\ sender' = [sender EXCEPT ![s] =
        IF slot.fd = None THEN Idle
        ELSE [pc |-> "send", fd |-> slot.fd, conn |-> sess[slot.fd].conn]]
  /\ UNCHANGED <<sess, slot, httpd, pump, responses, monitor, quiet, conns, last>>

\* The frame goes to whoever has the socket now.
SendDone(s) ==
  /\ sender[s].pc = "send" /\ Open(sender[s].fd)
  /\ sender' = [sender EXCEPT ![s] = Idle]
  /\ UNCHANGED <<sess, slot, httpd, pump, responses, monitor, quiet, conns, last>>

\* No such session, an error of the socket, or 15 s without room (send_wait_timeout).
SendFails(s) ==
  /\ sender[s].pc = "send"
  /\ sender' = [sender EXCEPT ![s].pc = "clear"]
  /\ last' = [last EXCEPT !.gone = @ \/ last.conn = sender[s].conn]
  /\ UNCHANGED <<sess, slot, httpd, pump, responses, monitor, quiet, conns>>

AfterFailure(s) ==
  /\ sender[s].pc = "clear"
  /\ ClearClient(sender[s].fd)
  /\ sender' = [sender EXCEPT ![s] = Idle]
  /\ last' = [last EXCEPT !.hit = @ \/ /\ sess[sender[s].fd].conn = last.conn
                                       /\ sender[s].conn # last.conn]
  /\ UNCHANGED <<sess, httpd, pump, responses, monitor, quiet, conns>>

Send(s) == CopySlot(s) \/ SendDone(s) \/ SendFails(s) \/ AfterFailure(s)

-----------------------------------------------------------------------------
(* ws_proto_pump_task *)

PumpSends == sender' = [sender EXCEPT !["pump"].pc = "copy"]
PumpReady == sender["pump"] = Idle

\* mutant: whether there was an answer is not looked at
PumpWaitMutant ==
  /\ pump = "wait"
  /\ responses' = responses - 1
  /\ IF Connected THEN PumpSends ELSE UNCHANGED sender
  /\ pump' = "look"
  /\ UNCHANGED <<sess, slot, httpd, monitor, quiet, conns, last>>

\* An answer, or 20 ms without one; without a client the answer is dropped.
PumpWait ==
  /\ pump = "wait"
  /\ IF responses = 0 THEN UNCHANGED <<responses, sender>>
     ELSE /\ responses' = responses - 1
          /\ IF Connected THEN PumpSends ELSE UNCHANGED sender
  /\ pump' = "look"
  /\ UNCHANGED <<sess, slot, httpd, monitor, quiet, conns, last>>

PumpLook ==
  /\ pump = "look" /\ PumpReady
  /\ pump' = IF Connected THEN "drain" ELSE "discard"
  /\ UNCHANGED <<sess, slot, httpd, sender, responses, monitor, quiet, conns, last>>

TakeMonitorMutant == monitor' = monitor      \* mutant: looks at the frame, leaves it
TakeMonitor == monitor' = monitor - 1

PumpDrain ==
  /\ pump = "drain" /\ PumpReady
  /\ IF monitor = 0 THEN pump' = "wait" /\ UNCHANGED <<monitor, sender>>
     ELSE TakeMonitor /\ PumpSends /\ UNCHANGED pump
  /\ UNCHANGED <<sess, slot, httpd, responses, quiet, conns, last>>

PumpDiscard ==
  /\ pump = "discard"
  /\ pump' = "wait" /\ monitor' = 0
  /\ UNCHANGED <<sess, slot, httpd, sender, responses, quiet, conns, last>>

PumpTask == PumpWait \/ PumpLook \/ PumpDrain \/ PumpDiscard

-----------------------------------------------------------------------------
(* uds_task, twai_task and the flash *)

Into(q, cap) == IF q < cap THEN q + 1 ELSE q

Answer ==
  /\ responses < QRespCap /\ responses' = responses + 1
  /\ UNCHANGED <<sess, slot, httpd, sender, pump, monitor, quiet, conns, last>>

CanFrame ==
  /\ ~quiet /\ monitor' = Into(monitor, QMonCap)
  /\ UNCHANGED <<sess, slot, httpd, sender, pump, responses, quiet, conns, last>>

Bus ==
  /\ quiet' = ~quiet
  /\ UNCHANGED <<sess, slot, httpd, sender, pump, responses, monitor, conns, last>>

FlashReports ==
  /\ sender["flash"] = Idle
  /\ sender' = [sender EXCEPT !["flash"].pc = "copy"]
  /\ UNCHANGED <<sess, slot, httpd, pump, responses, monitor, quiet, conns, last>>

-----------------------------------------------------------------------------

Httpd == \/ Accept \/ CloseSocket
         \/ \E f \in Fds : \/ Handshake(f) \/ CloseFrame(f) \/ TextFrame(f) \/ BeginClose(f)

Next == \/ Httpd \/ \E s \in Senders : Send(s)
        \/ PumpTask \/ Answer \/ CanFrame \/ Bus \/ FlashReports

\* A send ends within 15 s, and the tasks above the pump block. Nothing is assumed of
\* httpd, of the browsers or of the bus.
Spec == /\ Init /\ [][Next]_vars
        /\ WF_vars(PumpTask) /\ \A s \in Senders : WF_vars(Send(s))

-----------------------------------------------------------------------------
(* Properties *)

TypeOK ==
  /\ sess \in [Fds -> [conn : 0..MaxConns, ws : BOOLEAN]]
  /\ slot \in [fd : Fds \cup {None}, bit : BOOLEAN]
  /\ httpd \in Fds \cup {None}
  /\ sender \in [Senders -> [pc : {"idle", "copy", "send", "clear"},
                             fd : Fds \cup {None}, conn : 0..MaxConns]]
  /\ pump \in {"wait", "look", "drain", "discard"}
  /\ responses \in 0..QRespCap /\ monitor \in 0..QMonCap /\ quiet \in BOOLEAN
  /\ conns \in 0..MaxConns
  /\ last \in [conn : 0..MaxConns, gone : BOOLEAN, hit : BOOLEAN]

\* The slot names an open session whose handshake for /ws is done and which httpd is not
\* closing, so nothing is sent to a closed socket or to a page being loaded that got its
\* number, except by a writer that copied it before; EVT_WS_CONNECTED says whether
\* it names one (ws_set_client, ws_clear_client, ws_close_callback).
SlotIsOpen ==
  /\ slot.bit <=> Connected
  /\ Connected => sess[slot.fd].ws /\ httpd # slot.fd

\* The slot keeps the browser that opened /ws last (http_server.c:31-33) for as long as its
\* session lasts, whatever becomes of the ones it replaced, unless it sent CLOSE, a send
\* to it failed, or one to an earlier user of its socket number did.
LastBrowserKept ==
  \A f \in Fds : /\ sess[f].ws /\ sess[f].conn = last.conn /\ httpd # f
                 /\ ~last.gone /\ ~last.hit
                 => slot.fd = f

\* Whatever browsers do, once the bus is quiet for good every answer in q_uds_response is
\* taken: the pump always comes back to it (ws_proto_pump_task; while frames keep
\* coming faster than they are sent it need not).
PumpReturns == <>[]quiet => []<>(responses = 0 \/ pump = "wait")
=============================================================================
