---------------------------- MODULE MCWsSession ----------------------------
(***************************************************************************)
(* WsSession for TLC: three connections on two sockets, so that one can    *)
(* replace another and one can get the socket of another.                  *)
(***************************************************************************)
EXTENDS WsSession

MCFds == 1..2
=============================================================================
