---------------------------- MODULE MCTwaiDriver ----------------------------
(***************************************************************************)
(* TwaiDriver for TLC: every queue holds one or two.                       *)
(***************************************************************************)
EXTENDS TwaiDriver

CONSTANTS boot, ready, busoff

MCLedStates == {boot, ready, busoff}
=============================================================================
