--------------------------- MODULE MCFlashControl ---------------------------
(***************************************************************************)
(* FlashControl for TLC: a file of two cells and one of a single cell.     *)
(***************************************************************************)
EXTENDS FlashControl

CONSTANTS app, boot

MCImages == {app, boot}
MCSize   == [i \in MCImages |-> IF i = app THEN 2 ELSE 1]

\* The CRC is optional.
MCAnnounced == {<<app, app>>, <<boot, NoImage>>}

=============================================================================
