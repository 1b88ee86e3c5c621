---------------------------- MODULE MCUdsService ----------------------------
(***************************************************************************)
(* UdsService for TLC: clients ask two ECUs, a flash asks one of them.     *)
(***************************************************************************)
EXTENDS UdsService

CONSTANTS engine, gearbox, session, clear

Ask(e, sid, timeout, long) == [ecu |-> e, sid |-> sid, timeout |-> timeout, long |-> long]

MCEcus == {engine, gearbox}
MCSids == {session, clear}
MCNrcs == {0, 120, 254, 255}

MCRequests == {Ask(engine, clear, 1, FALSE), Ask(engine, clear, 1, TRUE)}
MCFlashRequests == <<Ask(gearbox, session, 1, FALSE), Ask(gearbox, clear, 1, FALSE)>>

Form(positive, len, nrc) == [positive |-> positive, len |-> len, nrc |-> nrc]
MCForms == {Form(TRUE, 3, 0), Form(FALSE, 2, 0)}
MCOneByte == {Form(TRUE, 1, 0)}

=============================================================================
