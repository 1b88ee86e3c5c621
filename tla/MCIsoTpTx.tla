----------------------------- MODULE MCIsoTpTx -----------------------------
(***************************************************************************)
(* IsoTpTx for TLC: two callers, one ECU each.                             *)
(***************************************************************************)
EXTENDS IsoTpTx

CONSTANTS uds, runner, engine, gearbox

MCCallers == {uds, runner}
MCEcus    == {engine, gearbox}
MCPeer    == [c \in MCCallers |-> IF c = uds THEN engine ELSE gearbox]

\* One and three frames: 5; 6 + 7 + 2 bytes.
MCLens    == {5, 15}

\* No limits; a pause for a Flow Control and 500 us after every frame.
MCFcParams == {<<0, 0>>, <<1, 245>>}

=============================================================================
