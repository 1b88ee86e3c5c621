----------------------------- MODULE MCIsoTpRx -----------------------------
(***************************************************************************)
(* IsoTpRx for TLC: an ECU with ids 8 apart (obd), one without (body), and *)
(* a node that broadcasts on an id of its own. MaxPayload is the largest   *)
(* length a First Frame can announce, here as in the code.                 *)
(***************************************************************************)
EXTENDS IsoTpRx, TLC

CONSTANTS obd, body

MCEcus   == {obd, body}
MCReqId  == [e \in MCEcus |-> IF e = obd THEN 2016 ELSE 1812]
MCRespId == [e \in MCEcus |-> IF e = obd THEN 2024 ELSE 1918]

\* Frames of 15 bytes: 6 + 7 + 2; of 8 bytes: 6 + 2.
MCMsgLens == [e \in MCEcus |-> IF e = obd THEN {15} ELSE {5, 8}]
MCMaxMsgs == [e \in MCEcus |-> IF e = obd THEN 2 ELSE 1]

Broadcast(pci, len, sn) ==
  [id |-> 256, pci |-> pci, len |-> len, sn |-> sn, m |-> 0, k |-> 0]

MCNoise == {Broadcast("FF", 3, 0), Broadcast("CF", 0, 1), Broadcast("OTHER", 0, 0)}

=============================================================================
