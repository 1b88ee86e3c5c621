---------------------------- MODULE MCSettings ----------------------------
(***************************************************************************)
(* Settings for TLC: networks whose names fit, fill the field (32) and are *)
(* too long; an open one; a default network or none.                       *)
(***************************************************************************)
EXTENDS Settings

S(name, len) == [name |-> name, len |-> len]

MCSsids   == {S("home", 4), S("guest", 32), S("cellar", 33)}
MCPwds    == {Empty, S("key", 63)}
MCSpeeds  == {S("250k", 4), S("250 kbit/s", 10)}
MCDefault == S("lab", 3)
MCDefaultPwd == S("labkey", 8)
MCSpeed   == S("1m", 2)
=============================================================================
