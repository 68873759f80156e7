------------------------- MODULE MCCaptureRecovery -------------------------
(* Two endpoints.  A card answers to "elgato", and so does the virtual     *)
(* device of its driver, which is also the only one called "wave".         *)
EXTENDS CaptureRecovery

CONSTANTS card, wave, elgato, exact

MCEndpoints == {card, wave}
MCNames     == {elgato, exact}
MCFullName  == [n \in MCNames |-> IF n = exact THEN {wave} ELSE {}]
MCPartName  == [n \in MCNames |-> IF n = elgato THEN {card, wave} ELSE {}]
ByName      == [id |-> NoEndpoint, name |-> elgato]
Pinned      == [id |-> wave, name |-> exact]
TwoRefs     == {ByName, Pinned}
OneRef      == {ByName}
=============================================================================
