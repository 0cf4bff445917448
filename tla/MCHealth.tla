------------------------------ MODULE MCHealth ------------------------------
(***************************************************************************)
(* The monitor, with a short cycle of the same gaps, and the lamps.        *)
(***************************************************************************)
EXTENDS LedPanel

ShortCycle == <<"none", "light", "none", "b5", "status">>
ShortFaults == {<<"b5", 255>>}
=============================================================================
