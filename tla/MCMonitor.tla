----------------------------- MODULE MCMonitor -----------------------------
(***************************************************************************)
(* The monitor with the cycle of serial_send_msg(): turns 0 and 2 ask      *)
(* nothing.  The faults are one the monitor looks for of each kind, one it *)
(* misses because it is too low and one because no byte is high enough.    *)
(***************************************************************************)
EXTENDS BoardMonitor

MCCycle == <<"none", "light", "none", "contrast", "temp", "temp1", "temp2",
             "b5", "b12", "b33", "b1", "status">>
MCFaults == {<<"b5", 255>>, <<"status", 0>>, <<"temp", 255>>, <<"b12", 0>>}
=============================================================================
