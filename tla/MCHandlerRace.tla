---------------------------- MODULE MCHandlerRace ---------------------------
(***************************************************************************)
(* DisplaySwitch with the remote and the panel in use together, for a      *)
(* bounded number of key presses: every order of their steps.              *)
(***************************************************************************)
EXTENDS DisplaySwitch, TLC

CONSTANT MaxPresses

VARIABLE presses     \* the presses so far, at most MaxPresses

\* Every key of both devices; the remote's 1 and 9 are the same command.
BothKeys == "iic" :> (0..11 \ {9}) @@ "key" :> 128..135
ByDevice == [h \in Handlers |-> h]

\* A second run for the remote: the signal of the next key, on another thread.
TwoRuns  == "iic" :> "iic" @@ "iic2" :> "iic" @@ "key" :> "key"
SomeKeys == "iic" :> {3, 4, 7, 11} @@ "iic2" :> {1, 4, 8} @@ "key" :> {130, 133}

RaceInit == Init /\ presses = 0

RaceNext ==
    \/ \E h \in Handlers : Step(h) /\ UNCHANGED presses
    \/ \E t \in Threads : (Take(t) \/ Release(t)) /\ UNCHANGED presses
    \/ /\ presses < MaxPresses
       /\ presses' = presses + 1
       /\ \E h \in Handlers : \E k \in Keys[h] : Press(h, k)

RaceSpec == RaceInit /\ [][RaceNext]_<<vars, presses>> /\ Fairness

(***************************************************************************)
(* When the handlers are done the decoders feed the screen: the channels   *)
(* on screen are the ones marked -1, "displayed normally", and none of     *)
(* them is marked 1, "not displayed" (sample_vdec.cpp:653).                *)
(***************************************************************************)
RestingWallPlays == (\A h \in Handlers : ~Active(h)) => ShownNotMuted
=============================================================================
