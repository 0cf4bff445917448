----------------------------- MODULE VideoWall ------------------------------
(***************************************************************************)
(* What the operator is promised: the wall always shows the whole layout   *)
(* of one mode, and remembers the mode it showed before.                   *)
(*                                                                         *)
(* The abstract specification of DisplaySwitch, with none of its handlers, *)
(* locks, bind lists or mute flags.                                        *)
(***************************************************************************)
EXTENDS Integers

CONSTANT Modes     \* the mode numbers the wall may be switched to, integers

VARIABLES
    layout,   \* the mode on screen
    last,     \* the mode before it
    shown     \* the channel each window shows, or Dark

wallVars == <<layout, last, shown>>

Screens == 0..9
Sources == 0..8
Dark    == -1

(***************************************************************************)
(* The picture of a mode: one source alone; four sources, of which 142 has *)
(* the last two exchanged; or all of them with one in the large window 9.  *)
(***************************************************************************)
Picture(m) ==
    [w \in Screens |->
        CASE m \in 100..108 /\ w = 0                        -> m - 100
          [] m = 140 /\ w \in 0..3                          -> w
          [] m = 141 /\ w \in 0..3                          -> w + 4
          [] m = 142 /\ w \in 0..1                          -> w + 5
          [] m = 142 /\ w \in 2..3                          -> 10 - w
          [] m \in 190..198 /\ w = 9                        -> m - 190
          [] m \in 190..199 /\ w \in Sources /\ m # 190 + w -> w
          [] OTHER                                          -> Dark]

Init == layout = 190 /\ last = 190 /\ shown = Picture(190)

Show ==
    /\ layout' \in Modes
    /\ last' = layout
    /\ shown' = Picture(layout')

Spec == Init /\ [][Show]_wallVars
=============================================================================
