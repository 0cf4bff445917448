------------------------------ MODULE MCPlayer ------------------------------
(***************************************************************************)
(* Player with a layout of each family: one channel alone, channels moved  *)
(* to lower windows (as modes 141 and 142 do), and all of them, with       *)
(* another channel than 0 in the large window.                             *)
(***************************************************************************)
EXTENDS Player

SmallLayouts == {
    {<<NChn - 1, 0>>},
    {<<c, c - 1>> : c \in Chn \ {0}},
    {<<c, IF c = 1 THEN Big ELSE c>> : c \in Chn}}
=============================================================================
