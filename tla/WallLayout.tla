----------------------------- MODULE WallLayout -----------------------------
(***************************************************************************)
(* The layouts of the video wall, as pure operators.  The player decodes   *)
(* nine streams into the VPSS groups 0..8 and shows them on the windows    *)
(* (VO channels) 0..9 of one screen.  A mode number names a layout:        *)
(* 100 + c shows channel c alone, 140, 141 and 142 show four channels, and *)
(* 190 + c shows all nine with channel c in the large window 9.            *)
(*                                                                         *)
(* Translated from do_switch_all() of h27vdec/do_switch.c, which tears     *)
(* down the layout of previous_mode_all and builds the layout of cmd.      *)
(***************************************************************************)
EXTENDS Integers, FiniteSets

Channels == 0..8          \* decoded streams, one VPSS group each
Windows  == 0..9          \* VO channels of the layer, MAX_VOCHN of them
BigWindow == 9            \* the 1536 x 864 window of the nine-screen layout

SingleModes == 100..109
FourModes   == 140..149
NineModes   == 190..199

(***************************************************************************)
(* The <<group, window>> pairs the switcher binds when it enters mode m,   *)
(* and the pairs it unbinds when it leaves mode m.  They are written twice *)
(* in the code and must agree.                                             *)
(***************************************************************************)
BoundIn(m) ==
    CASE m \in SingleModes -> {<<m % 10, 0>>}
      [] m = 140           -> {<<i, i>> : i \in 0..3}
      [] m = 141           -> {<<i + 4, i>> : i \in 0..3}
      [] m = 142           -> {<<5, 0>>, <<6, 1>>, <<8, 2>>, <<7, 3>>}
      [] m \in NineModes   -> {<<i, IF i = m % 10 THEN BigWindow ELSE i>> : i \in Channels}
      [] OTHER             -> {}

\* Mutant: the camera layout is unbound as if 7 and 8 stood in order.
UnboundInOrder(m) ==
    IF m = 142 THEN {<<i + 5, i>> : i \in 0..3} ELSE BoundIn(m)

UnboundFrom(m) ==
    CASE m \in SingleModes                 -> {<<m % 10, 0>>}
      [] m \in FourModes /\ m % 10 = 0     -> {<<i, i>> : i \in 0..3}
      [] m \in FourModes /\ m % 10 = 1     -> {<<i + 4, i>> : i \in 0..3}
      [] m \in FourModes /\ m % 10 = 2     ->
            {<<i + 5, i>> : i \in 0..1} \cup {<<8, 2>>, <<7, 3>>}
      [] m \in NineModes                   ->
            {<<i, IF i = m % 10 THEN BigWindow ELSE i>> : i \in Channels}
      [] OTHER                             -> {}

(***************************************************************************)
(* HI_MPI_SYS_Bind and HI_MPI_SYS_UnBind, through                          *)
(* SAMPLE_COMM_VPSS_Bind_VO and SAMPLE_COMM_VPSS_UnBind_VO: a window has   *)
(* one source, so a bind to an occupied window, or from a group that was   *)
(* never created, fails and changes nothing; an unbind removes exactly the *)
(* pair it names.                                                          *)
(***************************************************************************)
Bind(b, new) ==
    b \cup {p \in new : p[1] \in Channels /\ \A q \in b : q[2] # p[2]}

Unbind(b, old) == b \ old

(***************************************************************************)
(* The windows SAMPLE_COMM_VO_StartChn enables for the family m \div 10,   *)
(* and those SAMPLE_COMM_VO_StopChn disables.                              *)
(***************************************************************************)
\* Mutant: one window too few for the nine screens.
StartedShort(family) ==
    CASE family = 10 -> 0..0 [] family = 14 -> 0..3 [] family = 19 -> 0..8 [] OTHER -> {}

StartedBy(family) ==
    CASE family = 10 -> 0..0          \* VO_MODE_1MUX
      [] family = 14 -> 0..3          \* VO_MODE_4CUS
      [] family = 19 -> 0..9          \* VO_MODE_9CUS
      [] OTHER       -> {}

StoppedBy(family) ==
    CASE family = 10 -> 0..0          \* VO_MODE_1MUX
      [] family = 14 -> 0..3          \* VO_MODE_4MUX
      [] family = 19 -> 0..9          \* VO_MODE_9MUX
      [] OTHER       -> {}

(***************************************************************************)
(* current_vdeio_display_mode and who_in_pos9 after entering mode m.       *)
(***************************************************************************)
DisplayOf(m, disp) ==
    CASE m \in SingleModes -> 1
      [] m \in FourModes   -> 4
      [] m \in NineModes   -> 9
      [] OTHER             -> disp

\* Mutant: the wrong modulus.
InBigModHundred(m, who) == IF m \in 190..198 THEN m % 100 ELSE who

InBigWindow(m, who) == IF m \in 190..198 THEN m % 10 ELSE who

(***************************************************************************)
(* The channels response_command() mutes (bck_not_show = 1) after the      *)
(* switch: their frames are dropped before they reach the ring buffer.     *)
(***************************************************************************)
\* Mutant: channel 8 forgotten in layout 141.
MutedButEight(m) ==
    CASE m = 140           -> 4..8
      [] m = 141           -> 0..3
      [] m = 142           -> 0..4
      [] m \in SingleModes -> Channels \ {m % 10}
      [] OTHER             -> {}

MutedIn(m) ==
    CASE m = 140           -> 4..8
      [] m = 141           -> 0..3 \cup {8}
      [] m = 142           -> 0..4
      [] m \in SingleModes -> Channels \ {m % 10}
      [] m = 201           -> Channels
      [] OTHER             -> {}

(***************************************************************************)
(* The titles.  An OSD region is [at, title, big]: the window it covers,   *)
(* the channel whose name it shows, and whether it is drawn in the         *)
(* selection colour.  HI_MPI_RGN_Create on a handle that already exists    *)
(* fails, and HI_Create_Osd_Reg() then destroys that handle.               *)
(***************************************************************************)
OsdDestroy(o, wins) == {r \in o : r.at \notin wins}

OsdInit(o, w, title, big) ==
    IF \E r \in o : r.at = w THEN OsdDestroy(o, {w})
                             ELSE o \cup {[at |-> w, title |-> title, big |-> big]}

(* The windows whose title is destroyed on leaving mode m, and the         *)
(* <<window, title>> pairs drawn on entering it.  In a nine-screen mode    *)
(* 190..198 there is one more call, HH_OSD_Init(cmd, ...), left out: it    *)
(* draws on no window of the wall.                                         *)
\* Mutant: the title of the large window is not destroyed.
ClearedButBig(m) ==
    CASE m \in NineModes   -> Channels
      [] m \in 140..142    -> 0..3
      [] m \in SingleModes -> {0}
      [] OTHER             -> {}

TitlesCleared(m) ==
    CASE m \in NineModes   -> Windows
      [] m \in 140..142    -> 0..3
      [] m \in SingleModes -> {0}
      [] OTHER             -> {}

\* Mutant: the titles of the camera layout in channel order.
DrawnInOrder(m) ==
    CASE m \in NineModes   -> {<<IF i = m % 10 THEN BigWindow ELSE i, i>> : i \in Channels}
      [] m = 140           -> {<<i, i>> : i \in 0..3}
      [] m = 141           -> {<<i - 4, i>> : i \in 4..7}
      [] m = 142           -> {<<i - 5, i>> : i \in 5..8}
      [] m \in SingleModes -> {<<0, m % 10>>}
      [] OTHER             -> {}

TitlesDrawn(m) ==
    CASE m \in NineModes   -> {<<IF i = m % 10 THEN BigWindow ELSE i, i>> : i \in Channels}
      [] m = 140           -> {<<i, i>> : i \in 0..3}
      [] m = 141           -> {<<i - 4, i>> : i \in 4..7}
      [] m = 142           -> {<<0, 5>>, <<1, 6>>, <<3, 7>>, <<2, 8>>}
      [] m \in SingleModes -> {<<0, m % 10>>}
      [] OTHER             -> {}

OsdSwitch(o, from, to) ==
    LET kept == OsdDestroy(o, TitlesCleared(from))
        old  == {r.at : r \in kept}
    IN  OsdDestroy(kept, {d[1] : d \in TitlesDrawn(to)})
          \cup {[at |-> d[1], title |-> d[2], big |-> FALSE] :
                    d \in {e \in TitlesDrawn(to) : e[1] \notin old}}
=============================================================================
