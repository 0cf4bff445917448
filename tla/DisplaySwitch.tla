--------------------------- MODULE DisplaySwitch ----------------------------
(***************************************************************************)
(* The operator's keys and the video wall: h27vdec/do_switch.c.            *)
(*                                                                         *)
(* A key of the infrared remote raises SIGUSR1, a key of the panel SIGUSR2.*)
(* The signal handlers read the key and call response_command(), which     *)
(* works out a mode (set_cmd) and, for the keys that execute, rebuilds the *)
(* wall (do_switch_all) and mutes the channels it no longer shows.         *)
(*                                                                         *)
(* The handlers take the process mutex in several sections, and read and   *)
(* write the globals between those sections too.  A handler is one run of  *)
(* a signal handler; its program counter stands at                         *)
(*   "test"    the test key: is the LED thread busy?                       *)
(*   "signal"  no: a second section signals it,                            *)
(*   "adjust"  the first section of set_cmd(): key number by display mode, *)
(*   "check"   the unlocked test for the single screen,                    *)
(*   "move"    the second section: move the cursor,                        *)
(*   "confirm" back in response_command(), unlocked: write cmd_confirm,    *)
(*   "accept"  read it again, still unlocked: is it a mode?                *)
(*   "switch"  the section that rebuilds the wall for cmd_confirm,         *)
(*   "mute"    the same section, after do_switch_all(): cmd_confirm again. *)
(* The driver signals the process, so that any thread may take the signal: *)
(* one of the Threads that take the same mutex (the readers, the RTSP      *)
(* client and the LED pattern), inside their section or outside it; one    *)
(* that runs another handler; or one of those that never hold the mutex.   *)
(* What is interrupted stands still until the handler returns.             *)
(***************************************************************************)
EXTENDS WallLayout

CONSTANTS
    Handlers,    \* the runs of a signal handler that may be active at a time
    Device,      \* Device[h]: "iic", the remote, or "key", the panel
    Keys,        \* Keys[h]: the key codes run h may read
    Threads,     \* the threads that take the mutex in their loops
    Nested,      \* TRUE if a signal may be taken on one of those, or on a handler
    Garbage,     \* what the uninitialised move_complete_cmd may hold
    None

ASSUME HandlersAssumption == None \notin Handlers \cup Threads /\ Handlers \cap Threads = {}
ASSUME DeviceAssumption   == Device \in [Handlers -> {"iic", "key"}]
ASSUME KeysAssumption     == Keys \in [Handlers -> SUBSET (0..255)]
ASSUME NestedAssumption   == Nested \in BOOLEAN
ASSUME GarbageAssumption  == Garbage \subseteq Int

VARIABLES
    prev,      \* previous_mode_all, the mode on screen
    tow,       \* previous_tow_mode, the mode before it
    disp,      \* current_vdeio_display_mode: 9, 4 or 1
    who,       \* who_in_pos9
    confirm,   \* cmd_confirm, the mode the confirm key switches to
    four,      \* witch_mode_4
    pos,       \* msg->pos[0..1], the cursor before and after a move
    mute,      \* msg->bck_not_show[0..8]; entry 9 is the word behind it
    bound,     \* the bound <<VPSS group, VO channel>> pairs
    vo,        \* the enabled VO channels
    osd,       \* the OSD regions on the windows
    mutex,     \* the holder of the process mutex, or None
    pc, sig, ret, exec,  \* per handler: where it is, and its locals
    under      \* per handler: the handler or thread it interrupts, or None

wall  == <<prev, tow, disp, who, bound, vo, mute>>
frame == <<pc, sig, ret, exec>>
vars  == <<prev, tow, disp, who, confirm, four, pos, mute, bound, vo, osd,
           mutex, pc, sig, ret, exec, under>>

EndPosInit == 24883200   \* the initial windexEndPos[0]

(***************************************************************************)
(* The key codes and the commands response_command() maps them to.  The    *)
(* remote's lookup falls back to entry 0; of the panel's codes only the    *)
(* releases 16#80 + k are commands.                                        *)
(***************************************************************************)
RemoteCmd == <<200, 140, 53, 52, 60, 50, 51, 201, 202, 140, 141, 142>>
PanelCmd  == <<202, 60, 204, 203, 142, 200, 141, 140>>

Code(h, k) == IF Device[h] = "iic" /\ k \notin 0..11 THEN 0 ELSE k

CmdOf(code) ==
    CASE code \in 0..11    -> RemoteCmd[code + 1]
      [] code \in 128..135 -> PanelCmd[code - 127]
      [] OTHER             -> code

IsCommand(h, k) == IF Device[h] = "iic" THEN k # 255 ELSE k \notin 0..7

(***************************************************************************)
(* Init: the nine-screen layout main() starts with, channel 0 in the large *)
(* window and its title there and on the empty window 0; who_in_pos9 = 9.  *)
(***************************************************************************)
Init ==
    /\ prev = 190 /\ tow = 190 /\ disp = 9 /\ who = 9
    /\ confirm = 0 /\ four = 0
    /\ pos = [i \in 0..1 |-> 0]
    /\ mute = [c \in 0..9 |-> IF c = 9 THEN EndPosInit ELSE -1]
    /\ bound = BoundIn(190)
    /\ vo = StartedBy(19)
    /\ osd = OsdSwitch({}, 0, 190) \cup {[at |-> 0, title |-> 0, big |-> FALSE]}
    /\ mutex = None
    /\ pc   = [h \in Handlers |-> "idle"]
    /\ sig  = [h \in Handlers |-> 0]
    /\ ret  = [h \in Handlers |-> 0]
    /\ exec = [h \in Handlers |-> FALSE]
    /\ under = [h \in Handlers |-> None]

Active(h)       == pc[h] # "idle"
Interrupted(x)  == \E g \in Handlers : under[g] = x
Runs(h)         == Active(h) /\ ~Interrupted(h)
LockPoints      == {"test", "signal", "adjust", "move", "switch"}

(***************************************************************************)
(* The first part of set_cmd(): the keys that do not move the cursor.      *)
(***************************************************************************)
Special == {60, 140, 141, 142, 200, 202}

SpecialRet(cmd) == CASE cmd = 200 -> 190
                     [] cmd = 202 -> tow
                     [] cmd = 60  -> 0
                     [] OTHER     -> cmd

(* Where a signal may be taken: on a thread that holds no handler yet, or  *)
(* on top of a handler, if that is of the other device and has not itself  *)
(* interrupted one: a handler runs with its own signal blocked.            *)
Takers(h) ==
    {t \in Threads : ~Interrupted(t)}
      \cup {g \in Handlers : Runs(g) /\ Device[g] # Device[h] /\ under[g] \notin Handlers}

Press(h, k) ==
    LET cmd == CmdOf(Code(h, k)) IN
    /\ ~Active(h)
    /\ IsCommand(h, k)
    /\ \E x \in {None} \cup {y \in Takers(h) : Nested} : under' = [under EXCEPT ![h] = x]
    /\ sig' = [sig EXCEPT ![h] = cmd]
    /\ pc' = [pc EXCEPT ![h] = CASE cmd \in Special -> "confirm"
                                 [] cmd = 201       -> "test"
                                 [] OTHER           -> "adjust"]
    /\ ret' = [ret EXCEPT ![h] = IF cmd \in Special THEN SpecialRet(cmd) ELSE 0]
    /\ exec' = [exec EXCEPT ![h] = cmd \in Special]
    /\ four' = IF cmd \in 140..142 THEN cmd ELSE four
    /\ UNCHANGED <<wall, confirm, pos, osd, mutex>>

Lock(h) ==
    /\ Runs(h)
    /\ pc[h] \in LockPoints
    /\ mutex = None
    /\ mutex' = h
    /\ UNCHANGED <<wall, confirm, four, pos, osd, frame, under>>

Unlock(h) == mutex = h /\ mutex' = None

(* The test key looks whether the LED thread is busy and otherwise signals *)
(* its condition variable, in a second section.                            *)
Test(h) ==
    /\ Runs(h) /\ pc[h] = "test"
    /\ Unlock(h)
    /\ \E next \in {"signal", "confirm"} : pc' = [pc EXCEPT ![h] = next]
    /\ UNCHANGED <<wall, confirm, four, pos, osd, sig, ret, exec, under>>

\* Mutant: the section is not left.
SignalKeepsLock(h) ==
    /\ Runs(h) /\ pc[h] = "signal"
    /\ mutex = h
    /\ pc' = [pc EXCEPT ![h] = "confirm"]
    /\ UNCHANGED <<wall, confirm, four, pos, osd, mutex, sig, ret, exec, under>>

Signal(h) ==
    /\ Runs(h) /\ pc[h] = "signal"
    /\ Unlock(h)
    /\ pc' = [pc EXCEPT ![h] = "confirm"]
    /\ UNCHANGED <<wall, confirm, four, pos, osd, sig, ret, exec, under>>

(***************************************************************************)
(* The move keys.  Adjust turns the key number into a case of the switch   *)
(* statement according to the display mode, and pulls a cursor from        *)
(* outside the layout back to window 0.                                    *)
(***************************************************************************)
\* Mutant: the cursor is not taken home.
CursorKept == pos

CursorHome == [i \in 0..1 |-> 0]

Adjust(h) ==
    /\ Runs(h) /\ pc[h] = "adjust"
    /\ Unlock(h)
    /\ sig' = [sig EXCEPT ![h] = CASE disp = 9                         -> @ + 5
                                   [] disp = 4 /\ @ \in {203, 204}    -> @ + 10
                                   [] disp = 4 /\ @ \notin {203, 204} -> @ - 5
                                   [] OTHER                            -> @]
    /\ pos' = CASE disp = 9 /\ \E i \in 0..1 : pos[i] \notin 0..9 -> CursorHome
                [] disp = 4 /\ pos[0] > 3                         -> [pos EXCEPT ![0] = 0]
                [] OTHER                                          -> pos
    /\ pc' = [pc EXCEPT ![h] = "check"]
    /\ UNCHANGED <<wall, confirm, four, osd, ret, exec, under>>

Check(h) ==
    /\ Runs(h) /\ pc[h] = "check"
    /\ pc' = [pc EXCEPT ![h] = IF disp = 1 THEN "confirm" ELSE "move"]
    /\ UNCHANGED <<wall, confirm, four, pos, osd, mutex, sig, ret, exec, under>>

(* Nine screens: windows 0..4 along the bottom edge, 5..8 up the right     *)
(* edge, the large one inside.  208 and 209 run round them, 55 to 58 are   *)
(* right, down, left and up.                                               *)
NineStep(s, p) ==
    CASE \/ s = 208 /\ p \in 1..8
         \/ s = 56 /\ p \in 5..8
         \/ s = 57 /\ p \in 1..4                 -> "back"
      [] \/ s = 209 /\ p \in 0..7
         \/ s = 55 /\ p < 4
         \/ s = 58 /\ p \in 4..7                 -> "ahead"
      [] \/ s = 208 /\ p = 0
         \/ s = 209 /\ p = 8
         \/ s = 57 /\ p \in 5..8
         \/ s = 58 /\ p < 4                      -> "big"
      [] s \in {208, 55} /\ p = 9                -> "eight"
      [] s \in {209, 56} /\ p = 9                -> "zero"
      [] OTHER                                   -> "stay"

NineTo(step) == CASE step = "back"  -> pos[1] - 1
                  [] step = "ahead" -> pos[1] + 1
                  [] step = "big"   -> BigWindow
                  [] step = "eight" -> 8
                  [] step = "zero"  -> 0
                  [] OTHER          -> pos[1]

NineTitle(p) == IF p = BigWindow THEN who ELSE p

(* The command a move selects.                                             *)
\* Mutant: the base of the nine-screen modes for the large window.
BigSelectsNine(s, step, to) ==
    IF step = "stay" /\ s \notin {55, 56} THEN Garbage
    ELSE {190 + (IF step = "big" THEN who ELSE to)}

NineSelects(s, step, to) ==
    CASE step = "big"                       -> {who + 100}
      [] step = "stay" /\ s \notin {55, 56} -> Garbage
      [] OTHER                              -> {to + 190}

(* What a move yields: the new cursor, the command it selects, and the     *)
(* titles it redraws, <<window, title>> of the old and the new window.     *)
NineMove(s) ==
    LET step == NineStep(s, pos[0])
        to   == NineTo(step)
    IN  [to    |-> to,
         ret   |-> NineSelects(s, step, to),
         drawn |-> IF step = "stay" THEN {}
                   ELSE {<<pos[0], NineTitle(pos[0]),
                           to, IF step = "big" THEN who ELSE to>>}]

(* Four screens, window 0 over 1 on the left and 2 over 3 on the right.    *)
FourTo(s) ==
    CASE s = 213 /\ pos[0] \in 0..3 -> <<2, 0, 3, 1>>[pos[0] + 1]
      [] s = 214 /\ pos[0] \in 0..3 -> <<1, 3, 0, 2>>[pos[0] + 1]
      [] s = 45 /\ pos[0] \in 0..1  -> pos[0] + 2
      [] s = 46 /\ pos[0] \in {0, 2} -> pos[0] + 1
      [] s = 47 /\ pos[0] \in 2..3  -> pos[0] - 2
      [] s = 48 /\ pos[0] \in {1, 3} -> pos[0] - 1
      [] OTHER                      -> pos[1]

Rotations == {213, 214}

(* The titles an arrow draws in mode 142, by case and by the new cursor:   *)
(* what is added to the old and to the new window number.                  *)
Arrow142 == {<<45, 3, 5, 4>>, <<45, 2, 5, 6>>, <<46, 1, 5, 5>>, <<46, 3, 6, 4>>,
             <<47, 1, 4, 5>>, <<47, 0, 6, 5>>, <<48, 0, 5, 5>>, <<48, 2, 4, 6>>}

FourOffsets(s, to) ==
    CASE four = 140                      -> {<<0, 0>>}
      [] four = 141                      -> {<<4, 4>>}
      [] four = 142 /\ s \in Rotations   -> {<<5, 5>>}
      [] four = 142 /\ s \notin Rotations ->
            {<<a[3], a[4]>> : a \in {b \in Arrow142 : b[1] = s /\ b[2] = to}}
      [] OTHER                           -> {}

FourMove(s) ==
    LET to == FourTo(s)
        d  == FourOffsets(s, to)
    IN  [to    |-> to,
         ret   |-> IF d = {} THEN Garbage ELSE {to + 100 + e[2] : e \in d},
         drawn |-> {<<pos[0], pos[0] + e[1], to, to + e[2]>> : e \in d}]

NoMove == [to |-> pos[1], ret |-> Garbage, drawn |-> {}]

MoveOf(s) == CASE s \in {55, 56, 57, 58, 208, 209} -> NineMove(s)
               [] s \in {45, 46, 47, 48} \cup Rotations -> FourMove(s)
               [] OTHER                            -> NoMove

\* Mutant: the old window stays highlighted.
RedrawKeepsColour(o, d) ==
    LET old == OsdInit(OsdDestroy(o, {d[1]}), d[1], d[2], TRUE)
    IN  OsdInit(OsdDestroy(old, {d[3]}), d[3], d[4], TRUE)

(* Redraw the old window plain, then the new one in the selection colour.  *)
Redraw(o, d) ==
    LET plain == OsdInit(OsdDestroy(o, {d[1]}), d[1], d[2], FALSE)
    IN  OsdInit(OsdDestroy(plain, {d[3]}), d[3], d[4], TRUE)

Move(h) ==
    LET m == MoveOf(sig[h]) IN
    /\ Runs(h) /\ pc[h] = "move"
    /\ Unlock(h)
    /\ \E r \in m.ret : ret' = [ret EXCEPT ![h] = r]
    /\ pos' = [i \in 0..1 |-> m.to]
    /\ osd' = IF m.drawn = {} THEN osd ELSE Redraw(osd, CHOOSE d \in m.drawn : TRUE)
    /\ pc' = [pc EXCEPT ![h] = "confirm"]
    /\ UNCHANGED <<wall, confirm, four, sig, exec, under>>

(***************************************************************************)
(* Back in response_command(): remember the selected mode, refuse what is  *)
(* no mode, and go on to the switch only if the key executes.              *)
(***************************************************************************)
\* Mutant: no range check.
AcceptedAny(c) == TRUE

Accepted(c) == c \in 140..149 \cup 100..109 \cup 190..205

Confirm(h) ==
    /\ Runs(h) /\ pc[h] = "confirm"
    /\ confirm' = IF ret[h] # 0 THEN ret[h] ELSE confirm
    /\ pc' = [pc EXCEPT ![h] = "accept"]
    /\ UNCHANGED <<wall, four, pos, osd, mutex, sig, ret, exec, under>>

Return(h) ==
    /\ pc' = [pc EXCEPT ![h] = "idle"]
    /\ sig' = [sig EXCEPT ![h] = 0]
    /\ ret' = [ret EXCEPT ![h] = 0]
    /\ exec' = [exec EXCEPT ![h] = FALSE]
    /\ under' = [under EXCEPT ![h] = None]

Accept(h) ==
    /\ Runs(h) /\ pc[h] = "accept"
    /\ \/ /\ exec[h] /\ Accepted(confirm)
          /\ pc' = [pc EXCEPT ![h] = "switch"]
          /\ UNCHANGED <<sig, ret, exec, under>>
       \/ /\ ~(exec[h] /\ Accepted(confirm))
          /\ Return(h)
    /\ UNCHANGED <<wall, confirm, four, pos, osd, mutex>>

Rebuild(m) ==
    /\ bound' = Bind(Unbind(bound, UnboundFrom(prev)), BoundIn(m))
    /\ vo' = IF prev \div 10 = m \div 10 THEN vo
             ELSE (vo \ StoppedBy(prev \div 10)) \cup StartedBy(m \div 10)
    /\ disp' = DisplayOf(m, disp)
    /\ who' = InBigWindow(m, who)
    /\ osd' = OsdSwitch(osd, prev, m)
    /\ tow' = prev
    /\ prev' = m

\* Mutant: the flags of the last mode are not cleared.
FlagsKept == mute

AllShown == [c \in 0..9 |-> -1]

Switch(h) ==
    /\ Runs(h) /\ pc[h] = "switch" /\ mutex = h
    /\ mute' = AllShown
    /\ Rebuild(confirm)
    /\ pos' = CursorHome
    /\ pc' = [pc EXCEPT ![h] = "mute"]
    /\ UNCHANGED <<confirm, four, mutex, sig, ret, exec, under>>

Mute(h) ==
    /\ Runs(h) /\ pc[h] = "mute"
    /\ Unlock(h)
    /\ mute' = [c \in 0..9 |-> IF c \in MutedIn(confirm) THEN 1 ELSE mute[c]]
    /\ Return(h)
    /\ UNCHANGED <<prev, tow, disp, who, bound, vo,
                   confirm, four, pos, osd>>

Step(h) == \/ Lock(h) \/ Test(h) \/ Signal(h) \/ Adjust(h) \/ Check(h) \/ Move(h)
           \/ Confirm(h) \/ Accept(h) \/ Switch(h) \/ Mute(h)

(***************************************************************************)
(* The other threads: the readers look at and move their ring buffer's     *)
(* indices, the RTSP client stores a frame, the LED pattern says it is     *)
(* busy, each in short sections under the same mutex.  What they do there  *)
(* is in RingBuffer and LedPanel; here they only hold it.                  *)
(***************************************************************************)
Take(t) ==
    /\ ~Interrupted(t)
    /\ mutex = None
    /\ mutex' = t
    /\ UNCHANGED <<wall, confirm, four, pos, osd, frame, under>>

Release(t) ==
    /\ ~Interrupted(t)
    /\ Unlock(t)
    /\ UNCHANGED <<wall, confirm, four, pos, osd, frame, under>>

Next == \/ \E h \in Handlers : Step(h) \/ \E k \in Keys[h] : Press(h, k)
        \/ \E t \in Threads : Take(t) \/ Release(t)

(***************************************************************************)
(* A thread that can run does run, and a handler that keeps finding the    *)
(* mutex free gets it in the end: keys come at human pace, the sections    *)
(* under the mutex are finite.  No thread need ever ask for the mutex.     *)
(***************************************************************************)
Fairness == /\ \A h \in Handlers : WF_vars(Step(h)) /\ SF_vars(Lock(h))
            /\ \A t \in Threads : WF_vars(Release(t))

Spec     == Init /\ [][Next]_vars
FairSpec == Spec /\ Fairness
-----------------------------------------------------------------------------
TypeOK ==
    /\ prev \in Int /\ tow \in Int /\ confirm \in Int
    /\ disp \in {1, 4, 9}
    /\ who \in 0..9
    /\ four \in {0} \cup 140..142
    /\ pos \in [0..1 -> Int]
    /\ mute \in [0..9 -> {-1, 1, EndPosInit}]
    /\ bound \subseteq Channels \X Windows
    /\ vo \subseteq Windows
    /\ osd \subseteq [at : Int, title : Int, big : BOOLEAN]
    /\ mutex \in Handlers \cup Threads \cup {None}
    /\ pc \in [Handlers -> {"idle", "confirm", "accept", "check", "mute"} \cup LockPoints]
    /\ sig \in [Handlers -> Int]
    /\ ret \in [Handlers -> Int]
    /\ exec \in [Handlers -> BOOLEAN]
    /\ under \in [Handlers -> Handlers \cup Threads \cup {None}]

(***************************************************************************)
(* The wall shows the layout it says it shows: do_switch_all() unbinds     *)
(* with one list of pairs and binds with another, and whatever the path    *)
(* from mode to mode, the pairs bound are those of previous_mode_all.      *)
(***************************************************************************)
BindingsMatchMode == bound = {p \in BoundIn(prev) : p[1] \in Channels}

(***************************************************************************)
(* A channel that is bound is bound to an enabled window: the windows are  *)
(* only stopped and started when the family of the mode changes.           *)
(***************************************************************************)
BoundWindowsEnabled == {p[2] : p \in bound} \subseteq vo

(***************************************************************************)
(* A channel on screen is not muted: response_command() writes the mute    *)
(* flags after do_switch_all(), from a second reading of cmd_confirm.      *)
(***************************************************************************)
ShownNotMuted == \A p \in bound : mute[p[1]] # 1

(***************************************************************************)
(* A channel off screen is muted once the handler is done: its stream      *)
(* would otherwise fill a decoder nobody looks at.                         *)
(***************************************************************************)
HiddenMuted ==
    (\A h \in Handlers : pc[h] # "mute") =>
        \A c \in Channels : mute[c] # 1 => \E p \in bound : p[1] = c

(***************************************************************************)
(* The cursor is on a window of the layout on screen.                      *)
(***************************************************************************)
CursorOnScreen == pos[0] = pos[1] /\ pos[1] \in vo

(***************************************************************************)
(* Every bound window carries a title, although a create that meets an     *)
(* existing region destroys it.                                            *)
(***************************************************************************)
EveryWindowTitled == \A p \in bound : \E r \in osd : r.at = p[2]

(***************************************************************************)
(* At most one window is drawn in the selection colour, the cursor's.      *)
(***************************************************************************)
HighlightAtCursor == \A r \in osd : r.big => r.at = pos[1]

(***************************************************************************)
(* What the operator sees is what is there: at rest, the title on a window *)
(* names the channel bound to it, once a nine-screen mode has been chosen  *)
(* (until then who_in_pos9 is 9, a channel that does not exist, although   *)
(* channel 0 is in the large window).  Four screens are excepted when      *)
(* witch_mode_4 names others than those on screen: the back key and the    *)
(* uninitialised local lead there without it.                              *)
(***************************************************************************)
AtRest == \A h \in Handlers : ~Active(h)

FourKnown == disp = 4 => four = prev

TitlesMatchBindings ==
    AtRest /\ who \in Channels /\ FourKnown =>
        \A r \in osd : \A p \in bound : p[2] = r.at => p[1] = r.title

(***************************************************************************)
(* The confirm key does what the highlight says: if it would switch at     *)
(* all, it switches to the nine-screen mode that enlarges the highlighted  *)
(* small window, or to the channel named on any other highlighted window.  *)
(* The exception is a window with an arrow that leads nowhere: that arrow  *)
(* returns an uninitialised local, which may be the mode of an earlier     *)
(* move and is stored as if it had been chosen.                            *)
(***************************************************************************)
DeadEnds == {p \in Windows : \E s \in {57, 58, 208, 209} : NineStep(s, p) = "stay"}

Highlighted(r) == IF disp = 9 /\ r.at # BigWindow THEN 190 + r.at ELSE 100 + r.title

ConfirmActsOnHighlight ==
    AtRest =>
        \A r \in osd : r.big /\ Accepted(confirm) =>
            \/ confirm = Highlighted(r)
            \/ disp = 9 /\ r.at \in DeadEnds /\ confirm \in Garbage

(***************************************************************************)
(* The abstract wall: do_switch_all() shows the whole picture of an        *)
(* accepted mode in one step, through all the unbinding and rebinding.     *)
(***************************************************************************)
PictureOf(b) == [w \in Windows |-> IF \E c \in Channels : <<c, w>> \in b
                                   THEN CHOOSE c \in Channels : <<c, w>> \in b
                                   ELSE -1]

Wall == INSTANCE VideoWall WITH Modes  <- 140..149 \cup 100..109 \cup 190..205,
                                layout <- prev, last <- tow, shown <- PictureOf(bound)

ImplementsVideoWall == Wall!Spec

(***************************************************************************)
(* A handler that wants the mutex its own thread holds, in the section of  *)
(* the thread or of a handler it has interrupted, waits for itself: the    *)
(* mutex is not recursive.                                                 *)
(***************************************************************************)
Beneath(h) ==
    {under[h]} \cup {under[g] : g \in {f \in Handlers : under[h] = f}}

SelfDeadlock ==
    \E h \in Handlers : pc[h] \in LockPoints /\ mutex # None /\ mutex \in Beneath(h)

(***************************************************************************)
(* A key press is worked off, whichever thread takes its signal: its       *)
(* handler returns, unless some handler has been taken inside a section of *)
(* its own thread and waits for itself.                                    *)
(***************************************************************************)
HandlerReturns == \A h \in Handlers : Active(h) ~> (~Active(h) \/ SelfDeadlock)
=============================================================================
