------------------------ MODULE DisplaySwitch_proofs ------------------------
(***************************************************************************)
(* Theorems about DisplaySwitch, for any handlers, keys, threads and       *)
(* garbage.                                                                *)
(***************************************************************************)
EXTENDS DisplaySwitch, TLAPS

(***************************************************************************)
(* The layouts, mode by mode.                                              *)
(***************************************************************************)

\* do_switch_all() unbinds the pairs it bound, for every mode number.
LEMMA UnbindsWhatItBound ==
    ASSUME NEW m \in Int
    PROVE  UnboundFrom(m) = BoundIn(m)
<1>1. CASE m \in SingleModes
  BY <1>1 DEF UnboundFrom, BoundIn, SingleModes
<1>2. CASE m \in NineModes
  BY <1>2 DEF UnboundFrom, BoundIn, SingleModes, FourModes, NineModes
<1>3. CASE m = 140
  BY <1>3 DEF UnboundFrom, BoundIn, SingleModes, FourModes, NineModes
<1>4. CASE m = 141
  BY <1>4 DEF UnboundFrom, BoundIn, SingleModes, FourModes, NineModes
<1>5. CASE m = 142
  <2>1. {<<i + 5, i>> : i \in 0..1} \cup {<<8, 2>>, <<7, 3>>}
          = {<<5, 0>>, <<6, 1>>, <<8, 2>>, <<7, 3>>}
    <3>1. 0..1 = {0, 1}
      OBVIOUS
    <3> QED BY <3>1
  <2> QED BY <1>5, <2>1 DEF UnboundFrom, BoundIn, SingleModes, FourModes, NineModes
<1>6. CASE m \notin SingleModes \cup NineModes \cup {140, 141, 142}
  BY <1>6 DEF UnboundFrom, BoundIn, SingleModes, FourModes, NineModes
<1> QED BY <1>1, <1>2, <1>3, <1>4, <1>5, <1>6

\* One source per window within every layout.
LEMMA OneSourcePerWindow ==
    ASSUME NEW m \in Int, NEW p \in BoundIn(m), NEW q \in BoundIn(m), p[2] = q[2]
    PROVE  p = q
BY DEF BoundIn, SingleModes, NineModes, Channels, BigWindow

\* One window per source within every layout.
LEMMA OneWindowPerSource ==
    ASSUME NEW m \in Int, NEW p \in BoundIn(m), NEW q \in BoundIn(m), p[1] = q[1]
    PROVE  p = q
BY DEF BoundIn, SingleModes, NineModes, Channels, BigWindow

\* A layout uses the windows its family starts.
LEMMA LayoutUsesStartedWindows ==
    ASSUME NEW m \in Int, NEW p \in BoundIn(m)
    PROVE  p[2] \in StartedBy(m \div 10)
BY DEF BoundIn, StartedBy, SingleModes, NineModes, Channels, BigWindow

\* No layout mutes a channel it shows.
LEMMA LayoutMutesNoShownChannel ==
    ASSUME NEW m \in Int, NEW p \in BoundIn(m)
    PROVE  p[1] \notin MutedIn(m)
BY DEF BoundIn, MutedIn, SingleModes, NineModes, Channels, BigWindow
-----------------------------------------------------------------------------
LEMMA ReturnsTyped == ASSUME NEW h \in Handlers, TypeOK, Return(h)
    PROVE  /\ pc' \in [Handlers -> {"idle", "confirm", "accept", "check", "mute"} \cup LockPoints]
           /\ sig' \in [Handlers -> Int] /\ ret' \in [Handlers -> Int]
           /\ exec' \in [Handlers -> BOOLEAN]
           /\ under' \in [Handlers -> Handlers \cup Threads \cup {None}]
BY DEF TypeOK, Return

LEMMA CommandTyped ==
    ASSUME NEW h \in Handlers, NEW k \in 0..255
    PROVE  CmdOf(Code(h, k)) \in Int
<1>1. Code(h, k) \in 0..255
  BY DEF Code
<1>2. \A c \in 0..255 : CmdOf(c) \in Int
  BY DEF CmdOf, RemoteCmd, PanelCmd
<1> QED BY <1>1, <1>2

LEMMA MoveTyped ==
    ASSUME NEW s \in Int, TypeOK
    PROVE  /\ MoveOf(s).to \in Int
           /\ MoveOf(s).ret \subseteq Int
           /\ MoveOf(s).drawn \subseteq Int \X Int \X Int \X Int
<1> USE GarbageAssumption
<1>1. pos[0] \in Int /\ pos[1] \in Int /\ who \in Int
  BY DEF TypeOK
<1>2. CASE s \in {55, 56, 57, 58, 208, 209}
  <2> DEFINE step == NineStep(s, pos[0])
  <2>1. NineTo(step) \in Int
    BY <1>1 DEF NineTo, BigWindow
  <2>2. NineSelects(s, step, NineTo(step)) \subseteq Int
    BY <1>1, <2>1 DEF NineSelects
  <2>3. NineTitle(pos[0]) \in Int
    BY <1>1 DEF NineTitle, BigWindow
  <2>4. MoveOf(s) = NineMove(s)
    BY <1>2 DEF MoveOf, Rotations
  <2> QED BY <1>1, <2>1, <2>2, <2>3, <2>4 DEF NineMove
<1>3. CASE s \in {45, 46, 47, 48} \cup Rotations
  <2> DEFINE to == FourTo(s)
             off == FourOffsets(s, to)
  <2>1. to \in Int
    BY <1>1 DEF FourTo
  <2>2. off \subseteq Int \X Int
    BY DEF FourOffsets, Arrow142
  <2>3. MoveOf(s) = FourMove(s)
    BY <1>3 DEF MoveOf, Rotations
  <2>4. FourMove(s).to = to
    BY DEF FourMove
  <2>5. FourMove(s).ret \subseteq Int
    <3>1. \A e \in off : to + 100 + e[2] \in Int
      BY <2>1, <2>2
    <3> DEFINE codes == {to + 100 + e[2] : e \in off}
    <3>2. FourMove(s).ret = IF off = {} THEN Garbage ELSE codes
      BY Zenon DEF FourMove
    <3> HIDE DEF to, off
    <3>3. codes \subseteq Int
      BY <3>1
    <3> QED BY <3>2, <3>3
  <2>6. FourMove(s).drawn \subseteq Int \X Int \X Int \X Int
    <3>1. \A e \in off : <<pos[0], pos[0] + e[1], to, to + e[2]>> \in Int \X Int \X Int \X Int
      BY <1>1, <2>1, <2>2
    <3> HIDE DEF to, off
    <3>2. FourMove(s).drawn = {<<pos[0], pos[0] + e[1], to, to + e[2]>> : e \in off}
      BY DEF FourMove, to, off
    <3> QED BY <3>1, <3>2
  <2> QED BY <2>1, <2>3, <2>4, <2>5, <2>6
<1>4. CASE s \notin {55, 56, 57, 58, 208, 209} \cup {45, 46, 47, 48} \cup Rotations
  BY <1>1, <1>4 DEF MoveOf, NoMove, Rotations
<1> QED BY <1>2, <1>3, <1>4

Regions == [at : Int, title : Int, big : BOOLEAN]

\* Creating or toggling a region leaves regions.
LEMMA OsdInitTyped ==
    ASSUME NEW o \in SUBSET Regions, NEW w \in Int, NEW t \in Int, NEW b \in BOOLEAN
    PROVE  OsdInit(o, w, t, b) \in SUBSET Regions
<1>1. OsdDestroy(o, {w}) \in SUBSET Regions
  BY DEF OsdDestroy
<1>2. [at |-> w, title |-> t, big |-> b] \in Regions
  BY DEF Regions
<1> QED BY <1>1, <1>2 DEF OsdInit

LEMMA RedrawTyped ==
    ASSUME NEW o \in SUBSET Regions, NEW d \in Int \X Int \X Int \X Int
    PROVE  Redraw(o, d) \in SUBSET Regions
<1>1. ASSUME NEW q \in SUBSET Regions, NEW w \in Int, NEW t \in Int, NEW b \in BOOLEAN
      PROVE  OsdInit(OsdDestroy(q, {w}), w, t, b) \in SUBSET Regions
  <2>1. OsdDestroy(q, {w}) \in SUBSET Regions
    BY DEF OsdDestroy
  <2> QED BY <2>1, OsdInitTyped
<1>2. d[1] \in Int /\ d[2] \in Int /\ d[3] \in Int /\ d[4] \in Int
  OBVIOUS
<1> DEFINE plain == OsdInit(OsdDestroy(o, {d[1]}), d[1], d[2], FALSE)
<1>3. plain \in SUBSET Regions
  BY <1>1, <1>2
<1> HIDE DEF plain
<1>4. OsdInit(OsdDestroy(plain, {d[3]}), d[3], d[4], TRUE) \in SUBSET Regions
  BY <1>1, <1>2, <1>3
<1> QED BY <1>4 DEF Redraw, plain

LEMMA OsdSwitchTyped ==
    ASSUME NEW o \in SUBSET Regions, NEW from, NEW m \in Int
    PROVE  OsdSwitch(o, from, m) \in SUBSET Regions
<1>1. \A d \in TitlesDrawn(m) : [at |-> d[1], title |-> d[2], big |-> FALSE] \in Regions
  <2>1. \A d \in TitlesDrawn(m) : d[1] \in Int /\ d[2] \in Int
    BY DEF TitlesDrawn, NineModes, SingleModes, Channels, BigWindow
  <2> QED BY <2>1 DEF Regions
<1>2. \A e \in SUBSET Regions : \A x : OsdDestroy(e, x) \in SUBSET Regions
  BY DEF OsdDestroy
<1> QED BY <1>1, <1>2 DEF OsdSwitch

LEMMA RebuildTyped ==
    ASSUME NEW m \in Int, TypeOK, Rebuild(m)
    PROVE  /\ prev' \in Int /\ tow' \in Int
           /\ disp' \in {1, 4, 9} /\ who' \in 0..9
           /\ bound' \subseteq Channels \X Windows
           /\ vo' \subseteq Windows
           /\ osd' \subseteq Regions
<1>1. prev' \in Int /\ tow' \in Int /\ disp' \in {1, 4, 9} /\ who' \in 0..9
  BY DEF TypeOK, Rebuild, DisplayOf, InBigWindow
<1>2. bound' \subseteq Channels \X Windows
  <2>1. \A p \in BoundIn(m) : p \in Int \X Windows
    BY DEF BoundIn, SingleModes, NineModes, Channels, BigWindow, Windows
  <2> QED BY <2>1 DEF TypeOK, Rebuild, Bind, Unbind
<1>3. vo' \subseteq Windows
  <2>1. StartedBy(m \div 10) \subseteq Windows
    BY DEF StartedBy, Windows
  <2> QED BY <2>1 DEF TypeOK, Rebuild
<1>4. osd' \subseteq Regions
  <2>1. osd' = OsdSwitch(osd, prev, m) /\ osd \in SUBSET Regions
    BY DEF Rebuild, TypeOK, Regions
  <2> QED BY <2>1, OsdSwitchTyped
<1> QED BY <1>1, <1>2, <1>3, <1>4

(***************************************************************************)
(* Every variable keeps its type, whatever the uninitialised local holds:  *)
(* the display mode is 1, 4 or 9, the windows exist, the mute flags are    *)
(* written within and one word behind their array.                         *)
(***************************************************************************)
THEOREM TypeCorrect == Spec => []TypeOK
<1> USE HandlersAssumption
<1>1. Init => TypeOK
  <2> SUFFICES ASSUME Init PROVE TypeOK
    OBVIOUS
  <2>1. bound \subseteq Channels \X Windows
    BY DEF Init, BoundIn, SingleModes, NineModes, Channels, BigWindow, Windows
  <2>2. vo \subseteq Windows
    BY DEF Init, StartedBy, Windows
  <2>3. osd \subseteq Regions
    <3>1. OsdSwitch({}, 0, 190) \in SUBSET Regions
      BY OsdSwitchTyped
    <3>2. [at |-> 0, title |-> 0, big |-> FALSE] \in Regions
      BY DEF Regions
    <3> QED BY <3>1, <3>2 DEF Init
  <2> QED BY <2>1, <2>2, <2>3 DEF Init, TypeOK, EndPosInit, Regions
<1>2. TypeOK /\ [Next]_vars => TypeOK'
  <2> SUFFICES ASSUME TypeOK, [Next]_vars PROVE TypeOK'
    OBVIOUS
  <2>1. ASSUME NEW h \in Handlers, NEW k \in Keys[h], Press(h, k) PROVE TypeOK'
    <3>1. CmdOf(Code(h, k)) \in Int
      BY CommandTyped, KeysAssumption
    <3> DEFINE cmd == CmdOf(Code(h, k))
    <3>2. SpecialRet(cmd) \in Int
      BY <3>1 DEF SpecialRet, TypeOK
    <3>3. sig' \in [Handlers -> Int] /\ ret' \in [Handlers -> Int] /\ exec' \in [Handlers -> BOOLEAN]
      BY <2>1, <3>1, <3>2 DEF Press, TypeOK
    <3>4. pc' \in [Handlers -> {"idle", "confirm", "accept", "check", "mute"} \cup LockPoints]
      BY <2>1 DEF Press, TypeOK, LockPoints
    <3>5. four' \in {0} \cup 140..142
      BY <2>1, <3>1 DEF Press, TypeOK
    <3>6. under' \in [Handlers -> Handlers \cup Threads \cup {None}]
      BY <2>1 DEF Press, Takers, TypeOK
    <3> QED BY <2>1, <3>3, <3>4, <3>5, <3>6 DEF Press, TypeOK, wall
  <2>2. ASSUME NEW h \in Handlers, Lock(h) PROVE TypeOK'
    BY <2>2 DEF Lock, TypeOK, wall, frame
  <2>3. ASSUME NEW h \in Handlers, Test(h) \/ Signal(h) PROVE TypeOK'
    BY <2>3 DEF Test, Signal, Unlock, TypeOK, wall, LockPoints
  <2>4. ASSUME NEW h \in Handlers, Adjust(h) PROVE TypeOK'
    <3>1. sig' \in [Handlers -> Int]
      BY <2>4 DEF Adjust, TypeOK
    <3>2. pos' \in [0..1 -> Int]
      BY <2>4 DEF Adjust, CursorHome, TypeOK
    <3> QED BY <2>4, <3>1, <3>2 DEF Adjust, Unlock, TypeOK, wall
  <2>5. ASSUME NEW h \in Handlers, Check(h) PROVE TypeOK'
    BY <2>5 DEF Check, TypeOK, wall, LockPoints
  <2>6. ASSUME NEW h \in Handlers, Move(h) PROVE TypeOK'
    <3> DEFINE m == MoveOf(sig[h])
    <3>1. m.to \in Int /\ m.ret \subseteq Int /\ m.drawn \subseteq Int \X Int \X Int \X Int
      <4>1. sig[h] \in Int
        BY DEF TypeOK
      <4> QED BY <4>1, MoveTyped
    <3> HIDE DEF m
    <3>2. ret' \in [Handlers -> Int] /\ pos' \in [0..1 -> Int]
      BY <2>6, <3>1 DEF Move, TypeOK, m
    <3>3. osd' \subseteq Regions
      <4>1. CASE m.drawn = {}
        BY <2>6, <4>1 DEF Move, TypeOK, Regions, m
      <4>2. CASE m.drawn # {}
        <5>1. osd' = Redraw(osd, CHOOSE d \in m.drawn : TRUE)
          BY <2>6, <4>2 DEF Move, m
        <5>2. (CHOOSE d \in m.drawn : TRUE) \in Int \X Int \X Int \X Int
          BY <3>1, <4>2
        <5>3. osd \in SUBSET Regions
          BY DEF TypeOK, Regions
        <5> QED BY <5>1, <5>2, <5>3, RedrawTyped
      <4> QED BY <4>1, <4>2
    <3> QED BY <2>6, <3>2, <3>3 DEF Move, Unlock, TypeOK, wall, Regions
  <2>7. ASSUME NEW h \in Handlers, Confirm(h) PROVE TypeOK'
    BY <2>7 DEF Confirm, TypeOK, wall
  <2>8. ASSUME NEW h \in Handlers, Accept(h) PROVE TypeOK'
    BY <2>8, ReturnsTyped DEF Accept, TypeOK, wall, LockPoints
  <2>9. ASSUME NEW h \in Handlers, Switch(h) PROVE TypeOK'
    <3>1. confirm \in Int /\ Rebuild(confirm)
      BY <2>9 DEF Switch, TypeOK
    <3> QED BY <2>9, <3>1, RebuildTyped DEF Switch, AllShown, CursorHome, TypeOK, Regions
  <2>10. ASSUME NEW h \in Handlers, Mute(h) PROVE TypeOK'
    BY <2>10, ReturnsTyped DEF Mute, Unlock, TypeOK
  <2>11. ASSUME NEW t \in Threads, Take(t) \/ Release(t) PROVE TypeOK'
    BY <2>11 DEF Take, Release, Unlock, TypeOK, wall, frame
  <2>12. CASE UNCHANGED vars
    BY <2>12 DEF vars, TypeOK
  <2> QED BY <2>1, <2>2, <2>3, <2>4, <2>5, <2>6, <2>7, <2>8, <2>9, <2>10, <2>11, <2>12
          DEF Next, Step
<1> QED BY <1>1, <1>2, PTL DEF Spec
-----------------------------------------------------------------------------
\* Only Switch touches what is bound, enabled and shown.
LEMMA OnlySwitchRebuilds ==
    ASSUME [Next]_vars
    PROVE  \/ \E h \in Handlers : Switch(h)
           \/ UNCHANGED <<prev, tow, disp, who, bound, vo>>
BY DEF Next, Step, Press, Lock, Test, Signal, Adjust, Check, Move, Confirm, Accept, Mute,
       Take, Release, wall, vars

\* The bind list of a mode is bound in full by a rebuild of a matching wall.
LEMMA RebuildBinds ==
    ASSUME NEW m \in Int, prev \in Int, BindingsMatchMode, Rebuild(m)
    PROVE  BindingsMatchMode'
<1>1. Unbind(bound, UnboundFrom(prev)) = {}
  BY UnbindsWhatItBound DEF BindingsMatchMode, Unbind
<1>2. bound' = {p \in BoundIn(m) : p[1] \in Channels} /\ prev' = m
  BY <1>1 DEF Rebuild, Bind
<1> QED BY <1>2 DEF BindingsMatchMode

(***************************************************************************)
(* The pairs bound are those of the mode on screen, although the rebuild   *)
(* unbinds and binds from two lists and a bind to an occupied window fails *)
(* in silence: for any two handlers, however their steps interleave.       *)
(***************************************************************************)
THEOREM BindingsCorrect == Spec => []BindingsMatchMode
<1>1. Init => BindingsMatchMode
  <2>1. \A p \in BoundIn(190) : p[1] \in Channels
    BY DEF BoundIn, SingleModes, NineModes
  <2> QED BY <2>1 DEF Init, BindingsMatchMode
<1>2. TypeOK /\ BindingsMatchMode /\ [Next]_vars => BindingsMatchMode'
  <2> SUFFICES ASSUME TypeOK, BindingsMatchMode, [Next]_vars PROVE BindingsMatchMode'
    OBVIOUS
  <2>1. CASE \E h \in Handlers : Switch(h)
    BY <2>1, RebuildBinds DEF Switch, TypeOK
  <2>2. CASE UNCHANGED <<prev, tow, disp, who, bound, vo>>
    BY <2>2 DEF BindingsMatchMode
  <2> QED BY <2>1, <2>2, OnlySwitchRebuilds
<1> QED BY <1>1, <1>2, TypeCorrect, PTL DEF Spec

(***************************************************************************)
(* No window is given two channels and no channel two windows, on the way  *)
(* from any mode to any other: the binds of do_switch_all() never meet one *)
(* left over from before.                                                  *)
(***************************************************************************)
THEOREM OneToOne ==
    Spec => [](\A p, q \in bound : p[1] = q[1] \/ p[2] = q[2] => p = q)
<1>1. TypeOK /\ BindingsMatchMode => \A p, q \in bound : p[1] = q[1] \/ p[2] = q[2] => p = q
  BY OneSourcePerWindow, OneWindowPerSource DEF TypeOK, BindingsMatchMode
<1> QED BY <1>1, TypeCorrect, BindingsCorrect, PTL

(***************************************************************************)
(* The inductive invariant behind BoundWindowsEnabled: the enabled windows *)
(* are exactly those the family of the mode on screen starts, which holds  *)
(* because each family stops what it starts.                               *)
(***************************************************************************)
FamilyEnabled == vo = StartedBy(prev \div 10)

THEOREM EnabledCorrect == Spec => []BoundWindowsEnabled
<1>1. Init => FamilyEnabled
  BY DEF Init, FamilyEnabled
<1>2. TypeOK /\ FamilyEnabled /\ [Next]_vars => FamilyEnabled'
  <2> SUFFICES ASSUME TypeOK, FamilyEnabled, [Next]_vars PROVE FamilyEnabled'
    OBVIOUS
  <2>1. CASE \E h \in Handlers : Switch(h)
    <3>1. vo \ StoppedBy(prev \div 10) = {}
      BY DEF FamilyEnabled, StartedBy, StoppedBy, TypeOK
    <3>2. /\ prev' = confirm
          /\ vo' = IF prev \div 10 = confirm \div 10 THEN vo
                   ELSE (vo \ StoppedBy(prev \div 10)) \cup StartedBy(confirm \div 10)
      BY <2>1 DEF Switch, Rebuild
    <3> QED BY <3>1, <3>2 DEF FamilyEnabled
  <2>2. CASE UNCHANGED <<prev, tow, disp, who, bound, vo>>
    BY <2>2 DEF FamilyEnabled
  <2> QED BY <2>1, <2>2, OnlySwitchRebuilds
<1>3. TypeOK /\ BindingsMatchMode /\ FamilyEnabled => BoundWindowsEnabled
  BY LayoutUsesStartedWindows DEF TypeOK, BindingsMatchMode, FamilyEnabled, BoundWindowsEnabled
<1> QED BY <1>1, <1>2, <1>3, TypeCorrect, BindingsCorrect, PTL DEF Spec
-----------------------------------------------------------------------------
(***************************************************************************)
(* The threads cannot shut each other out but by SelfDeadlock: as long as  *)
(* a handler is active, one can take its next step, or the thread that     *)
(* holds the mutex can let go of it.  The mutex is held only between a     *)
(* Lock and the action that ends its section, on every path through        *)
(* set_cmd() and do_switch_all() (do_switch.c:1118-1149).                  *)
(***************************************************************************)
Waits(h) == pc[h] \in LockPoints /\ mutex \notin {None, h}

SomeoneGoesOn ==
    (\E h \in Handlers : Active(h)) =>
        \/ SelfDeadlock
        \/ \E h \in Handlers : Runs(h) /\ ~Waits(h)
        \/ \E t \in Threads : mutex = t /\ ~Interrupted(t)

(***************************************************************************)
(* The mutex, inductively: a handler that holds it is in a section, and the*)
(* last action of do_switch_all()'s section is reached with it held.       *)
(***************************************************************************)
MutexHeld ==
    /\ mutex \in Handlers => pc[mutex] \in LockPoints \cup {"mute"}
    /\ \A h \in Handlers : pc[h] = "mute" => mutex = h

(***************************************************************************)
(* The threads' stacks, inductively: what interrupts something is active,  *)
(* a handler interrupts an active one that has itself interrupted none, and*)
(* nothing is interrupted twice.                                           *)
(***************************************************************************)
Stacked ==
    /\ \A h \in Handlers : under[h] # None => Active(h)
    /\ \A h \in Handlers : under[h] \in Handlers =>
           Active(under[h]) /\ under[under[h]] \notin Handlers
    /\ \A g, h \in Handlers : under[g] = under[h] /\ under[g] # None => g = h

LEMMA MutexKept == Spec => [](TypeOK /\ MutexHeld)
<1> USE HandlersAssumption
<1>1. Init => MutexHeld
  BY DEF Init, MutexHeld
<1>2. TypeOK /\ MutexHeld /\ [Next]_vars => MutexHeld'
  <2> SUFFICES ASSUME TypeOK, MutexHeld, [Next]_vars PROVE MutexHeld'
    OBVIOUS
  <2> USE DEF MutexHeld, TypeOK, LockPoints
  <2>1. ASSUME NEW h \in Handlers, NEW k \in Keys[h], Press(h, k) PROVE MutexHeld'
    <3>1. pc[h] = "idle" /\ mutex' = mutex
      BY <2>1 DEF Press, Active
    <3>2. \A g \in Handlers : g # h => pc'[g] = pc[g]
      BY <2>1 DEF Press
    <3>3. pc'[h] # "mute"
      BY <2>1 DEF Press
    <3> QED BY <3>1, <3>2, <3>3
  <2>2. ASSUME NEW h \in Handlers, Lock(h) PROVE MutexHeld'
    BY <2>2 DEF Lock, frame
  <2>3. ASSUME NEW h \in Handlers, Test(h) \/ Signal(h) \/ Adjust(h) \/ Move(h) PROVE MutexHeld'
    BY <2>3 DEF Test, Signal, Adjust, Move, Unlock
  <2>4. ASSUME NEW h \in Handlers, Check(h) \/ Confirm(h) PROVE MutexHeld'
    BY <2>4 DEF Check, Confirm
  <2>5. ASSUME NEW h \in Handlers, Accept(h) PROVE MutexHeld'
    BY <2>5 DEF Accept, Return
  <2>6. ASSUME NEW h \in Handlers, Switch(h) PROVE MutexHeld'
    BY <2>6 DEF Switch
  <2>7. ASSUME NEW h \in Handlers, Mute(h) PROVE MutexHeld'
    BY <2>7 DEF Mute, Unlock, Return
  <2>8. ASSUME NEW t \in Threads, Take(t) \/ Release(t) PROVE MutexHeld'
    BY <2>8 DEF Take, Release, Unlock, frame
  <2>9. CASE UNCHANGED vars
    BY <2>9 DEF vars
  <2> QED BY <2>1, <2>2, <2>3, <2>4, <2>5, <2>6, <2>7, <2>8, <2>9 DEF Next, Step
<1> QED BY <1>1, <1>2, TypeCorrect, PTL DEF Spec

\* A handler that ends was on top of its thread's stack and leaves it.
LEMMA StackedReturn ==
    ASSUME NEW h \in Handlers, TypeOK, Stacked, Runs(h), Return(h)
    PROVE  Stacked'
<1>1. /\ \A g \in Handlers : under'[g] = IF g = h THEN None ELSE under[g]
      /\ \A g \in Handlers \ {h} : pc'[g] = pc[g]
  BY DEF TypeOK, Return
<1>2. \A g \in Handlers : under[g] # h
  BY DEF Runs, Interrupted
<1> QED BY <1>1, <1>2, HandlersAssumption DEF Stacked, Active

LEMMA StacksKept == Spec => []Stacked
<1> USE HandlersAssumption
<1>1. Init => Stacked
  BY DEF Init, Stacked
<1>2. TypeOK /\ Stacked /\ [Next]_vars => Stacked'
  <2> SUFFICES ASSUME TypeOK, Stacked, [Next]_vars PROVE Stacked'
    OBVIOUS
  <2>1. ASSUME NEW h \in Handlers, NEW k \in Keys[h], Press(h, k) PROVE Stacked'
    <3>1. CmdOf(Code(h, k)) \in Int /\ pc[h] = "idle" /\ pc'[h] # "idle"
      BY <2>1, CommandTyped, KeysAssumption DEF Press, Active, TypeOK
    <3>2. \A g \in Handlers : g # h => pc'[g] = pc[g]
      BY <2>1 DEF Press, TypeOK
    <3>3. PICK x \in {None} \cup Takers(h) : under' = [under EXCEPT ![h] = x]
      BY <2>1 DEF Press
    <3>4. \A g \in Handlers : under'[g] = IF g = h THEN x ELSE under[g]
      BY <3>3 DEF TypeOK
    <3>5. under[h] = None /\ \A g \in Handlers : under[g] # h
      BY <3>1 DEF Stacked, Active
    <3>6. x \in Handlers => Active(x) /\ under[x] \notin Handlers /\ x # h
      BY <3>1, <3>3 DEF Takers, Runs, Active
    <3>7. x # None => \A g \in Handlers : under[g] # x
      BY <3>3 DEF Takers, Runs, Interrupted
    <3> QED BY <3>1, <3>2, <3>4, <3>5, <3>6, <3>7 DEF Stacked, Active
  <2>2. ASSUME NEW h \in Handlers, Lock(h) PROVE Stacked'
    BY <2>2 DEF Lock, frame, Stacked, Active
  <2>3. ASSUME NEW h \in Handlers, Test(h) \/ Signal(h) \/ Adjust(h) \/ Check(h) \/ Move(h) \/ Confirm(h)
        PROVE Stacked'
    BY <2>3 DEF Test, Signal, Adjust, Check, Move, Confirm, Stacked, Active, TypeOK
  <2>4. ASSUME NEW h \in Handlers, Accept(h) PROVE Stacked'
    <3>1. CASE Return(h)
      BY <2>4, <3>1, StackedReturn DEF Accept
    <3>2. CASE pc' = [pc EXCEPT ![h] = "switch"] /\ under' = under
      BY <3>2 DEF Stacked, Active, TypeOK
    <3> QED BY <2>4, <3>1, <3>2 DEF Accept
  <2>5. ASSUME NEW h \in Handlers, Switch(h) PROVE Stacked'
    BY <2>5 DEF Switch, Stacked, Active, TypeOK
  <2>6. ASSUME NEW h \in Handlers, Mute(h) PROVE Stacked'
    BY <2>6, StackedReturn DEF Mute
  <2>7. ASSUME NEW t \in Threads, Take(t) \/ Release(t) PROVE Stacked'
    BY <2>7 DEF Take, Release, frame, Stacked, Active
  <2>8. CASE UNCHANGED vars
    BY <2>8 DEF vars, Stacked, Active
  <2> QED BY <2>1, <2>2, <2>3, <2>4, <2>5, <2>6, <2>7, <2>8 DEF Next, Step
<1> QED BY <1>1, <1>2, TypeCorrect, PTL DEF Spec

(***************************************************************************)
(* Some thread can always go on, for any keys, handlers and threads, unless*)
(* a handler wants the mutex that its own thread holds: no other circle of *)
(* waiting is possible.                                                    *)
(***************************************************************************)
THEOREM NeverStuck == Spec => []SomeoneGoesOn
<1>1. TypeOK /\ MutexHeld /\ Stacked => SomeoneGoesOn
  <2> SUFFICES ASSUME TypeOK, MutexHeld, Stacked, NEW a \in Handlers, Active(a), ~SelfDeadlock
               PROVE  \/ \E h \in Handlers : Runs(h) /\ ~Waits(h)
                      \/ \E t \in Threads : mutex = t /\ ~Interrupted(t)
    BY DEF SomeoneGoesOn
  <2>1. ASSUME NEW g \in Handlers, under[g] \in Handlers PROVE Active(g) /\ Runs(g)
    <3>1. Active(g)
      BY <2>1, HandlersAssumption DEF Stacked
    <3>2. \A h \in Handlers : under[h] # g
      BY <2>1 DEF Stacked
    <3> QED BY <3>1, <3>2 DEF Runs, Interrupted
  <2>2. ASSUME NEW g \in Handlers, mutex \in Beneath(g), mutex # None PROVE ~Waits(g)
    BY <2>2 DEF SelfDeadlock, Waits
  <2>3. CASE mutex = None
    <3>1. \A h \in Handlers : ~Waits(h)
      BY <2>3 DEF Waits
    <3>2. CASE Runs(a)
      BY <3>1, <3>2
    <3>3. CASE ~Runs(a)
      <4>1. PICK g \in Handlers : under[g] = a
        BY <3>3 DEF Runs, Interrupted
      <4> QED BY <2>1, <3>1, <4>1
    <3> QED BY <3>2, <3>3
  <2>4. CASE mutex \in Handlers
    <3>1. Active(mutex) /\ ~Waits(mutex)
      BY <2>4 DEF MutexHeld, Active, Waits, LockPoints
    <3>2. CASE Runs(mutex)
      BY <2>4, <3>1, <3>2
    <3>3. CASE ~Runs(mutex)
      <4>1. PICK g \in Handlers : under[g] = mutex
        BY <3>1, <3>3 DEF Runs, Interrupted
      <4>2. Runs(g)
        BY <2>1, <2>4, <4>1
      <4>3. mutex \in Beneath(g)
        BY <4>1 DEF Beneath
      <4> QED BY <2>2, <2>4, <4>2, <4>3, HandlersAssumption
    <3> QED BY <3>2, <3>3
  <2>5. CASE mutex \in Threads
    <3>1. CASE ~Interrupted(mutex)
      BY <2>5, <3>1
    <3>2. CASE Interrupted(mutex)
      <4>1. PICK g \in Handlers : under[g] = mutex
        BY <3>2 DEF Interrupted
      <4>2. mutex # None /\ Active(g) /\ mutex \in Beneath(g)
        BY <2>5, <4>1, HandlersAssumption DEF Stacked, Beneath
      <4>3. CASE Runs(g)
        BY <2>2, <4>2, <4>3
      <4>4. CASE ~Runs(g)
        <5>1. PICK f \in Handlers : under[f] = g
          BY <4>2, <4>4 DEF Runs, Interrupted
        <5>2. Runs(f)
          BY <2>1, <5>1
        <5>3. mutex \in Beneath(f)
          BY <4>1, <5>1 DEF Beneath
        <5> QED BY <2>2, <4>2, <5>2, <5>3
      <4> QED BY <4>3, <4>4
    <3> QED BY <3>1, <3>2
  <2> QED BY <2>3, <2>4, <2>5 DEF TypeOK
<1> QED BY <1>1, MutexKept, StacksKept, PTL

\* No handler stands on a thread that may hold the mutex.
Undisturbed == under = [h \in Handlers |-> None]

(***************************************************************************)
(* On threads of their own the handlers never shut each other out: the     *)
(* deadlock needs a signal taken on a thread that may hold the mutex.      *)
(***************************************************************************)
THEOREM OwnThreadsGoOn ==
    ASSUME ~Nested
    PROVE  Spec => []~SelfDeadlock
<1>1. Init => Undisturbed
  BY DEF Init, Undisturbed
<1>2. Undisturbed /\ [Next]_vars => Undisturbed'
  <2> SUFFICES ASSUME Undisturbed, [Next]_vars PROVE Undisturbed'
    OBVIOUS
  <2>1. ASSUME NEW h \in Handlers, under' = [under EXCEPT ![h] = None] PROVE Undisturbed'
    BY <2>1 DEF Undisturbed
  <2>2. CASE \E h \in Handlers : under' = [under EXCEPT ![h] = None]
    BY <2>1, <2>2
  <2>3. CASE under' = under
    BY <2>3 DEF Undisturbed
  <2>4. under' = under \/ \E h \in Handlers : under' = [under EXCEPT ![h] = None]
    <3>1. ASSUME NEW h \in Handlers, NEW k \in Keys[h], Press(h, k)
          PROVE  under' = [under EXCEPT ![h] = None]
      BY <3>1 DEF Press
    <3> QED BY <3>1 DEF Next, Step, Lock, Test, Signal, Adjust, Check, Move, Confirm, Accept,
                        Switch, Mute, Return, Take, Release, vars
  <2> QED BY <2>2, <2>3, <2>4
<1>3. Undisturbed => ~SelfDeadlock
  BY DEF SelfDeadlock, Undisturbed, Beneath
<1> QED BY <1>1, <1>2, <1>3, PTL DEF Spec
-----------------------------------------------------------------------------
(***************************************************************************)
(* With one handler, no other can write cmd_confirm between its reading by *)
(* do_switch_all() and by the mute code.  Between the two, the flags are   *)
(* clear and cmd_confirm is the mode on screen; otherwise the flags set    *)
(* are of channels the mode does not show.  A mode on its way was accepted.*)
(***************************************************************************)
MutesMatchMode(h) ==
    /\ pc[h] = "mute" => confirm = prev /\ mute = AllShown
    /\ pc[h] # "mute" => \A p \in BoundIn(prev) : p[1] \in Channels => mute[p[1]] # 1

AcceptedOnTheWay(h) == pc[h] = "switch" => Accepted(confirm)

LEMMA MutesInductive ==
    ASSUME NEW h, Handlers = {h}
    PROVE  Spec => [](MutesMatchMode(h) /\ AcceptedOnTheWay(h))
<1> DEFINE IInv == MutesMatchMode(h) /\ AcceptedOnTheWay(h)
<1>1. Init => IInv
  BY DEF Init, MutesMatchMode, AcceptedOnTheWay, Channels
<1>2. TypeOK /\ IInv /\ [Next]_vars => IInv'
  <2> SUFFICES ASSUME TypeOK, IInv, [Next]_vars PROVE IInv'
    OBVIOUS
  <2>1. ASSUME NEW k \in Keys[h], Press(h, k) PROVE IInv'
    BY <2>1 DEF Press, Active, TypeOK, MutesMatchMode, AcceptedOnTheWay, wall
  <2>2. ASSUME Lock(h) PROVE IInv'
    BY <2>2 DEF Lock, TypeOK, MutesMatchMode, AcceptedOnTheWay, wall, frame
  <2>3. ASSUME Test(h) \/ Signal(h) \/ Adjust(h) \/ Check(h) \/ Move(h) PROVE IInv'
    BY <2>3 DEF Test, Signal, Adjust, Check, Move, TypeOK, MutesMatchMode, AcceptedOnTheWay, wall
  <2>4. ASSUME Confirm(h) PROVE IInv'
    BY <2>4 DEF Confirm, TypeOK, MutesMatchMode, AcceptedOnTheWay, wall
  <2>5. ASSUME Accept(h) PROVE IInv'
    BY <2>5 DEF Accept, Return, TypeOK, MutesMatchMode, AcceptedOnTheWay, Accepted, wall
  <2>6. ASSUME Switch(h) PROVE IInv'
    BY <2>6 DEF Switch, Rebuild, AllShown, TypeOK, MutesMatchMode, AcceptedOnTheWay
  <2>7. ASSUME Mute(h) PROVE IInv'
    <3>1. pc' = [pc EXCEPT ![h] = "idle"] /\ pc'[h] = "idle" /\ prev' = prev
      BY <2>7 DEF Mute, Return, TypeOK
    <3>2. mute' = [c \in 0..9 |-> IF c \in MutedIn(confirm) THEN 1 ELSE mute[c]]
      BY <2>7 DEF Mute
    <3>3. confirm = prev /\ mute = AllShown
      BY <2>7 DEF Mute, MutesMatchMode
    <3>4. ASSUME NEW p \in BoundIn(prev), p[1] \in Channels PROVE mute'[p[1]] # 1
      <4>1. p[1] \notin MutedIn(prev)
        BY LayoutMutesNoShownChannel DEF TypeOK
      <4>2. p[1] \in 0..9
        BY <3>4 DEF Channels
      <4> QED BY <3>2, <3>3, <4>1, <4>2 DEF AllShown
    <3> QED BY <3>1, <3>4 DEF MutesMatchMode, AcceptedOnTheWay
  <2>8. ASSUME NEW t \in Threads, Take(t) \/ Release(t) PROVE IInv'
    BY <2>8 DEF Take, Release, MutesMatchMode, AcceptedOnTheWay, wall, frame
  <2>9. CASE UNCHANGED vars
    BY <2>9 DEF vars, MutesMatchMode, AcceptedOnTheWay
  <2> QED BY <2>1, <2>2, <2>3, <2>4, <2>5, <2>6, <2>7, <2>8, <2>9 DEF Next, Step
<1> QED BY <1>1, <1>2, TypeCorrect, PTL DEF Spec

(***************************************************************************)
(* With one handler a channel on screen is never left muted, whatever the  *)
(* uninitialised local holds.                                              *)
(***************************************************************************)
THEOREM ShownNeverMuted ==
    ASSUME NEW h, Handlers = {h}
    PROVE  Spec => []ShownNotMuted
<1>1. BindingsMatchMode /\ MutesMatchMode(h) => ShownNotMuted
  <2> SUFFICES ASSUME BindingsMatchMode, MutesMatchMode(h), NEW p \in bound
               PROVE  mute[p[1]] # 1
    BY DEF ShownNotMuted
  <2>1. p \in BoundIn(prev) /\ p[1] \in Channels
    BY DEF BindingsMatchMode
  <2> QED BY <2>1 DEF MutesMatchMode, AllShown, Channels
<1> QED BY <1>1, BindingsCorrect, MutesInductive, PTL
-----------------------------------------------------------------------------
\* A window shows the one channel bound to it; -1 is no channel.
LEMMA PictureAt ==
    ASSUME NEW b, NEW w \in Windows, NEW c \in Channels \cup {-1},
           \A d \in Channels : <<d, w>> \in b <=> d = c
    PROVE  PictureOf(b)[w] = c
<1>1. CASE c \in Channels
  <2>1. <<c, w>> \in b /\ \A d \in Channels : <<d, w>> \in b => d = c
    BY <1>1
  <2> QED BY <1>1, <2>1 DEF PictureOf
<1>2. CASE c = -1
  <2>1. \A d \in Channels : <<d, w>> \notin b
    BY <1>2 DEF Channels
  <2> QED BY <1>2, <2>1 DEF PictureOf
<1> QED BY <1>1, <1>2

\* The bind list of a mode yields the picture the abstract wall promises.
LEMMA BindListIsPicture ==
    ASSUME NEW m \in Int
    PROVE  PictureOf({p \in BoundIn(m) : p[1] \in Channels}) = Wall!Picture(m)
<1> DEFINE b == {p \in BoundIn(m) : p[1] \in Channels}
<1>1. ASSUME NEW w \in Windows PROVE PictureOf(b)[w] = Wall!Picture(m)[w]
  <2>1. CASE m \in SingleModes
    <3> DEFINE c == IF m % 10 \in Channels /\ w = 0 THEN m % 10 ELSE -1
    <3>1. c \in Channels \cup {-1}
      OBVIOUS
    <3>2. \A d \in Channels : <<d, w>> \in b <=> d = c
      <4>1. BoundIn(m) = {<<m % 10, 0>>}
        BY <2>1 DEF BoundIn, SingleModes, NineModes
      <4> QED BY <4>1 DEF Channels
    <3>3. Wall!Picture(m)[w] = c
      BY <2>1 DEF Wall!Picture, Wall!Screens, Wall!Dark, Windows, SingleModes, Channels
    <3> HIDE DEF b, c
    <3> QED BY <3>1, <3>2, <3>3, PictureAt
  <2>2. CASE m = 140
    <3> DEFINE c == IF w \in 0..3 THEN w ELSE -1
    <3>1. c \in Channels \cup {-1}
      BY DEF Channels
    <3>2. \A d \in Channels : <<d, w>> \in b <=> d = c
      BY <2>2 DEF BoundIn, SingleModes, NineModes, Channels
    <3>3. Wall!Picture(m)[w] = c
      BY <2>2 DEF Wall!Picture, Wall!Screens, Wall!Dark, Windows
    <3> HIDE DEF b, c
    <3> QED BY <3>1, <3>2, <3>3, PictureAt
  <2>3. CASE m = 141
    <3> DEFINE c == IF w \in 0..3 THEN w + 4 ELSE -1
    <3>1. c \in Channels \cup {-1}
      BY DEF Channels
    <3>2. \A d \in Channels : <<d, w>> \in b <=> d = c
      BY <2>3 DEF BoundIn, SingleModes, NineModes, Channels, Windows
    <3>3. Wall!Picture(m)[w] = c
      BY <2>3 DEF Wall!Picture, Wall!Screens, Wall!Dark, Windows
    <3> HIDE DEF b, c
    <3> QED BY <3>1, <3>2, <3>3, PictureAt
  <2>4. CASE m = 142
    <3> DEFINE c == IF w \in 0..1 THEN w + 5 ELSE IF w \in 2..3 THEN 10 - w ELSE -1
    <3>1. c \in Channels \cup {-1}
      BY DEF Channels
    <3>2. \A d \in Channels : <<d, w>> \in b <=> d = c
      BY <2>4 DEF BoundIn, SingleModes, NineModes, Channels, Windows
    <3>3. Wall!Picture(m)[w] = c
      BY <2>4 DEF Wall!Picture, Wall!Screens, Wall!Dark, Windows
    <3> HIDE DEF b, c
    <3> QED BY <3>1, <3>2, <3>3, PictureAt
  <2>5. CASE m \in NineModes
    <3> DEFINE c == IF w = BigWindow
                    THEN IF m - 190 \in Channels THEN m - 190 ELSE -1
                    ELSE IF w # m - 190 THEN w ELSE -1
    <3>1. c \in Channels \cup {-1}
      BY DEF Channels, Windows, BigWindow
    <3>2. \A d \in Channels : <<d, w>> \in b <=> d = c
      <4>1. BoundIn(m) = {<<i, IF i = m % 10 THEN BigWindow ELSE i>> : i \in Channels}
        BY <2>5 DEF BoundIn, SingleModes, NineModes
      <4>2. m % 10 = m - 190
        BY <2>5 DEF NineModes
      <4>3. \A d \in Channels : <<d, w>> \in b <=> w = IF d = m - 190 THEN BigWindow ELSE d
        BY <4>1, <4>2
      <4> HIDE DEF b
      <4> QED BY <4>3 DEF Channels, Windows, BigWindow
    <3>3. Wall!Picture(m)[w] = c
      BY <2>5 DEF Wall!Picture, Wall!Screens, Wall!Sources, Wall!Dark, Windows, NineModes,
                  Channels, BigWindow
    <3> HIDE DEF b, c
    <3> QED BY <3>1, <3>2, <3>3, PictureAt
  <2>6. CASE m \notin SingleModes \cup NineModes \cup {140, 141, 142}
    <3>1. b = {}
      BY <2>6 DEF BoundIn, SingleModes, NineModes
    <3>2. Wall!Picture(m)[w] = -1
      BY <2>6 DEF Wall!Picture, Wall!Screens, Wall!Dark, Windows, SingleModes, NineModes
    <3>3. \A d \in Channels : <<d, w>> \in b <=> d = -1
      BY <3>1 DEF Channels
    <3>4. -1 \in Channels \cup {-1}
      OBVIOUS
    <3> HIDE DEF b
    <3> QED BY <3>2, <3>3, <3>4, PictureAt
  <2> QED BY <2>1, <2>2, <2>3, <2>4, <2>5, <2>6
<1>2. PictureOf(b) = [w \in Windows |-> PictureOf(b)[w]]
  BY DEF PictureOf
<1>3. Wall!Picture(m) = [w \in Windows |-> Wall!Picture(m)[w]]
  BY DEF Wall!Picture, Wall!Screens, Windows
<1> HIDE DEF b
<1>4. PictureOf(b) = Wall!Picture(m)
  BY <1>1, <1>2, <1>3
<1> QED BY <1>4 DEF b

(***************************************************************************)
(* The screen shows the picture of the mode in previous_mode_all, for any  *)
(* handlers and keys, and whatever they let into cmd_confirm.              *)
(***************************************************************************)
THEOREM PictureCorrect == Spec => [](PictureOf(bound) = Wall!Picture(prev))
<1>1. TypeOK /\ BindingsMatchMode => PictureOf(bound) = Wall!Picture(prev)
  BY BindListIsPicture DEF TypeOK, BindingsMatchMode
<1> QED BY <1>1, TypeCorrect, BindingsCorrect, PTL

\* The wall main() starts with.
LEMMA InitShows == Init => Wall!Init
<1> SUFFICES ASSUME Init PROVE Wall!Init
  OBVIOUS
<1>1. bound = {p \in BoundIn(190) : p[1] \in Channels}
  BY DEF Init, BoundIn, SingleModes, NineModes
<1>2. PictureOf(bound) = Wall!Picture(190)
  BY <1>1, BindListIsPicture
<1> QED BY <1>2 DEF Init, Wall!Init

\* A switch to an accepted mode is a step of the abstract wall, any other step
\* leaves the wall as it is.
LEMMA StepShows ==
    ASSUME TypeOK, BindingsMatchMode', [Next]_vars, \A h \in Handlers : AcceptedOnTheWay(h)
    PROVE  [Wall!Show]_(Wall!wallVars)
<1>1. ASSUME NEW h \in Handlers, Switch(h) PROVE Wall!Show
  <2>1. prev' = confirm /\ tow' = prev /\ confirm \in Int
    BY <1>1 DEF Switch, Rebuild, TypeOK
  <2>2. prev' \in 140..149 \cup 100..109 \cup 190..205
    BY <1>1, <2>1 DEF Switch, AcceptedOnTheWay, Accepted
  <2>3. PictureOf(bound') = Wall!Picture(prev')
    <3>1. bound' = {p \in BoundIn(prev') : p[1] \in Channels}
      BY DEF BindingsMatchMode
    <3> QED BY <2>1, <3>1, BindListIsPicture
  <2> QED BY <2>1, <2>2, <2>3 DEF Wall!Show
<1>2. CASE UNCHANGED <<prev, tow, disp, who, bound, vo>>
  BY <1>2 DEF Wall!wallVars
<1> QED BY <1>1, <1>2, OnlySwitchRebuilds

(***************************************************************************)
(* With one handler the switcher implements the abstract wall: each        *)
(* critical section of response_command() shows the whole picture of an    *)
(* accepted mode, and every other step leaves the wall as it is.           *)
(***************************************************************************)
THEOREM Implementation ==
    ASSUME NEW h, Handlers = {h}
    PROVE  Spec => ImplementsVideoWall
<1>1. TypeOK /\ BindingsMatchMode' /\ AcceptedOnTheWay(h) /\ [Next]_vars
        => [Wall!Show]_(Wall!wallVars)
  BY StepShows
<1> QED BY <1>1, InitShows, TypeCorrect, BindingsCorrect, MutesInductive, PTL
        DEF Spec, ImplementsVideoWall, Wall!Spec
-----------------------------------------------------------------------------
(***************************************************************************)
(* Two handlers: what the race on cmd_confirm leaves of this.  Keys that   *)
(* choose a mode, confirm, go back or start the LED test write accepted    *)
(* modes only; then the race may mute a channel that is shown, but not     *)
(* spoil the picture.                                                      *)
(***************************************************************************)
ModeKeys ==
    \A h \in Handlers : \A k \in Keys[h] :
        IsCommand(h, k) => CmdOf(Code(h, k)) \in Special \cup {201}

NoMoves(h) == pc[h] \notin {"adjust", "check", "move"} /\ (ret[h] # 0 => Accepted(ret[h]))

ModesOnly ==
    /\ Accepted(prev) /\ Accepted(tow)
    /\ confirm # 0 => Accepted(confirm)
    /\ \A h \in Handlers : NoMoves(h) /\ AcceptedOnTheWay(h)

\* A key of these selects no mode, or one that is accepted.
LEMMA SpecialSelects ==
    ASSUME NEW c \in Special, Accepted(tow), SpecialRet(c) # 0
    PROVE  Accepted(SpecialRet(c))
BY DEF Special, SpecialRet, Accepted

LEMMA ModesKept ==
    ASSUME ModeKeys
    PROVE  Spec => []ModesOnly
<1>1. Init => ModesOnly
  BY DEF Init, ModesOnly, NoMoves, AcceptedOnTheWay, Accepted
<1>2. TypeOK /\ ModesOnly /\ [Next]_vars => ModesOnly'
  <2> SUFFICES ASSUME TypeOK, ModesOnly, [Next]_vars PROVE ModesOnly'
    OBVIOUS
  <2>1. ASSUME NEW h \in Handlers, NEW k \in Keys[h], Press(h, k) PROVE ModesOnly'
    <3> DEFINE cmd == CmdOf(Code(h, k))
    <3>1. cmd \in Special \cup {201} /\ 201 \notin Special
      BY <2>1 DEF Press, ModeKeys, Special
    <3>2. pc'[h] \in {"confirm", "test"} /\ \A g \in Handlers : g # h => pc'[g] = pc[g]
      BY <2>1, <3>1 DEF Press, TypeOK
    <3>3. ret'[h] = (IF cmd \in Special THEN SpecialRet(cmd) ELSE 0)
          /\ \A g \in Handlers : g # h => ret'[g] = ret[g]
      BY <2>1 DEF Press, TypeOK
    <3>4. UNCHANGED <<prev, tow, confirm>>
      BY <2>1 DEF Press, wall
    <3>5. ret'[h] # 0 => Accepted(ret'[h])
      BY <3>1, <3>3, SpecialSelects DEF ModesOnly
    <3> HIDE DEF cmd
    <3> QED BY <3>2, <3>3, <3>4, <3>5 DEF ModesOnly, NoMoves, AcceptedOnTheWay
  <2>2. ASSUME NEW h \in Handlers, Lock(h) PROVE ModesOnly'
    BY <2>2 DEF Lock, wall, frame, ModesOnly, NoMoves, AcceptedOnTheWay
  <2>3. ASSUME NEW h \in Handlers, Test(h) \/ Signal(h) PROVE ModesOnly'
    BY <2>3 DEF Test, Signal, wall, TypeOK, ModesOnly, NoMoves, AcceptedOnTheWay
  <2>4. ASSUME NEW h \in Handlers, Adjust(h) \/ Check(h) \/ Move(h) PROVE ModesOnly'
    BY <2>4 DEF Adjust, Check, Move, ModesOnly, NoMoves
  <2>5. ASSUME NEW h \in Handlers, Confirm(h) PROVE ModesOnly'
    <3>1. UNCHANGED <<prev, tow, ret>> /\ confirm' = (IF ret[h] # 0 THEN ret[h] ELSE confirm)
      BY <2>5 DEF Confirm, wall
    <3>2. \A g \in Handlers : pc'[g] = pc[g] \/ pc'[g] = "accept"
      BY <2>5 DEF Confirm, TypeOK
    <3> QED BY <3>1, <3>2 DEF ModesOnly, NoMoves, AcceptedOnTheWay
  <2>6. ASSUME NEW h \in Handlers, Accept(h) PROVE ModesOnly'
    <3>1. UNCHANGED <<prev, tow, confirm>>
      BY <2>6 DEF Accept, wall
    <3>2. \/ ret' = ret /\ Accepted(confirm)
             /\ \A g \in Handlers : pc'[g] = pc[g] \/ pc'[g] = "switch"
          \/ \A g \in Handlers : /\ pc'[g] = pc[g] \/ pc'[g] = "idle"
                                 /\ ret'[g] = ret[g] \/ ret'[g] = 0
      BY <2>6 DEF Accept, Return, TypeOK
    <3> QED BY <3>1, <3>2 DEF ModesOnly, NoMoves, AcceptedOnTheWay
  <2>7. ASSUME NEW h \in Handlers, Switch(h) PROVE ModesOnly'
    <3>1. prev' = confirm /\ tow' = prev /\ UNCHANGED <<confirm, ret>>
      BY <2>7 DEF Switch, Rebuild
    <3>2. \A g \in Handlers : pc'[g] = pc[g] \/ pc'[g] = "mute"
      BY <2>7 DEF Switch, TypeOK
    <3>3. Accepted(confirm)
      BY <2>7 DEF Switch, ModesOnly, AcceptedOnTheWay
    <3> QED BY <3>1, <3>2, <3>3 DEF ModesOnly, NoMoves, AcceptedOnTheWay
  <2>8. ASSUME NEW h \in Handlers, Mute(h) PROVE ModesOnly'
    <3>1. UNCHANGED <<prev, tow, confirm>>
      BY <2>8 DEF Mute
    <3>2. \A g \in Handlers : /\ pc'[g] = pc[g] \/ pc'[g] = "idle"
                              /\ ret'[g] = ret[g] \/ ret'[g] = 0
      BY <2>8 DEF Mute, Return, TypeOK
    <3> QED BY <3>1, <3>2 DEF ModesOnly, NoMoves, AcceptedOnTheWay
  <2>9. ASSUME NEW t \in Threads, Take(t) \/ Release(t) PROVE ModesOnly'
    BY <2>9 DEF Take, Release, wall, frame, ModesOnly, NoMoves, AcceptedOnTheWay
  <2>10. CASE UNCHANGED vars
    BY <2>10 DEF vars, ModesOnly, NoMoves, AcceptedOnTheWay
  <2> QED BY <2>1, <2>2, <2>3, <2>4, <2>5, <2>6, <2>7, <2>8, <2>9, <2>10 DEF Next, Step
<1> QED BY <1>1, <1>2, TypeCorrect, PTL DEF Spec

(***************************************************************************)
(* With mode keys the wall goes from one whole picture to the next, on any *)
(* threads and however the handlers overlap.  With the arrows it does not: *)
(* a cursor moved on the layout that has just gone selects mode 113, and   *)
(* the switch of the other handler may pick it up.                         *)
(***************************************************************************)
THEOREM ModeKeysShowPictures ==
    ASSUME ModeKeys
    PROVE  Spec => ImplementsVideoWall
<1>1. TypeOK /\ BindingsMatchMode' /\ ModesOnly /\ [Next]_vars => [Wall!Show]_(Wall!wallVars)
  BY StepShows DEF ModesOnly
<1> QED BY <1>1, InitShows, TypeCorrect, BindingsCorrect, ModesKept, PTL
        DEF Spec, ImplementsVideoWall, Wall!Spec
=============================================================================
