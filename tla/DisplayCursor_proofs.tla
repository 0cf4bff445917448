------------------------ MODULE DisplayCursor_proofs ------------------------
(***************************************************************************)
(* What the operator sees, with one handler: the cursor, the highlight,    *)
(* the titles, the channels nobody looks at, what the confirm key does, and*)
(* whether the titles are right.  The keys are those the remote and the    *)
(* driver of the panel (KeyDriver) deliver.                                *)
(***************************************************************************)
EXTENDS DisplaySwitch_proofs

\* The modes a key can lead to: 109 is what the large window selects at first.
Modes == 100..109 \cup 140..142 \cup 190..198

Sensible(m) == Accepted(m) => m \in Modes

\* The panel reports the keys 0..7, down or up.  The uninitialised local may hold
\* the mode of an earlier move, or any other a key leads to, but none of the
\* modes that set_cmd() never works out.
PlainKeys ==
    /\ \A h \in Handlers : Device[h] = "key" => Keys[h] \subseteq 0..7 \cup 128..135
    /\ \A g \in Garbage : Sensible(g)

(***************************************************************************)
(* The inductive invariant: the display mode and the windows are those of  *)
(* a mode of the list ...                                                  *)
(***************************************************************************)
WallOfMode ==
    /\ prev \in Modes /\ tow \in Modes
    /\ disp = DisplayOf(prev, 0)
    /\ vo = StartedBy(prev \div 10)

\* ... what is selected, or about to be, is such a mode, or refused ...
Selected(h) == Sensible(confirm) /\ Sensible(ret[h])

\* ... a move key has become a case of the layout on screen ...
NineKeys == {55, 56, 57, 58, 208, 209}
FourKeys == {45, 46, 47, 48} \cup Rotations

MoveKeys(h) ==
    /\ pc[h] = "adjust" => sig[h] \in {50, 51, 52, 53, 203, 204}
    /\ pc[h] \in {"check", "move"} /\ disp = 9 => sig[h] \in NineKeys
    /\ pc[h] \in {"check", "move"} /\ disp = 4 => sig[h] \in FourKeys
    /\ pc[h] = "move" => disp # 1

\* ... the titles are on windows of the layout; nothing is highlighted as long
\* as witch_mode_4 does not know which four screens are shown ...
TitlesOnWall ==
    /\ \A r \in osd : r.at \in vo
    /\ disp = 4 /\ four = 0 => \A r \in osd : ~r.big

\* ... and a channel that is fed is one of the mode.
FedIsShown(h) ==
    pc[h] # "mute" =>
        \A c \in Channels : mute[c] # 1 => \E p \in BoundIn(prev) : p[1] = c

Seen == CursorOnScreen /\ EveryWindowTitled /\ HighlightAtCursor /\ TitlesOnWall

IInv(h) == WallOfMode /\ Selected(h) /\ MoveKeys(h) /\ Seen /\ FedIsShown(h)

-----------------------------------------------------------------------------
\* The windows of a mode.
LEMMA WindowsOfMode ==
    ASSUME NEW m \in Modes
    PROVE  /\ DisplayOf(m, 0) = 9 => StartedBy(m \div 10) = 0..9 /\ m \in NineModes
           /\ DisplayOf(m, 0) = 4 => StartedBy(m \div 10) = 0..3 /\ m \in {140, 141, 142}
           /\ DisplayOf(m, 0) = 1 => StartedBy(m \div 10) = 0..0 /\ m \in SingleModes
           /\ DisplayOf(m, 0) \in {1, 4, 9}
           /\ \A d : DisplayOf(m, d) = DisplayOf(m, 0)
           /\ 0 \in StartedBy(m \div 10)
           /\ TitlesCleared(m) = StartedBy(m \div 10)
<1>1. CASE m \in SingleModes
  <2>1. m \div 10 = 10 /\ 0..0 = {0}
    BY <1>1 DEF SingleModes, Modes
  <2> QED BY <1>1, <2>1 DEF DisplayOf, StartedBy, TitlesCleared, SingleModes, FourModes, NineModes
<1>2. CASE m \in {140, 141, 142}
  <2>1. m \div 10 = 14
    BY <1>2
  <2> QED BY <1>2, <2>1 DEF DisplayOf, StartedBy, TitlesCleared, SingleModes, FourModes, NineModes
<1>3. CASE m \in 190..198
  <2>1. m \div 10 = 19
    BY <1>3
  <2> QED BY <1>3, <2>1
      DEF DisplayOf, StartedBy, TitlesCleared, SingleModes, FourModes, NineModes, Windows
<1> QED BY <1>1, <1>2, <1>3 DEF Modes, SingleModes

\* A mode draws its titles on its own windows, on each the title of the channel
\* bound to it.
LEMMA TitlesOfMode ==
    ASSUME NEW m \in Modes
    PROVE  /\ \A d \in TitlesDrawn(m) : d[1] \in StartedBy(m \div 10)
           /\ \A p \in BoundIn(m) : <<p[2], p[1]>> \in TitlesDrawn(m)
<1>1. CASE m \in SingleModes
  <2>1. BoundIn(m) = {<<m % 10, 0>>} /\ TitlesDrawn(m) = {<<0, m % 10>>}
    BY <1>1 DEF BoundIn, TitlesDrawn, SingleModes, NineModes
  <2>2. 0 \in StartedBy(m \div 10)
    BY WindowsOfMode
  <2> QED BY <2>1, <2>2
<1>2. CASE m = 140
  <2>1. BoundIn(m) = {<<i, i>> : i \in 0..3} /\ TitlesDrawn(m) = {<<i, i>> : i \in 0..3}
    BY <1>2 DEF BoundIn, TitlesDrawn, SingleModes, NineModes
  <2>2. StartedBy(m \div 10) = 0..3
    BY <1>2 DEF StartedBy
  <2> QED BY <2>1, <2>2
<1>3. CASE m = 141
  <2>1. BoundIn(m) = {<<i + 4, i>> : i \in 0..3} /\ TitlesDrawn(m) = {<<i - 4, i>> : i \in 4..7}
    BY <1>3 DEF BoundIn, TitlesDrawn, SingleModes, NineModes
  <2>2. StartedBy(m \div 10) = 0..3
    BY <1>3 DEF StartedBy
  <2>3. \A i \in 0..3 : i + 4 \in 4..7 /\ <<i, i + 4>> = <<(i + 4) - 4, i + 4>>
    OBVIOUS
  <2> QED BY <2>1, <2>2, <2>3
<1>4. CASE m = 142
  <2>1. /\ BoundIn(m) = {<<5, 0>>, <<6, 1>>, <<8, 2>>, <<7, 3>>}
        /\ TitlesDrawn(m) = {<<0, 5>>, <<1, 6>>, <<3, 7>>, <<2, 8>>}
    BY <1>4 DEF BoundIn, TitlesDrawn, SingleModes, NineModes
  <2>2. StartedBy(m \div 10) = 0..3
    BY <1>4 DEF StartedBy
  <2> QED BY <2>1, <2>2
<1>5. CASE m \in 190..198
  <2>1. m \div 10 = 19 /\ m \in NineModes /\ m \notin SingleModes
    BY <1>5 DEF NineModes, SingleModes
  <2>2. /\ BoundIn(m) = {<<i, IF i = m % 10 THEN BigWindow ELSE i>> : i \in Channels}
        /\ TitlesDrawn(m) = {<<IF i = m % 10 THEN BigWindow ELSE i, i>> : i \in Channels}
    BY <2>1 DEF BoundIn, TitlesDrawn, SingleModes, NineModes
  <2>3. StartedBy(m \div 10) = 0..9
    BY <2>1 DEF StartedBy
  <2> QED BY <2>2, <2>3 DEF Channels, BigWindow
<1> QED BY <1>1, <1>2, <1>3, <1>4, <1>5 DEF Modes, SingleModes

\* A mode mutes every channel it does not show.
LEMMA MutesTheRest ==
    ASSUME NEW m \in Modes, NEW c \in Channels, c \notin MutedIn(m)
    PROVE  \E p \in BoundIn(m) : p[1] = c
<1>1. CASE m \in SingleModes
  <2>1. MutedIn(m) = Channels \ {m % 10} /\ BoundIn(m) = {<<m % 10, 0>>}
    BY <1>1 DEF BoundIn, MutedIn, SingleModes, NineModes
  <2> QED BY <2>1
<1>2. CASE m = 140
  <2>1. MutedIn(m) = 4..8 /\ BoundIn(m) = {<<i, i>> : i \in 0..3}
    BY <1>2 DEF BoundIn, MutedIn, SingleModes, NineModes
  <2>2. c \in 0..3
    BY <2>1 DEF Channels
  <2>3. <<c, c>> \in BoundIn(m)
    BY <2>1, <2>2
  <2> QED BY <2>3
<1>3. CASE m = 141
  <2>1. MutedIn(m) = 0..3 \cup {8} /\ BoundIn(m) = {<<i + 4, i>> : i \in 0..3}
    BY <1>3 DEF BoundIn, MutedIn, SingleModes, NineModes
  <2>2. c - 4 \in 0..3 /\ (c - 4) + 4 = c
    BY <2>1 DEF Channels
  <2>3. <<c, c - 4>> \in BoundIn(m)
    BY <2>1, <2>2
  <2> QED BY <2>3
<1>4. CASE m = 142
  <2>1. /\ MutedIn(m) = 0..4
        /\ BoundIn(m) = {<<5, 0>>, <<6, 1>>, <<8, 2>>, <<7, 3>>}
    BY <1>4 DEF BoundIn, MutedIn, SingleModes, NineModes
  <2>2. c \in {5, 6, 7, 8}
    BY <2>1 DEF Channels
  <2> QED BY <2>1, <2>2
<1>5. CASE m \in 190..198
  <2>1. BoundIn(m) = {<<i, IF i = m % 10 THEN BigWindow ELSE i>> : i \in Channels}
    BY <1>5 DEF BoundIn, SingleModes, NineModes
  <2>2. <<c, IF c = m % 10 THEN BigWindow ELSE c>> \in BoundIn(m)
    BY <2>1
  <2> QED BY <2>2
<1> QED BY <1>1, <1>2, <1>3, <1>4, <1>5 DEF Modes, SingleModes

-----------------------------------------------------------------------------
(***************************************************************************)
(* A move stays on the layout, selects a mode of the list, and redraws the *)
(* window it leaves and the one it comes to.                               *)
(***************************************************************************)
Drawn(m) == \A d \in m.drawn : d[1] = pos[0] /\ d[3] = m.to

LEMMA NineMoves ==
    ASSUME NEW s \in NineKeys, TypeOK, CursorOnScreen, vo = 0..9, PlainKeys
    PROVE  /\ MoveOf(s).to \in 0..9
           /\ \A r \in MoveOf(s).ret : Sensible(r)
           /\ MoveOf(s).drawn = {} => MoveOf(s).to = pos[1]
           /\ Drawn(MoveOf(s))
<1> DEFINE step == NineStep(s, pos[0])
           to == NineTo(step)
<1>1. MoveOf(s) = NineMove(s)
  BY DEF MoveOf, NineKeys, FourKeys, Rotations
<1>2. pos[0] = pos[1] /\ pos[1] \in 0..9 /\ who \in 0..9
  BY DEF CursorOnScreen, TypeOK
<1>3. /\ step = "back" => pos[1] \in 1..8
      /\ step = "ahead" => pos[1] \in 0..7
      /\ step = "stay" /\ s \in {55, 56} => pos[1] \in 0..8
  BY <1>2 DEF NineStep, NineKeys
<1>4. to \in 0..9
  BY <1>2, <1>3 DEF NineTo, BigWindow
<1>5. \A r \in NineSelects(s, step, to) : Sensible(r)
  <2>1. CASE step = "big"
    <3>1. who + 100 \in Modes
      BY <1>2 DEF Modes
    <3> QED BY <2>1, <3>1 DEF NineSelects, Sensible
  <2>2. CASE step = "stay" /\ s \notin {55, 56}
    BY <2>2 DEF NineSelects, PlainKeys
  <2>3. CASE step # "big" /\ ~(step = "stay" /\ s \notin {55, 56})
    <3>1. to \in 0..8
      BY <1>2, <1>3, <2>3 DEF NineTo, NineStep, NineKeys
    <3>2. to + 190 \in Modes
      BY <3>1 DEF Modes
    <3>3. NineSelects(s, step, to) = {to + 190}
      BY <2>3 DEF NineSelects
    <3> QED BY <3>2, <3>3 DEF Sensible
  <2> QED BY <2>1, <2>2, <2>3
<1>6. NineMove(s).to = to /\ NineMove(s).ret = NineSelects(s, step, to)
  BY DEF NineMove
<1>7. step = "stay" => to = pos[1]
  BY DEF NineTo
<1>8. NineMove(s).drawn = IF step = "stay" THEN {}
                          ELSE {<<pos[0], NineTitle(pos[0]), to,
                                  IF step = "big" THEN who ELSE to>>}
  BY DEF NineMove
<1> HIDE DEF step, to
<1>9. NineMove(s).drawn = {} => to = pos[1]
  BY <1>7, <1>8
<1>10. \A d \in NineMove(s).drawn : d[1] = pos[0] /\ d[3] = to
  BY <1>8
<1> QED BY <1>1, <1>4, <1>5, <1>6, <1>9, <1>10 DEF Drawn

LEMMA FourMoves ==
    ASSUME NEW s \in FourKeys, TypeOK, CursorOnScreen, vo = 0..3, PlainKeys
    PROVE  /\ MoveOf(s).to \in 0..3
           /\ \A r \in MoveOf(s).ret : Sensible(r)
           /\ MoveOf(s).drawn = {} => four = 0 \/ MoveOf(s).to = pos[1]
           /\ MoveOf(s).drawn # {} => four # 0
           /\ Drawn(MoveOf(s))
<1> DEFINE to == FourTo(s)
           off == FourOffsets(s, to)
<1>1. MoveOf(s) = FourMove(s)
  BY DEF MoveOf, FourKeys, Rotations
<1>2. pos[0] = pos[1] /\ pos[1] \in 0..3 /\ four \in {0, 140, 141, 142}
  BY DEF CursorOnScreen, TypeOK
<1>3. to \in 0..3
  BY <1>2 DEF FourTo, FourKeys, Rotations
<1>4. \A e \in off : to + 100 + e[2] \in Modes
  <2>1. \A e \in off : e[2] \in 0..6
    BY <1>2 DEF FourOffsets, Arrow142
  <2> HIDE DEF to, off
  <2> QED BY <1>3, <2>1 DEF Modes
<1>5. off = {} => four = 0 \/ to = pos[1]
  <2>1. CASE four \in {0, 140, 141} \/ s \in Rotations
    <3>1. four = 140 => <<0, 0>> \in off
      BY DEF FourOffsets
    <3>2. four = 141 => <<4, 4>> \in off
      BY DEF FourOffsets
    <3>3. four = 142 /\ s \in Rotations => <<5, 5>> \in off
      BY DEF FourOffsets
    <3> HIDE DEF to, off
    <3> QED BY <1>2, <2>1, <3>1, <3>2, <3>3
  <2>2. CASE four = 142 /\ s \notin Rotations
    <3> SUFFICES ASSUME to # pos[1] PROVE off # {}
      OBVIOUS
    <3>1. PICK a \in Arrow142 : a[1] = s /\ a[2] = to
      BY <1>2, <2>2 DEF FourTo, FourKeys, Arrow142, Rotations
    <3>2. <<a[3], a[4]>> \in off
      BY <2>2, <3>1 DEF FourOffsets
    <3> QED BY <3>2
  <2> QED BY <1>2, <2>1, <2>2
<1>6. FourMove(s).to = to
  BY DEF FourMove
<1>7. FourMove(s).ret = IF off = {} THEN Garbage ELSE {to + 100 + e[2] : e \in off}
  BY Zenon DEF FourMove
<1>8. FourMove(s).drawn = {<<pos[0], pos[0] + e[1], to, to + e[2]>> : e \in off}
  BY DEF FourMove
<1> HIDE DEF to, off
<1>9. \A r \in FourMove(s).ret : Sensible(r)
  BY <1>4, <1>7 DEF PlainKeys, Sensible
<1>10. FourMove(s).drawn = {} => four = 0 \/ to = pos[1]
  BY <1>5, <1>8
<1>12. FourMove(s).drawn # {} => four # 0
  <2>1. four = 0 => off = {}
    BY DEF off, FourOffsets
  <2> QED BY <1>8, <2>1
<1>11. \A d \in FourMove(s).drawn : d[1] = pos[0] /\ d[3] = to
  BY <1>8
<1> QED BY <1>1, <1>3, <1>6, <1>9, <1>10, <1>11, <1>12 DEF Drawn

\* A move redraws two windows and leaves the other titles alone.
LEMMA Redraws ==
    ASSUME NEW o, NEW d
    PROVE  Redraw(o, d) =
             {r \in o : r.at \notin {d[1], d[3]}}
               \cup {r \in {[at |-> d[1], title |-> d[2], big |-> FALSE]} : d[1] # d[3]}
               \cup {[at |-> d[3], title |-> d[4], big |-> TRUE]}
<1> DEFINE old == [at |-> d[1], title |-> d[2], big |-> FALSE]
           new == [at |-> d[3], title |-> d[4], big |-> TRUE]
           plain == OsdInit(OsdDestroy(o, {d[1]}), d[1], d[2], FALSE)
<1>1. ASSUME NEW q, NEW w
      PROVE  /\ OsdDestroy(q, {w}) = {r \in q : r.at # w}
             /\ ~ \E r \in OsdDestroy(q, {w}) : r.at = w
  BY DEF OsdDestroy
<1>2. plain = {q \in o : q.at # d[1]} \cup {old}
  BY <1>1 DEF OsdInit
<1>3. Redraw(o, d) = OsdInit(OsdDestroy(plain, {d[3]}), d[3], d[4], TRUE)
  BY DEF Redraw
<1>4. Redraw(o, d) = {r \in plain : r.at # d[3]} \cup {new}
  <2> HIDE DEF plain
  <2> QED BY <1>1, <1>3 DEF OsdInit
<1>5. old.at = d[1]
  OBVIOUS
<1> HIDE DEF old, new, plain
<1>6. {r \in plain : r.at # d[3]}
        = {r \in o : r.at \notin {d[1], d[3]}} \cup {r \in {old} : d[1] # d[3]}
  BY <1>2, <1>5
<1> QED BY <1>4, <1>6 DEF old, new

\* What the operator sees stays in order when a move draws it again ...
LEMMA RedrawnInOrder ==
    ASSUME NEW d, NEW to, d[1] = pos[0], d[3] = to, to \in vo,
           TypeOK, Seen, disp = 4 => four # 0,
           osd' = Redraw(osd, d), pos' = [i \in 0..1 |-> to],
           UNCHANGED <<bound, vo, disp, four>>
    PROVE  Seen'
<1> DEFINE old == [at |-> d[1], title |-> d[2], big |-> FALSE]
           new == [at |-> d[3], title |-> d[4], big |-> TRUE]
<1>1. osd' = {r \in osd : r.at \notin {d[1], d[3]}} \cup {r \in {old} : d[1] # d[3]} \cup {new}
  BY Redraws
<1>2. old.at = pos[1] /\ old.big = FALSE /\ new.at = to
  BY DEF Seen, CursorOnScreen
<1>3. pos[1] \in vo /\ pos[0] = pos[1]
  BY DEF Seen, CursorOnScreen
<1> HIDE DEF old, new
<1>4. CursorOnScreen'
  BY DEF CursorOnScreen
<1>5. EveryWindowTitled'
  <2> SUFFICES ASSUME NEW p \in bound PROVE \E r \in osd' : r.at = p[2]
    BY DEF EveryWindowTitled
  <2>1. PICK r \in osd : r.at = p[2]
    BY DEF Seen, EveryWindowTitled
  <2>2. CASE r.at \notin {d[1], d[3]}
    BY <1>1, <2>1, <2>2
  <2>3. CASE r.at = d[3]
    BY <1>1, <1>2, <2>1, <2>3
  <2>4. CASE r.at = d[1] /\ d[1] # d[3]
    BY <1>1, <1>2, <1>3, <2>1, <2>4
  <2> QED BY <2>2, <2>3, <2>4
<1>6. HighlightAtCursor'
  <2> SUFFICES ASSUME NEW r \in osd', r.big PROVE r.at = to
    BY DEF HighlightAtCursor
  <2>1. CASE r \in osd /\ r.at \notin {d[1], d[3]}
    BY <1>3, <2>1 DEF Seen, HighlightAtCursor
  <2>2. CASE r = old
    BY <1>2, <2>2
  <2>3. CASE r = new
    BY <1>2, <2>3
  <2> QED BY <1>1, <2>1, <2>2, <2>3
<1>7. TitlesOnWall'
  BY <1>1, <1>2, <1>3 DEF Seen, TitlesOnWall
<1> QED BY <1>4, <1>5, <1>6, <1>7 DEF Seen

\* A switch destroys every title, and draws those of the new mode.
LEMMA DrawnAnew ==
    ASSUME NEW m \in Modes, WallOfMode, TitlesOnWall, Rebuild(m)
    PROVE  osd' = {[at |-> d[1], title |-> d[2], big |-> FALSE] : d \in TitlesDrawn(m)}
<1>1. OsdDestroy(osd, TitlesCleared(prev)) = {}
  BY WindowsOfMode DEF OsdDestroy, TitlesOnWall, WallOfMode
<1>2. osd' = OsdSwitch(osd, prev, m)
  BY DEF Rebuild
<1> QED BY <1>1, <1>2 DEF OsdSwitch, OsdDestroy

\* ... and when a switch has drawn it anew.
LEMMA SwitchedInOrder ==
    ASSUME NEW m \in Modes, WallOfMode, TitlesOnWall, TypeOK, Rebuild(m),
           pos' = CursorHome, BindingsMatchMode'
    PROVE  WallOfMode' /\ Seen'
<1>1. vo' = StartedBy(m \div 10)
  <2>1. vo \ StoppedBy(prev \div 10) = {}
    BY DEF WallOfMode, StartedBy, StoppedBy, TypeOK
  <2> QED BY <2>1 DEF Rebuild, WallOfMode
<1>2. WallOfMode'
  <2>1. disp' = DisplayOf(m, 0)
    BY WindowsOfMode DEF Rebuild
  <2> QED BY <1>1, <2>1 DEF Rebuild, WallOfMode
<1>3. osd' = {[at |-> d[1], title |-> d[2], big |-> FALSE] : d \in TitlesDrawn(m)}
  BY DrawnAnew
<1>4. CursorOnScreen'
  BY <1>1, WindowsOfMode DEF CursorOnScreen, CursorHome
<1>5. EveryWindowTitled'
  <2> SUFFICES ASSUME NEW p \in bound' PROVE \E r \in osd' : r.at = p[2]
    BY DEF EveryWindowTitled
  <2>1. p \in BoundIn(m)
    BY DEF BindingsMatchMode, Rebuild
  <2>2. PICK d \in TitlesDrawn(m) : d = <<p[2], p[1]>>
    BY <2>1, TitlesOfMode
  <2>3. [at |-> d[1], title |-> d[2], big |-> FALSE] \in osd'
    BY <1>3
  <2>4. d[1] = p[2]
    BY <2>2
  <2> QED BY <2>3, <2>4
<1>6. \A r \in osd' : r.big = FALSE /\ r.at \in vo'
  BY <1>1, <1>3, TitlesOfMode
<1> QED BY <1>2, <1>4, <1>5, <1>6 DEF Seen, HighlightAtCursor, TitlesOnWall

-----------------------------------------------------------------------------
\* The commands of the remote's and the panel's keys.
LEMMA Commands ==
    ASSUME NEW h \in Handlers, NEW k \in Keys[h], IsCommand(h, k), PlainKeys
    PROVE  CmdOf(Code(h, k)) \in Special \cup {50, 51, 52, 53, 201, 203, 204}
<1>1. Code(h, k) \in 0..11 \cup 128..135
  BY DeviceAssumption, KeysAssumption DEF Code, IsCommand, PlainKeys
<1>2. \A c \in 0..11 : RemoteCmd[c + 1] \in Special \cup {50, 51, 52, 53, 201, 203, 204}
  BY DEF RemoteCmd, Special
<1>3. \A c \in 128..135 : PanelCmd[c - 127] \in Special \cup {50, 51, 52, 53, 201, 203, 204}
  BY DEF PanelCmd, Special
<1> QED BY <1>1, <1>2, <1>3 DEF CmdOf

LEMMA InitInOrder ==
    ASSUME NEW h, Handlers = {h}, Init
    PROVE  IInv(h)
<1>1. WallOfMode
  BY DEF Init, WallOfMode, Modes, DisplayOf, SingleModes, FourModes, NineModes
<1>2. Selected(h) /\ MoveKeys(h)
  BY DEF Init, Selected, Sensible, Accepted, MoveKeys
<1>3. vo = 0..9 /\ 190 \in Modes /\ 190 \div 10 = 19
  BY DEF Init, StartedBy, Modes
<1>4. Seen
  <2>1. osd = {[at |-> d[1], title |-> d[2], big |-> FALSE] : d \in TitlesDrawn(190)}
                \cup {[at |-> 0, title |-> 0, big |-> FALSE]}
    BY DEF Init, OsdSwitch, OsdDestroy
  <2>2. \A r \in osd : r.big = FALSE /\ r.at \in vo
    BY <1>3, <2>1, TitlesOfMode DEF StartedBy
  <2>3. EveryWindowTitled
    <3> SUFFICES ASSUME NEW p \in bound PROVE \E r \in osd : r.at = p[2]
      BY DEF EveryWindowTitled
    <3>1. PICK d \in TitlesDrawn(190) : d = <<p[2], p[1]>>
      BY <1>3, TitlesOfMode DEF Init
    <3>2. [at |-> d[1], title |-> d[2], big |-> FALSE] \in osd
      BY <2>1
    <3>3. d[1] = p[2]
      BY <3>1
    <3> QED BY <3>2, <3>3
  <2>4. CursorOnScreen
    BY <1>3 DEF Init, CursorOnScreen
  <2> QED BY <2>2, <2>3, <2>4 DEF Seen, HighlightAtCursor, TitlesOnWall
<1>5. FedIsShown(h)
  <2> SUFFICES ASSUME NEW c \in Channels PROVE \E p \in BoundIn(190) : p[1] = c
    BY DEF Init, FedIsShown
  <2>1. c \notin MutedIn(190)
    BY DEF MutedIn, SingleModes
  <2> QED BY <1>3, <2>1, MutesTheRest
<1> QED BY <1>1, <1>2, <1>4, <1>5 DEF IInv

\* A step that leaves the wall, the cursor and the titles alone.
LEMMA StaysInOrder ==
    ASSUME NEW h, IInv(h), UNCHANGED <<wall, pos, osd>>, four' = four \/ four' # 0
    PROVE  WallOfMode' /\ Seen'
  BY DEF IInv, WallOfMode, Seen, CursorOnScreen, EveryWindowTitled, HighlightAtCursor,
         TitlesOnWall, wall

LEMMA MoveInOrder ==
    ASSUME NEW h, Handlers = {h}, PlainKeys, TypeOK, IInv(h), Move(h)
    PROVE  IInv(h)'
<1> DEFINE m == MoveOf(sig[h])
<1>1. disp \in {1, 4, 9} /\ disp # 1
  BY DEF Move, TypeOK, IInv, MoveKeys
<1>2. /\ m.to \in vo
      /\ \A r \in m.ret : Sensible(r)
      /\ m.drawn = {} => m.to = pos[1] \/ (disp = 4 /\ four = 0)
      /\ m.drawn # {} /\ disp = 4 => four # 0
      /\ Drawn(m)
  <2>1. CASE disp = 9
    <3>1. vo = 0..9 /\ sig[h] \in NineKeys
      BY <2>1, WindowsOfMode DEF IInv, WallOfMode, MoveKeys, Move
    <3>2. CursorOnScreen
      BY DEF IInv, Seen
    <3> HIDE DEF m
    <3> QED BY <2>1, <3>1, <3>2, NineMoves DEF m
  <2>2. CASE disp = 4
    <3>1. vo = 0..3 /\ sig[h] \in FourKeys
      BY <2>2, WindowsOfMode DEF IInv, WallOfMode, MoveKeys, Move
    <3>2. CursorOnScreen
      BY DEF IInv, Seen
    <3> HIDE DEF m
    <3> QED BY <2>2, <3>1, <3>2, FourMoves DEF m
  <2> QED BY <1>1, <2>1, <2>2
<1>3. /\ \E r \in m.ret : ret' = [ret EXCEPT ![h] = r]
      /\ pos' = [i \in 0..1 |-> m.to]
      /\ osd' = IF m.drawn = {} THEN osd ELSE Redraw(osd, CHOOSE d \in m.drawn : TRUE)
      /\ pc' = [pc EXCEPT ![h] = "confirm"]
      /\ UNCHANGED <<wall, confirm, four, sig, exec, under>>
  BY DEF Move
<1>4. WallOfMode' /\ FedIsShown(h)'
  BY <1>3 DEF IInv, WallOfMode, FedIsShown, wall, Move, TypeOK
<1>5. pc'[h] = "confirm"
  BY <1>3 DEF TypeOK
<1>6. Selected(h)' /\ MoveKeys(h)'
  BY <1>2, <1>3, <1>5 DEF IInv, Selected, Sensible, MoveKeys, TypeOK
<1>7. Seen'
  <2> HIDE DEF m
  <2>1. CASE m.drawn = {}
    <3>1. osd' = osd /\ bound' = bound /\ vo' = vo /\ disp' = disp /\ four' = four
      BY <1>3, <2>1 DEF wall
    <3>2. CursorOnScreen'
      BY <1>2, <1>3, <3>1 DEF CursorOnScreen
    <3>3. HighlightAtCursor'
      <4>1. CASE m.to = pos[1]
        BY <1>3, <3>1, <4>1 DEF IInv, Seen, HighlightAtCursor
      <4>2. CASE disp = 4 /\ four = 0
        BY <3>1, <4>2 DEF IInv, Seen, TitlesOnWall, HighlightAtCursor
      <4> QED BY <1>2, <2>1, <4>1, <4>2
    <3> QED BY <3>1, <3>2, <3>3 DEF IInv, Seen, EveryWindowTitled, TitlesOnWall
  <2>2. CASE m.drawn # {}
    <3> DEFINE d == CHOOSE e \in m.drawn : TRUE
    <3>1. d \in m.drawn
      BY <2>2
    <3>2. osd' = Redraw(osd, d)
      BY <1>3, <2>2
    <3> HIDE DEF d
    <3>3. d[1] = pos[0] /\ d[3] = m.to
      BY <1>2, <3>1 DEF Drawn
    <3>4. UNCHANGED <<bound, vo, disp, four>>
      BY <1>3 DEF wall
    <3> QED BY <1>2, <1>3, <2>2, <3>2, <3>3, <3>4, RedrawnInOrder DEF IInv
  <2> QED BY <2>1, <2>2
<1> QED BY <1>4, <1>6, <1>7 DEF IInv

(***************************************************************************)
(* Every step keeps the invariant.                                         *)
(***************************************************************************)
LEMMA InOrder ==
    ASSUME NEW h, Handlers = {h}, PlainKeys
    PROVE  Spec => []IInv(h)
<1>1. TypeOK /\ BindingsMatchMode' /\ MutesMatchMode(h) /\ AcceptedOnTheWay(h) /\ IInv(h)
        /\ [Next]_vars => IInv(h)'
  <2> SUFFICES ASSUME TypeOK, BindingsMatchMode', MutesMatchMode(h), AcceptedOnTheWay(h),
                      IInv(h), [Next]_vars
               PROVE  IInv(h)'
    OBVIOUS
  <2>1. ASSUME NEW k \in Keys[h], Press(h, k) PROVE IInv(h)'
    <3> DEFINE cmd == CmdOf(Code(h, k))
    <3>1. cmd \in Special \cup {50, 51, 52, 53, 201, 203, 204}
      BY <2>1, Commands DEF Press
    <3> HIDE DEF cmd
    <3>2. Press(h, k) => /\ four' = IF cmd \in 140..142 THEN cmd ELSE four
                         /\ sig' = [sig EXCEPT ![h] = cmd]
                         /\ pc' = [pc EXCEPT ![h] = CASE cmd \in Special -> "confirm"
                                                      [] cmd = 201       -> "test"
                                                      [] OTHER           -> "adjust"]
                         /\ ret' = [ret EXCEPT ![h] = IF cmd \in Special THEN SpecialRet(cmd) ELSE 0]
                         /\ pc[h] = "idle"
                         /\ UNCHANGED <<wall, confirm, pos, osd, mutex>>
      BY DEF Press, Active, cmd
    <3>3. WallOfMode' /\ Seen'
      BY <2>1, <3>2, StaysInOrder
    <3>4. Sensible(ret'[h])
      <4>1. cmd \in Special => Sensible(SpecialRet(cmd))
        BY DEF Special, SpecialRet, Sensible, Accepted, Modes, IInv, WallOfMode
      <4>2. Sensible(0)
        BY DEF Sensible, Accepted
      <4> QED BY <2>1, <3>2, <4>1, <4>2 DEF TypeOK
    <3>5. Selected(h)' /\ MoveKeys(h)' /\ FedIsShown(h)'
      BY <2>1, <3>1, <3>2, <3>4 DEF IInv, Selected, MoveKeys, FedIsShown, Special, TypeOK, wall
    <3> QED BY <3>3, <3>5 DEF IInv
  <2>2. ASSUME Lock(h) PROVE IInv(h)'
    <3>1. WallOfMode' /\ Seen'
      BY <2>2, StaysInOrder DEF Lock
    <3> QED BY <2>2, <3>1 DEF Lock, IInv, Selected, MoveKeys, FedIsShown, wall, frame
  <2>3. ASSUME Test(h) \/ Signal(h) PROVE IInv(h)'
    <3>1. WallOfMode' /\ Seen'
      BY <2>3, StaysInOrder DEF Test, Signal
    <3> QED BY <2>3, <3>1 DEF Test, Signal, IInv, Selected, MoveKeys, FedIsShown, TypeOK, wall
  <2>4. ASSUME Adjust(h) PROVE IInv(h)'
    <3>1. pos' = pos
      <4>1. pos[0] = pos[1] /\ pos[1] \in vo
        BY DEF IInv, Seen, CursorOnScreen
      <4>2. disp = 9 => pos[0] \in 0..9 /\ pos[1] \in 0..9
        BY <4>1, WindowsOfMode DEF IInv, WallOfMode
      <4>3. disp = 4 => ~(pos[0] > 3)
        BY <4>1, WindowsOfMode DEF IInv, WallOfMode
      <4>4. \A i \in 0..1 : i = 0 \/ i = 1
        OBVIOUS
      <4> QED BY <2>4, <4>2, <4>3, <4>4 DEF Adjust
    <3>2. WallOfMode' /\ Seen'
      BY <2>4, <3>1, StaysInOrder DEF Adjust
    <3>3. /\ sig[h] \in {50, 51, 52, 53, 203, 204} /\ pc'[h] = "check"
          /\ disp = 9 => sig'[h] = sig[h] + 5
          /\ disp = 4 => sig'[h] = IF sig[h] \in {203, 204} THEN sig[h] + 10 ELSE sig[h] - 5
      BY <2>4 DEF Adjust, IInv, MoveKeys, TypeOK
    <3>4. disp' = disp
      BY <2>4 DEF Adjust, wall
    <3>5. MoveKeys(h)'
      BY <3>3, <3>4 DEF MoveKeys, NineKeys, FourKeys, Rotations
    <3> QED BY <2>4, <3>2, <3>3, <3>5 DEF Adjust, IInv, Selected, FedIsShown, TypeOK, wall
  <2>5. ASSUME Check(h) PROVE IInv(h)'
    <3>1. WallOfMode' /\ Seen'
      BY <2>5, StaysInOrder DEF Check
    <3> QED BY <2>5, <3>1 DEF Check, IInv, Selected, MoveKeys, FedIsShown, TypeOK, wall
  <2>6. ASSUME Move(h) PROVE IInv(h)'
    BY <2>6, MoveInOrder
  <2>7. ASSUME Confirm(h) PROVE IInv(h)'
    <3>1. WallOfMode' /\ Seen'
      BY <2>7, StaysInOrder DEF Confirm
    <3> QED BY <2>7, <3>1 DEF Confirm, IInv, Selected, MoveKeys, FedIsShown, TypeOK, wall
  <2>8. ASSUME Accept(h) PROVE IInv(h)'
    <3>1. WallOfMode' /\ Seen'
      BY <2>8, StaysInOrder DEF Accept
    <3>2. Sensible(0)
      BY DEF Sensible, Accepted
    <3> QED BY <2>8, <3>1, <3>2
            DEF Accept, Return, IInv, Selected, MoveKeys, FedIsShown, TypeOK, wall
  <2>9. ASSUME Switch(h) PROVE IInv(h)'
    <3>1. confirm \in Modes /\ Rebuild(confirm) /\ pos' = CursorHome /\ pc'[h] = "mute"
      BY <2>9 DEF Switch, AcceptedOnTheWay, IInv, Selected, Sensible, TypeOK
    <3>2. WallOfMode' /\ Seen'
      BY <3>1, SwitchedInOrder DEF IInv, Seen
    <3> QED BY <2>9, <3>1, <3>2 DEF Switch, IInv, Selected, MoveKeys, FedIsShown
  <2>10. ASSUME Mute(h) PROVE IInv(h)'
    <3>1. WallOfMode' /\ Seen'
      BY <2>10 DEF Mute, IInv, WallOfMode, Seen, CursorOnScreen, EveryWindowTitled,
                   HighlightAtCursor, TitlesOnWall
    <3>2. pc'[h] = "idle" /\ ret'[h] = 0 /\ prev' = prev /\ confirm' = confirm
      BY <2>10 DEF Mute, Return, TypeOK
    <3>3. FedIsShown(h)'
      <4> SUFFICES ASSUME NEW c \in Channels, mute'[c] # 1 PROVE \E p \in BoundIn(prev) : p[1] = c
        BY <3>2 DEF FedIsShown
      <4>1. mute' = [x \in 0..9 |-> IF x \in MutedIn(confirm) THEN 1 ELSE mute[x]]
        BY <2>10 DEF Mute
      <4>2. confirm = prev
        BY <2>10 DEF Mute, MutesMatchMode
      <4>3. c \notin MutedIn(prev)
        BY <4>1, <4>2 DEF Channels
      <4> QED BY <4>3, MutesTheRest DEF IInv, WallOfMode
    <3>4. Sensible(0)
      BY DEF Sensible, Accepted
    <3> QED BY <3>1, <3>2, <3>3, <3>4 DEF IInv, Selected, MoveKeys
  <2>11. ASSUME NEW t \in Threads, Take(t) \/ Release(t) PROVE IInv(h)'
    <3>1. WallOfMode' /\ Seen'
      BY <2>11, StaysInOrder DEF Take, Release
    <3> QED BY <2>11, <3>1 DEF Take, Release, IInv, Selected, MoveKeys, FedIsShown, wall, frame
  <2>12. CASE UNCHANGED vars
    <3>1. WallOfMode' /\ Seen'
      BY <2>12, StaysInOrder DEF vars, wall
    <3> QED BY <2>12, <3>1 DEF vars, IInv, Selected, MoveKeys, FedIsShown
  <2> QED BY <2>1, <2>2, <2>3, <2>4, <2>5, <2>6, <2>7, <2>8, <2>9, <2>10, <2>11, <2>12
          DEF Next, Step
<1>2. Init => IInv(h)
  BY InitInOrder
<1> QED BY <1>1, <1>2, TypeCorrect, BindingsCorrect, MutesInductive, PTL DEF Spec

-----------------------------------------------------------------------------
(***************************************************************************)
(* The cursor never leaves the windows of the layout on screen.            *)
(***************************************************************************)
THEOREM CursorCorrect ==
    ASSUME NEW h, Handlers = {h}, PlainKeys
    PROVE  Spec => []CursorOnScreen
<1>1. IInv(h) => CursorOnScreen
  BY DEF IInv, Seen
<1> QED BY <1>1, InOrder, PTL

(***************************************************************************)
(* At most one window is highlighted, the cursor's.                        *)
(***************************************************************************)
THEOREM HighlightCorrect ==
    ASSUME NEW h, Handlers = {h}, PlainKeys
    PROVE  Spec => []HighlightAtCursor
<1>1. IInv(h) => HighlightAtCursor
  BY DEF IInv, Seen
<1> QED BY <1>1, InOrder, PTL

(***************************************************************************)
(* Every window that shows a channel has a title, although drawing a title *)
(* twice destroys it.                                                      *)
(***************************************************************************)
THEOREM TitlesCorrect ==
    ASSUME NEW h, Handlers = {h}, PlainKeys
    PROVE  Spec => []EveryWindowTitled
<1>1. IInv(h) => EveryWindowTitled
  BY DEF IInv, Seen
<1> QED BY <1>1, InOrder, PTL

(***************************************************************************)
(* A channel that is on no window is muted once the handler is done.       *)
(***************************************************************************)
THEOREM HiddenAreMuted ==
    ASSUME NEW h, Handlers = {h}, PlainKeys
    PROVE  Spec => []HiddenMuted
<1>1. IInv(h) /\ BindingsMatchMode => HiddenMuted
  BY DEF IInv, FedIsShown, HiddenMuted, BindingsMatchMode
<1> QED BY <1>1, InOrder, BindingsCorrect, PTL

-----------------------------------------------------------------------------
(***************************************************************************)
(* What a move draws and what it selects belong together: the title on the *)
(* new window, and the mode of that window.                                *)
(***************************************************************************)

LEMMA NineDraws ==
    ASSUME NEW s \in NineKeys, TypeOK, CursorOnScreen, vo = 0..9
    PROVE  /\ \A d \in MoveOf(s).drawn : /\ d[1] = pos[0]
                                         /\ d[2] = NineTitle(d[1])
                                         /\ d[4] = NineTitle(d[3])
           /\ \A d \in MoveOf(s).drawn : \A r \in MoveOf(s).ret :
                 r # 0 /\ r = IF d[3] # BigWindow THEN 190 + d[3] ELSE 100 + d[4]
           /\ MoveOf(s).drawn = {} =>
                 \A r \in MoveOf(s).ret :
                    \/ pos[1] # BigWindow /\ r = 190 + pos[1]
                    \/ pos[1] \in DeadEnds /\ r \in Garbage
<1> DEFINE step == NineStep(s, pos[0])
           to == NineTo(step)
           title == IF step = "big" THEN who ELSE to
<1>1. MoveOf(s) = NineMove(s)
  BY DEF MoveOf, NineKeys, FourKeys, Rotations
<1>2. pos[0] = pos[1] /\ pos[1] \in 0..9 /\ who \in 0..9
  BY DEF CursorOnScreen, TypeOK
<1>3. /\ step = "back" => pos[1] \in 1..8
      /\ step = "ahead" => pos[1] \in 0..7
      /\ step = "stay" /\ s \in {55, 56} => pos[1] \in 0..8
      /\ step \in {"back", "ahead", "big", "eight", "zero", "stay"}
  BY <1>2 DEF NineStep, NineKeys
<1>4. /\ step = "big" => to = BigWindow
      /\ step \notin {"big", "stay"} => to \in 0..8
      /\ step = "stay" => to = pos[1]
  BY <1>2, <1>3 DEF NineTo, BigWindow
<1>5. NineMove(s).ret = NineSelects(s, step, to)
  BY DEF NineMove
<1>6. /\ step = "big" => NineSelects(s, step, to) = {who + 100}
      /\ step = "stay" /\ s \notin {55, 56} => NineSelects(s, step, to) = Garbage
      /\ step = "stay" /\ s \in {55, 56} => NineSelects(s, step, to) = {to + 190}
      /\ step \notin {"big", "stay"} => NineSelects(s, step, to) = {to + 190}
  BY DEF NineSelects
<1>7. NineMove(s).drawn = IF step = "stay" THEN {}
                          ELSE {<<pos[0], NineTitle(pos[0]), to, title>>}
  BY DEF NineMove
<1>8. step # "stay" => title = NineTitle(to)
  BY <1>4 DEF NineTitle, BigWindow
<1>13. step = "stay" /\ s \notin {55, 56} => pos[1] \in DeadEnds
  BY <1>2 DEF DeadEnds, Windows, NineKeys
<1> HIDE DEF step, to
<1>9. step # "stay" => \A r \in NineSelects(s, step, to) :
                          r # 0 /\ r = IF to # BigWindow THEN 190 + to ELSE 100 + title
  BY <1>2, <1>4, <1>6 DEF BigWindow
<1>10. step = "stay" => \A r \in NineSelects(s, step, to) :
                          \/ pos[1] # BigWindow /\ r = 190 + pos[1]
                          \/ pos[1] \in DeadEnds /\ r \in Garbage
  BY <1>2, <1>3, <1>4, <1>6, <1>13 DEF BigWindow
<1> HIDE DEF title
<1>11. \A d \in NineMove(s).drawn : /\ step # "stay"
                                    /\ d[1] = pos[0] /\ d[2] = NineTitle(pos[0])
                                    /\ d[3] = to /\ d[4] = title
  BY <1>7
<1>12. NineMove(s).drawn = {} => step = "stay"
  BY <1>7
<1> QED BY <1>1, <1>5, <1>8, <1>9, <1>10, <1>11, <1>12

LEMMA FourDraws ==
    ASSUME NEW s \in FourKeys, TypeOK, CursorOnScreen, vo = 0..3
    PROVE  /\ \A d \in MoveOf(s).drawn : d[1] = pos[0]
           /\ \A d \in MoveOf(s).drawn : \A r \in MoveOf(s).ret :
                 r # 0 /\ r = 100 + d[4]
           /\ MoveOf(s).drawn = {} => four = 0
<1> DEFINE to == FourTo(s)
           off == FourOffsets(s, to)
<1>1. MoveOf(s) = FourMove(s)
  BY DEF MoveOf, FourKeys, Rotations
<1>2. pos[0] = pos[1] /\ pos[1] \in 0..3 /\ four \in {0, 140, 141, 142}
  BY DEF CursorOnScreen, TypeOK
<1>3. to \in 0..3
  BY <1>2 DEF FourTo, FourKeys, Rotations
<1>4. \A e \in off : e[2] \in 0..6
  BY DEF FourOffsets, Arrow142
<1>11. off = {} => four = 0
  <2>1. CASE four \in {0, 140, 141} \/ s \in Rotations
    <3>1. four = 140 => <<0, 0>> \in off
      BY DEF FourOffsets
    <3>2. four = 141 => <<4, 4>> \in off
      BY DEF FourOffsets
    <3>3. four = 142 /\ s \in Rotations => <<5, 5>> \in off
      BY DEF FourOffsets
    <3> HIDE DEF to, off
    <3> QED BY <1>2, <2>1, <3>1, <3>2, <3>3
  <2>2. CASE four = 142 /\ s \notin Rotations
    <3>1. PICK a \in Arrow142 : a[1] = s /\ a[2] = to
      BY <1>2, <2>2 DEF FourTo, FourKeys, Arrow142, Rotations
    <3>2. <<a[3], a[4]>> \in off
      BY <2>2, <3>1 DEF FourOffsets
    <3> QED BY <3>2
  <2> QED BY <1>2, <2>1, <2>2
<1>5. \A e, f \in off : e = f
  BY DEF FourOffsets, Arrow142
<1>6. FourMove(s).ret = IF off = {} THEN Garbage ELSE {to + 100 + e[2] : e \in off}
  BY Zenon DEF FourMove
<1>7. FourMove(s).drawn = {<<pos[0], pos[0] + e[1], to, to + e[2]>> : e \in off}
  BY DEF FourMove
<1> HIDE DEF to, off
<1>8. ASSUME NEW d \in FourMove(s).drawn, NEW r \in FourMove(s).ret PROVE r # 0 /\ r = 100 + d[4]
  <2>1. PICK e \in off : d = <<pos[0], pos[0] + e[1], to, to + e[2]>>
    BY <1>7, <1>8
  <2>2. PICK f \in off : r = to + 100 + f[2]
    BY <1>6, <1>8, <2>1
  <2>3. e = f
    BY <1>5
  <2> QED BY <1>3, <1>4, <2>1, <2>2, <2>3
<1>9. FourMove(s).drawn = {} => off = {}
  BY <1>7
<1>10. \A d \in FourMove(s).drawn : d[1] = pos[0]
  BY <1>7
<1> QED BY <1>1, <1>8, <1>9, <1>10, <1>11

(***************************************************************************)
(* What the highlight says of a mode: the confirm key would act on it, or  *)
(* it is garbage from an arrow that led nowhere.                           *)
(***************************************************************************)
SaidByHighlight(c) ==
    \A r \in osd : r.big /\ Accepted(c) =>
        \/ c = Highlighted(r)
        \/ disp = 9 /\ r.at \in DeadEnds /\ c \in Garbage

(***************************************************************************)
(* The selection, inductively: what the highlight says is cmd_confirm, or  *)
(* on its way to it; a key that executes will draw the wall anew, without  *)
(* a highlight.                                                            *)
(***************************************************************************)
Late == {"confirm", "accept", "switch", "mute"}

Selection(h) ==
    /\ pc[h] \notin {"confirm", "accept", "switch"} => SaidByHighlight(confirm)
    /\ pc[h] = "confirm" /\ ret[h] = 0 => SaidByHighlight(confirm)
    /\ pc[h] = "confirm" /\ ret[h] # 0 =>
          SaidByHighlight(ret[h]) \/ (exec[h] /\ Accepted(ret[h]))
    /\ pc[h] = "accept" => SaidByHighlight(confirm) \/ (exec[h] /\ Accepted(confirm))
    /\ pc[h] = "mute" => \A r \in osd : ~r.big
    /\ pc[h] \notin Late => ret[h] = 0

\* A move puts the highlight where it says what the move selects.
LEMMA MoveSays ==
    ASSUME NEW h, Handlers = {h}, TypeOK, IInv(h), Move(h)
    PROVE  /\ SaidByHighlight(ret[h])'
           /\ ret'[h] = 0 => osd' = osd
<1> DEFINE m == MoveOf(sig[h])
<1>1. disp \in {4, 9} /\ HighlightAtCursor /\ CursorOnScreen
  BY DEF Move, TypeOK, IInv, MoveKeys, Seen
<1>2. /\ \A d \in m.drawn : d[1] = pos[0]
      /\ \A d \in m.drawn : \A r \in m.ret :
            r # 0 /\ r = IF disp = 9 /\ d[3] # BigWindow THEN 190 + d[3] ELSE 100 + d[4]
      /\ m.drawn = {} => \A r \in m.ret :
            \/ disp = 9 /\ pos[1] # BigWindow /\ r = 190 + pos[1]
            \/ disp = 9 /\ pos[1] \in DeadEnds /\ r \in Garbage
            \/ disp = 4 /\ four = 0
  <2>1. CASE disp = 9
    <3>1. vo = 0..9 /\ sig[h] \in NineKeys
      BY <2>1, WindowsOfMode DEF IInv, WallOfMode, MoveKeys, Move
    <3> HIDE DEF m
    <3> QED BY <1>1, <2>1, <3>1, NineDraws DEF m
  <2>2. CASE disp = 4
    <3>1. vo = 0..3 /\ sig[h] \in FourKeys
      BY <2>2, WindowsOfMode DEF IInv, WallOfMode, MoveKeys, Move
    <3> HIDE DEF m
    <3> QED BY <1>1, <2>2, <3>1, FourDraws DEF m
  <2> QED BY <1>1, <2>1, <2>2
<1>3. PICK r \in m.ret : ret' = [ret EXCEPT ![h] = r]
  BY DEF Move
<1>4. ret'[h] = r /\ disp' = disp
  BY <1>3 DEF Move, TypeOK, wall
<1>5. osd' = IF m.drawn = {} THEN osd ELSE Redraw(osd, CHOOSE d \in m.drawn : TRUE)
  BY DEF Move
<1> HIDE DEF m
<1>6. r = 0 => osd' = osd
  BY <1>2, <1>5
<1> SUFFICES ASSUME NEW q \in osd', q.big
             PROVE  \/ r = IF disp = 9 /\ q.at # BigWindow THEN 190 + q.at ELSE 100 + q.title
                    \/ disp = 9 /\ q.at \in DeadEnds /\ r \in Garbage
  <2>1. DeadEnds' = DeadEnds
    BY DEF DeadEnds
  <2> QED BY <1>4, <1>6, <2>1 DEF SaidByHighlight, Highlighted
<1>7. CASE m.drawn = {}
  <2>1. q.at = pos[1] /\ q \in osd
    BY <1>1, <1>5, <1>7 DEF HighlightAtCursor
  <2>2. ~(disp = 4 /\ four = 0)
    BY <2>1 DEF IInv, Seen, TitlesOnWall
  <2> QED BY <1>2, <1>7, <2>1, <2>2
<1>8. CASE m.drawn # {}
  <2> DEFINE d == CHOOSE e \in m.drawn : TRUE
  <2>1. d \in m.drawn
    BY <1>8
  <2>2. osd' = Redraw(osd, d)
    BY <1>5, <1>8
  <2> HIDE DEF d
  <2>3. r = IF disp = 9 /\ d[3] # BigWindow THEN 190 + d[3] ELSE 100 + d[4]
    BY <1>2, <2>1
  <2>4. q = [at |-> d[3], title |-> d[4], big |-> TRUE]
    <3>1. q \in osd => q.at = d[1]
      BY <1>1, <1>2, <2>1 DEF HighlightAtCursor, CursorOnScreen
    <3>2. q # [at |-> d[1], title |-> d[2], big |-> FALSE]
      OBVIOUS
    <3> QED BY <2>2, <3>1, <3>2, Redraws
  <2>5. q.at = d[3] /\ q.title = d[4]
    BY <2>4
  <2> QED BY <2>3, <2>5
<1> QED BY <1>7, <1>8

LEMMA SelectionKept ==
    ASSUME NEW h, Handlers = {h}, PlainKeys
    PROVE  Spec => []Selection(h)
<1>1. Init => Selection(h)
  <2>1. Init => /\ pc[h] = "idle" /\ ret[h] = 0
                /\ ~Accepted(confirm)
    BY DEF Init, Accepted
  <2> QED BY <2>1 DEF Selection, SaidByHighlight, Late
<1>2. TypeOK /\ AcceptedOnTheWay(h) /\ IInv(h) /\ Selection(h)
        /\ [Next]_vars => Selection(h)'
  <2> SUFFICES ASSUME TypeOK, AcceptedOnTheWay(h), IInv(h), Selection(h), [Next]_vars
               PROVE  Selection(h)'
    OBVIOUS
  <2> DEFINE Still == disp' = disp /\ osd' = osd /\ confirm' = confirm
  <2>1. Still => (SaidByHighlight(confirm)' <=> SaidByHighlight(confirm))
    BY DEF SaidByHighlight, Highlighted
  <2>2. ASSUME NEW k \in Keys[h], Press(h, k) PROVE Selection(h)'
    <3> DEFINE cmd == CmdOf(Code(h, k))
    <3>1. cmd \in Special \cup {50, 51, 52, 53, 201, 203, 204}
      BY <2>2, Commands DEF Press
    <3> HIDE DEF cmd
    <3>2. /\ pc' = [pc EXCEPT ![h] = CASE cmd \in Special -> "confirm"
                                       [] cmd = 201       -> "test"
                                       [] OTHER           -> "adjust"]
          /\ ret' = [ret EXCEPT ![h] = IF cmd \in Special THEN SpecialRet(cmd) ELSE 0]
          /\ pc[h] = "idle"
          /\ Still
      BY <2>2 DEF Press, Active, cmd, wall
    <3>6. exec' = [exec EXCEPT ![h] = cmd \in Special]
      BY <2>2 DEF Press, cmd
    <3>3. SaidByHighlight(confirm)'
      BY <2>1, <3>2 DEF Selection
    <3>4. CASE cmd \in Special
      <4>1. pc'[h] = "confirm" /\ ret'[h] = SpecialRet(cmd)
        <5>1. pc'[h] = CASE cmd \in Special -> "confirm"
                         [] cmd = 201       -> "test"
                         [] OTHER           -> "adjust"
          BY <3>2 DEF TypeOK
        <5>2. ret'[h] = IF cmd \in Special THEN SpecialRet(cmd) ELSE 0
          BY <3>2 DEF TypeOK
        <5>3. pc'[h] = "confirm"
          BY <3>4, <5>1 DEF Special
        <5>4. ret'[h] = SpecialRet(cmd)
          BY <3>4, <5>2
        <5> QED BY <5>3, <5>4
      <4>2. SpecialRet(cmd) # 0 => Accepted(SpecialRet(cmd))
        BY <3>4 DEF Special, SpecialRet, Accepted, IInv, WallOfMode, Modes
      <4>3. exec'[h]
        <5>1. exec' = [exec EXCEPT ![h] = TRUE]
          BY <3>4, <3>6
        <5> QED BY <5>1 DEF TypeOK
      <4> QED BY <3>3, <4>1, <4>2, <4>3 DEF Selection, Late
    <3>5. CASE cmd \notin Special
      <4>1. pc'[h] \in {"test", "adjust"} /\ ret'[h] = 0
        BY <3>2, <3>5 DEF TypeOK
      <4> QED BY <3>3, <4>1 DEF Selection, Late
    <3> QED BY <3>4, <3>5
  <2>3. ASSUME Lock(h) PROVE Selection(h)'
    <3>1. Still /\ pc' = pc /\ ret' = ret /\ exec' = exec /\ pc[h] \in LockPoints
      BY <2>3 DEF Lock, frame, wall
    <3> QED BY <2>1, <3>1 DEF Selection, SaidByHighlight, LockPoints, Late
  <2>4. ASSUME Test(h) \/ Signal(h) \/ Adjust(h) \/ Check(h) PROVE Selection(h)'
    <3>1. Still /\ ret' = ret /\ pc[h] \in {"test", "signal", "adjust", "check"}
      BY <2>4 DEF Test, Signal, Adjust, Check, wall
    <3>2. pc'[h] \in {"signal", "confirm", "check", "move"}
      BY <2>4 DEF Test, Signal, Adjust, Check, TypeOK
    <3> QED BY <2>1, <3>1, <3>2 DEF Selection, Late
  <2>5. ASSUME Move(h) PROVE Selection(h)'
    <3>1. pc'[h] = "confirm" /\ confirm' = confirm
      BY <2>5 DEF Move, TypeOK
    <3>2. SaidByHighlight(ret[h])'
      BY <2>5, MoveSays
    <3>3. ret'[h] = 0 => SaidByHighlight(confirm)'
      BY <2>1, <2>5, <3>1, MoveSays DEF Move, Selection, Late, wall
    <3> QED BY <3>1, <3>2, <3>3 DEF Selection, Late
  <2>6. ASSUME Confirm(h) PROVE Selection(h)'
    <3>1. /\ disp' = disp /\ osd' = osd /\ ret' = ret /\ exec' = exec
          /\ pc[h] = "confirm" /\ pc'[h] = "accept"
          /\ confirm' = IF ret[h] # 0 THEN ret[h] ELSE confirm
      BY <2>6 DEF Confirm, TypeOK, wall
    <3>2. CASE ret[h] = 0
      BY <2>1, <3>1, <3>2 DEF Selection, Late
    <3>3. CASE ret[h] # 0
      <4>1. SaidByHighlight(ret[h]) => SaidByHighlight(confirm)'
        BY <3>1, <3>3 DEF SaidByHighlight, Highlighted
      <4> QED BY <3>1, <3>3, <4>1 DEF Selection, Late
    <3> QED BY <3>2, <3>3
  <2>7. ASSUME Accept(h) PROVE Selection(h)'
    <3>1. Still /\ pc[h] = "accept"
      BY <2>7 DEF Accept, wall
    <3>2. CASE exec[h] /\ Accepted(confirm) /\ pc' = [pc EXCEPT ![h] = "switch"]
      BY <3>2 DEF Selection, Late, TypeOK
    <3>3. CASE ~(exec[h] /\ Accepted(confirm)) /\ Return(h)
      <4>1. pc'[h] = "idle" /\ ret'[h] = 0
        BY <3>3 DEF Return, TypeOK
      <4> QED BY <2>1, <3>1, <3>3, <4>1 DEF Selection, Late
    <3> QED BY <2>7, <3>2, <3>3 DEF Accept
  <2>8. ASSUME Switch(h) PROVE Selection(h)'
    <3>1. confirm \in Modes /\ Rebuild(confirm) /\ pc'[h] = "mute"
      BY <2>8 DEF Switch, AcceptedOnTheWay, IInv, Selected, Sensible, TypeOK
    <3>2. \A r \in osd' : r.big = FALSE
      BY <3>1, DrawnAnew DEF IInv, Seen
    <3> QED BY <3>1, <3>2 DEF Selection, SaidByHighlight, Late
  <2>9. ASSUME Mute(h) PROVE Selection(h)'
    <3>1. Still /\ pc[h] = "mute" /\ pc'[h] = "idle" /\ ret'[h] = 0
      BY <2>9 DEF Mute, Return, TypeOK
    <3> QED BY <3>1 DEF Selection, SaidByHighlight, Late
  <2>10. ASSUME NEW t \in Threads, Take(t) \/ Release(t) PROVE Selection(h)'
    <3>1. Still /\ pc' = pc /\ ret' = ret /\ exec' = exec
      BY <2>10 DEF Take, Release, frame, wall
    <3> QED BY <3>1 DEF Selection, SaidByHighlight, Highlighted
  <2>11. CASE UNCHANGED vars
    BY <2>11 DEF vars, Selection, SaidByHighlight, Highlighted
  <2> QED BY <2>2, <2>3, <2>4, <2>5, <2>6, <2>7, <2>8, <2>9, <2>10, <2>11 DEF Next, Step
<1> QED BY <1>1, <1>2, TypeCorrect, MutesInductive, InOrder, PTL DEF Spec

(***************************************************************************)
(* The confirm key does what the highlight says, whatever was pressed      *)
(* before; only where an arrow leads nowhere may it do what the            *)
(* uninitialised local says, which may be the mode of an earlier move.     *)
(***************************************************************************)
THEOREM ConfirmCorrect ==
    ASSUME NEW h, Handlers = {h}, PlainKeys
    PROVE  Spec => []ConfirmActsOnHighlight
<1>1. Selection(h) => ConfirmActsOnHighlight
  BY DEF Selection, SaidByHighlight, ConfirmActsOnHighlight, AtRest, Active
<1> QED BY <1>1, SelectionKept, PTL

-----------------------------------------------------------------------------
\* The title a mode draws on a window names the channel it binds to it.
LEMMA TitleNamesSource ==
    ASSUME NEW m \in Modes, NEW p \in BoundIn(m), NEW d \in TitlesDrawn(m), p[2] = d[1]
    PROVE  p[1] = d[2]
<1>1. CASE m \in SingleModes
  BY <1>1 DEF BoundIn, TitlesDrawn, SingleModes, NineModes
<1>2. CASE m \in {140, 141, 142}
  BY <1>2 DEF BoundIn, TitlesDrawn, SingleModes, NineModes
<1>3. CASE m \in 190..198
  BY <1>3 DEF BoundIn, TitlesDrawn, SingleModes, NineModes, Channels, BigWindow
<1> QED BY <1>1, <1>2, <1>3 DEF Modes, SingleModes

\* Nine screens: the title a move draws on a window that is in use.
LEMMA NineTitles ==
    ASSUME who \in Channels, prev = 190 + who, NEW p \in BoundIn(prev)
    PROVE  p[1] = NineTitle(p[2])
<1>1. prev \in NineModes /\ prev \notin SingleModes /\ prev \notin {140, 141, 142}
  BY DEF NineModes, SingleModes, Channels
<1>2. prev % 10 = who
  BY DEF Channels
<1>3. BoundIn(prev) = {<<i, IF i = who THEN BigWindow ELSE i>> : i \in Channels}
  BY <1>1, <1>2 DEF BoundIn
<1> QED BY <1>3 DEF NineTitle, Channels, BigWindow

\* Four screens: an arrow draws the titles of the mode.
LEMMA FourTitles ==
    ASSUME NEW s \in FourKeys \ Rotations, TypeOK, CursorOnScreen, vo = 0..3,
           four \in {140, 141, 142}, NEW d \in MoveOf(s).drawn
    PROVE  /\ <<d[3], d[4]>> \in TitlesDrawn(four)
           /\ d[1] # d[3] => <<d[1], d[2]>> \in TitlesDrawn(four)
<1> DEFINE to == FourTo(s)
           off == FourOffsets(s, to)
<1>1. MoveOf(s) = FourMove(s)
  BY DEF MoveOf, FourKeys, Rotations
<1>2. pos[0] = pos[1] /\ pos[1] \in 0..3
  BY DEF CursorOnScreen, TypeOK
<1>3. to \in 0..3
  BY <1>2 DEF FourTo, FourKeys, Rotations
<1>4. PICK e \in off : d = <<pos[0], pos[0] + e[1], to, to + e[2]>>
  BY <1>1 DEF FourMove
<1>5. CASE four = 140
  <2>1. e = <<0, 0>>
    BY <1>5 DEF FourOffsets
  <2>2. \A i \in 0..3 : <<i, i>> \in TitlesDrawn(four)
    BY <1>5 DEF TitlesDrawn, SingleModes, NineModes
  <2> HIDE DEF to, off
  <2> QED BY <1>2, <1>3, <1>4, <2>1, <2>2
<1>6. CASE four = 141
  <2>1. e = <<4, 4>>
    BY <1>6 DEF FourOffsets
  <2>2. \A i \in 0..3 : <<i, i + 4>> \in TitlesDrawn(four)
    <3>1. TitlesDrawn(four) = {<<i - 4, i>> : i \in 4..7}
      BY <1>6 DEF TitlesDrawn, SingleModes, NineModes
    <3>2. \A i \in 0..3 : i + 4 \in 4..7 /\ <<i, i + 4>> = <<(i + 4) - 4, i + 4>>
      OBVIOUS
    <3> QED BY <3>1, <3>2
  <2> HIDE DEF to, off
  <2> QED BY <1>2, <1>3, <1>4, <2>1, <2>2
<1>7. CASE four = 142
  <2>1. TitlesDrawn(four) = {<<0, 5>>, <<1, 6>>, <<3, 7>>, <<2, 8>>}
    BY <1>7 DEF TitlesDrawn, SingleModes, NineModes
  <2>2. PICK a \in Arrow142 : a[1] = s /\ a[2] = to /\ e = <<a[3], a[4]>>
    BY <1>7 DEF FourOffsets
  <2>3. s \in {45, 46, 47, 48}
    BY DEF FourKeys
  <2>4. <<to, to + e[2]>> \in TitlesDrawn(four)
    <3> HIDE DEF to, off
    <3> QED BY <2>1, <2>2 DEF Arrow142
  <2>5. pos[0] # to => <<pos[0], pos[0] + e[1]>> \in TitlesDrawn(four)
    BY <1>2, <2>1, <2>2, <2>3 DEF Arrow142, FourTo, Rotations
  <2> HIDE DEF to, off
  <2> QED BY <1>4, <2>4, <2>5
<1> QED BY <1>5, <1>6, <1>7

(***************************************************************************)
(* The panel alone rotates: an unknown key code of the remote falls back to*)
(* key 0.                                                                  *)
(***************************************************************************)
NoRotationKeys(h) ==
    \A k \in Keys[h] : IsCommand(h, k) => CmdOf(Code(h, k)) \notin {203, 204}

LEMMA RemoteNeverRotates ==
    ASSUME NEW h \in Handlers, Device[h] = "iic"
    PROVE  NoRotationKeys(h)
<1> SUFFICES ASSUME NEW k \in Keys[h]
             PROVE  CmdOf(Code(h, k)) \notin {203, 204}
  BY DEF NoRotationKeys
<1>1. Code(h, k) \in 0..11
  BY KeysAssumption DEF Code
<1>2. \A c \in 0..11 : RemoteCmd[c + 1] \notin {203, 204}
  BY DEF RemoteCmd
<1> QED BY <1>1, <1>2 DEF CmdOf

(***************************************************************************)
(* The titles, inductively: they name the channels of the mode on screen as*)
(* long as witch_mode_4 names the four screens shown; a key that changes it*)
(* is on its way to a switch, which draws every title anew.  who_in_pos9 is*)
(* the channel in the large window, and the move is no rotation.           *)
(***************************************************************************)
FourNames == {140, 141, 142}

Redrawing(h) ==
    pc[h] \in {"confirm", "accept", "switch"} /\ exec[h] /\ ret[h] \in FourNames

TitlesNameSources ==
    who \in Channels => \A r \in osd : \A p \in BoundIn(prev) : p[2] = r.at => p[1] = r.title

TitlesKnown(h) == FourKnown /\ ~Redrawing(h) => TitlesNameSources

BigIsWho == disp = 9 /\ who \in Channels => prev = 190 + who

NoRotation(h) == pc[h] \in {"adjust", "check", "move"} => sig[h] \notin {203, 204} \cup Rotations

Chosen(h) == Redrawing(h) /\ pc[h] # "confirm" => confirm = ret[h]

Names(h) == TitlesKnown(h) /\ BigIsWho /\ NoRotation(h) /\ Chosen(h)

\* A move draws the right titles.
LEMMA MoveNames ==
    ASSUME NEW h, Handlers = {h}, TypeOK, IInv(h), Names(h), Move(h), FourKnown
    PROVE  TitlesNameSources'
<1> DEFINE m == MoveOf(sig[h])
<1>1. disp \in {4, 9} /\ CursorOnScreen /\ pc[h] = "move" /\ TitlesNameSources
  BY DEF Move, TypeOK, IInv, MoveKeys, Seen, Names, TitlesKnown, Redrawing
<1>2. prev \in Modes
  BY DEF IInv, WallOfMode
<1>3. prev' = prev /\ who' = who
  BY DEF Move, wall
<1>4. osd' = IF m.drawn = {} THEN osd ELSE Redraw(osd, CHOOSE d \in m.drawn : TRUE)
  BY DEF Move
<1> SUFFICES ASSUME who \in Channels, NEW q \in osd', NEW p \in BoundIn(prev), p[2] = q.at
             PROVE  p[1] = q.title
  BY <1>3 DEF TitlesNameSources
<1>5. q \in osd => p[1] = q.title
  BY <1>1 DEF TitlesNameSources
<1>6. ASSUME NEW d \in m.drawn
      PROVE  /\ p[2] = d[3] => p[1] = d[4]
             /\ p[2] = d[1] /\ d[1] # d[3] => p[1] = d[2]
  <2>1. CASE disp = 9
    <3>1. vo = 0..9 /\ sig[h] \in NineKeys
      BY <2>1, WindowsOfMode DEF IInv, WallOfMode, MoveKeys, Move
    <3>2. d[2] = NineTitle(d[1]) /\ d[4] = NineTitle(d[3])
      <4> HIDE DEF m
      <4> QED BY <1>1, <3>1, <1>6, NineDraws DEF m
    <3>3. p[1] = NineTitle(p[2])
      BY <2>1, NineTitles DEF Names, BigIsWho
    <3> QED BY <3>2, <3>3
  <2>2. CASE disp = 4
    <3>1. vo = 0..3 /\ sig[h] \in FourKeys \ Rotations /\ prev \in FourNames
      BY <1>1, <2>2, WindowsOfMode
         DEF IInv, WallOfMode, MoveKeys, Move, Names, NoRotation, FourNames
    <3>2. prev = four
      BY <2>2 DEF FourKnown
    <3>3. /\ <<d[3], d[4]>> \in TitlesDrawn(prev)
          /\ d[1] # d[3] => <<d[1], d[2]>> \in TitlesDrawn(prev)
      <4> HIDE DEF m
      <4> QED BY <1>1, <3>1, <3>2, <1>6, FourTitles DEF m, FourNames
    <3> QED BY <1>2, <3>3, TitleNamesSource
  <2> QED BY <1>1, <2>1, <2>2
<1> HIDE DEF m
<1>7. CASE m.drawn = {}
  BY <1>4, <1>5, <1>7
<1>8. CASE m.drawn # {}
  <2> DEFINE d == CHOOSE e \in m.drawn : TRUE
  <2>1. d \in m.drawn
    BY <1>8
  <2>2. osd' = Redraw(osd, d)
    BY <1>4, <1>8
  <2> HIDE DEF d
  <2>3. CASE q \in osd
    BY <1>5, <2>3
  <2>4. CASE q = [at |-> d[1], title |-> d[2], big |-> FALSE] /\ d[1] # d[3]
    <3>1. q.at = d[1] /\ q.title = d[2]
      BY <2>4
    <3> QED BY <1>6, <2>1, <2>4, <3>1
  <2>5. CASE q = [at |-> d[3], title |-> d[4], big |-> TRUE]
    <3>1. q.at = d[3] /\ q.title = d[4]
      BY <2>5
    <3> QED BY <1>6, <2>1, <3>1
  <2> QED BY <2>2, <2>3, <2>4, <2>5, Redraws
<1> QED BY <1>7, <1>8

\* A switch draws the right titles.
LEMMA SwitchNames ==
    ASSUME NEW m \in Modes, WallOfMode, TitlesOnWall, TypeOK, BigIsWho, Rebuild(m)
    PROVE  TitlesNameSources' /\ BigIsWho'
<1>1. TitlesNameSources'
  <2>1. prev' = m
    BY DEF Rebuild
  <2>2. osd' = {[at |-> d[1], title |-> d[2], big |-> FALSE] : d \in TitlesDrawn(m)}
    BY DrawnAnew
  <2> SUFFICES ASSUME NEW q \in osd', NEW p \in BoundIn(m), p[2] = q.at
               PROVE  p[1] = q.title
    BY <2>1 DEF TitlesNameSources
  <2>3. PICK d \in TitlesDrawn(m) : q = [at |-> d[1], title |-> d[2], big |-> FALSE]
    BY <2>2
  <2>4. q.at = d[1] /\ q.title = d[2]
    BY <2>3
  <2> QED BY <2>4, TitleNamesSource
<1>2. BigIsWho'
  <2>1. prev' = m /\ disp' = DisplayOf(m, disp) /\ who' = InBigWindow(m, who)
    BY DEF Rebuild
  <2>2. DisplayOf(m, disp) = 9 => m \in 190..198
    BY DEF DisplayOf, Modes, SingleModes, FourModes, NineModes
  <2>3. m \in 190..198 => InBigWindow(m, who) = m - 190
    <3>1. m \in 190..198 => m % 10 = m - 190
      OBVIOUS
    <3> QED BY <3>1 DEF InBigWindow
  <2> QED BY <2>1, <2>2, <2>3 DEF BigIsWho
<1> QED BY <1>1, <1>2

LEMMA NamesKept ==
    ASSUME NEW h, Handlers = {h}, PlainKeys, NoRotationKeys(h)
    PROVE  Spec => []Names(h)
<1>1. Init => Names(h)
  BY DEF Init, Names, TitlesKnown, TitlesNameSources, BigIsWho, NoRotation, Chosen, Redrawing,
         Channels
<1>2. TypeOK /\ AcceptedOnTheWay(h) /\ IInv(h) /\ Names(h) /\ [Next]_vars => Names(h)'
  <2> SUFFICES ASSUME TypeOK, AcceptedOnTheWay(h), IInv(h), Names(h), [Next]_vars
               PROVE  Names(h)'
    OBVIOUS
  <2>1. UNCHANGED <<wall, osd>> => (TitlesNameSources => TitlesNameSources') /\ BigIsWho'
    BY DEF Names, TitlesNameSources, BigIsWho, wall
  <2>2. UNCHANGED <<wall, four>> => (FourKnown' <=> FourKnown)
    BY DEF FourKnown, wall
  <2>3. ASSUME NEW k \in Keys[h], Press(h, k) PROVE Names(h)'
    <3> DEFINE cmd == CmdOf(Code(h, k))
    <3>1. cmd \in Special \cup {50, 51, 52, 53, 201}
      BY <2>3, Commands DEF Press, NoRotationKeys
    <3> HIDE DEF cmd
    <3>2. /\ sig' = [sig EXCEPT ![h] = cmd]
          /\ pc' = [pc EXCEPT ![h] = CASE cmd \in Special -> "confirm"
                                       [] cmd = 201       -> "test"
                                       [] OTHER           -> "adjust"]
          /\ ret' = [ret EXCEPT ![h] = IF cmd \in Special THEN SpecialRet(cmd) ELSE 0]
          /\ four' = IF cmd \in 140..142 THEN cmd ELSE four
          /\ pc[h] = "idle"
          /\ UNCHANGED <<wall, osd>>
      BY <2>3 DEF Press, Active, cmd
    <3>3. exec' = [exec EXCEPT ![h] = cmd \in Special]
      BY <2>3 DEF Press, cmd
    <3>4. /\ sig'[h] = cmd
          /\ pc'[h] = CASE cmd \in Special -> "confirm"
                        [] cmd = 201       -> "test"
                        [] OTHER           -> "adjust"
          /\ ret'[h] = IF cmd \in Special THEN SpecialRet(cmd) ELSE 0
      BY <3>2 DEF TypeOK
    <3>5. NoRotation(h)' /\ Chosen(h)'
      BY <3>1, <3>4 DEF NoRotation, Chosen, Redrawing, Special, Rotations
    <3>6. CASE cmd \in FourNames
      <4>1. ret'[h] = cmd /\ pc'[h] = "confirm"
        BY <3>4, <3>6 DEF FourNames, Special, SpecialRet
      <4>2. exec'[h]
        <5>1. exec' = [exec EXCEPT ![h] = TRUE]
          BY <3>3, <3>6 DEF FourNames, Special
        <5> QED BY <5>1 DEF TypeOK
      <4>3. Redrawing(h)'
        BY <3>6, <4>1, <4>2 DEF Redrawing
      <4> QED BY <2>1, <3>2, <3>5, <4>3 DEF Names, TitlesKnown
    <3>7. CASE cmd \notin FourNames
      <4>1. four' = four
        BY <3>2, <3>7 DEF FourNames
      <4>2. ~Redrawing(h)
        BY <3>2 DEF Redrawing
      <4> QED BY <2>1, <2>2, <3>2, <3>5, <4>1, <4>2 DEF Names, TitlesKnown
    <3> QED BY <3>6, <3>7
  <2>4. ASSUME Lock(h) PROVE Names(h)'
    <3>1. UNCHANGED <<wall, osd, four, confirm, pc, sig, ret, exec>>
      BY <2>4 DEF Lock, frame
    <3> QED BY <2>1, <2>2, <3>1 DEF Names, TitlesKnown, NoRotation, Chosen, Redrawing
  <2>5. ASSUME Test(h) \/ Signal(h) \/ Adjust(h) \/ Check(h) PROVE Names(h)'
    <3>1. /\ UNCHANGED <<wall, osd, confirm, four, ret, exec>>
          /\ pc[h] \in {"test", "signal", "adjust", "check"}
          /\ pc'[h] \in {"signal", "confirm", "check", "move"}
      BY <2>5 DEF Test, Signal, Adjust, Check, TypeOK
    <3>2. TitlesKnown(h)' /\ Chosen(h)'
      <4>1. ~Redrawing(h)
        BY <3>1 DEF Redrawing
      <4> QED BY <2>1, <2>2, <3>1, <4>1 DEF Names, TitlesKnown, Chosen, Redrawing
    <3>3. NoRotation(h)'
      <4>1. CASE Adjust(h)
        <5>1. sig[h] \in {50, 51, 52, 53}
          BY <4>1 DEF Adjust, IInv, MoveKeys, Names, NoRotation
        <5>2. sig'[h] \in {sig[h] + 5, sig[h] - 5, sig[h]}
          BY <4>1, <5>1 DEF Adjust, TypeOK
        <5> QED BY <5>1, <5>2 DEF NoRotation, Rotations
      <4>2. CASE ~Adjust(h)
        <5>1. sig' = sig /\ (pc'[h] \in {"adjust", "check", "move"} => pc[h] = "check")
          BY <2>5, <4>2 DEF Test, Signal, Check, TypeOK
        <5> QED BY <5>1 DEF Names, NoRotation
      <4> QED BY <4>1, <4>2
    <3> QED BY <2>1, <3>1, <3>2, <3>3 DEF Names
  <2>6. ASSUME Move(h) PROVE Names(h)'
    <3>1. pc'[h] = "confirm" /\ UNCHANGED <<wall, four>>
      BY <2>6 DEF Move, TypeOK
    <3>2. TitlesKnown(h)'
      BY <2>2, <2>6, <3>1, MoveNames DEF TitlesKnown
    <3>3. BigIsWho' /\ NoRotation(h)' /\ Chosen(h)'
      BY <3>1 DEF Names, BigIsWho, NoRotation, Chosen, wall
    <3> QED BY <3>2, <3>3 DEF Names
  <2>7. ASSUME Confirm(h) PROVE Names(h)'
    <3>1. /\ UNCHANGED <<wall, osd, four, ret, exec>>
          /\ pc[h] = "confirm" /\ pc'[h] = "accept"
          /\ confirm' = IF ret[h] # 0 THEN ret[h] ELSE confirm
      BY <2>7 DEF Confirm, TypeOK
    <3>2. Redrawing(h)' <=> Redrawing(h)
      BY <3>1 DEF Redrawing
    <3>3. Chosen(h)' /\ NoRotation(h)'
      BY <3>1 DEF Chosen, Redrawing, NoRotation, FourNames
    <3> QED BY <2>1, <2>2, <3>1, <3>2, <3>3 DEF Names, TitlesKnown
  <2>8. ASSUME Accept(h) PROVE Names(h)'
    <3>1. UNCHANGED <<wall, osd, confirm, four>> /\ pc[h] = "accept"
      BY <2>8 DEF Accept
    <3>2. CASE pc' = [pc EXCEPT ![h] = "switch"] /\ UNCHANGED <<sig, ret, exec, under>>
      <4>1. pc'[h] = "switch"
        BY <3>2 DEF TypeOK
      <4>2. Redrawing(h)' <=> Redrawing(h)
        BY <3>1, <3>2, <4>1 DEF Redrawing
      <4>3. Chosen(h)' /\ NoRotation(h)'
        BY <3>1, <3>2, <4>1 DEF Names, Chosen, Redrawing, NoRotation
      <4> QED BY <2>1, <2>2, <3>1, <4>2, <4>3 DEF Names, TitlesKnown
    <3>3. CASE ~(exec[h] /\ Accepted(confirm)) /\ Return(h)
      <4>1. pc'[h] = "idle"
        BY <3>3 DEF Return, TypeOK
      <4>2. ~Redrawing(h)
        BY <3>1, <3>3 DEF Names, Chosen, Redrawing, FourNames, Accepted
      <4>3. Chosen(h)' /\ NoRotation(h)'
        BY <4>1 DEF Chosen, Redrawing, NoRotation
      <4> QED BY <2>1, <2>2, <3>1, <4>2, <4>3 DEF Names, TitlesKnown
    <3> QED BY <2>8, <3>2, <3>3 DEF Accept
  <2>9. ASSUME Switch(h) PROVE Names(h)'
    <3>1. confirm \in Modes /\ Rebuild(confirm) /\ pc'[h] = "mute"
      BY <2>9 DEF Switch, AcceptedOnTheWay, IInv, Selected, Sensible, TypeOK
    <3>2. TitlesNameSources' /\ BigIsWho'
      BY <3>1, SwitchNames DEF IInv, Seen, Names
    <3> QED BY <3>1, <3>2 DEF Names, TitlesKnown, NoRotation, Chosen, Redrawing
  <2>10. ASSUME Mute(h) PROVE Names(h)'
    <3>1. /\ UNCHANGED <<prev, disp, who, four, osd>>
          /\ pc[h] = "mute" /\ pc'[h] = "idle"
      BY <2>10 DEF Mute, Return, TypeOK
    <3>2. BigIsWho' /\ NoRotation(h)' /\ Chosen(h)'
      BY <3>1 DEF Names, BigIsWho, NoRotation, Chosen, Redrawing
    <3>3. TitlesKnown(h)'
      BY <3>1 DEF Names, TitlesKnown, TitlesNameSources, FourKnown, Redrawing
    <3> QED BY <3>2, <3>3 DEF Names
  <2>11. ASSUME NEW t \in Threads, Take(t) \/ Release(t) PROVE Names(h)'
    <3>1. UNCHANGED <<wall, osd, four, confirm, pc, sig, ret, exec>>
      BY <2>11 DEF Take, Release, frame
    <3> QED BY <2>1, <2>2, <3>1 DEF Names, TitlesKnown, NoRotation, Chosen, Redrawing
  <2>12. CASE UNCHANGED vars
    <3>1. UNCHANGED <<wall, osd, four, confirm, pc, sig, ret, exec>>
      BY <2>12 DEF vars, wall
    <3> QED BY <2>1, <2>2, <3>1 DEF Names, TitlesKnown, NoRotation, Chosen, Redrawing
  <2> QED BY <2>3, <2>4, <2>5, <2>6, <2>7, <2>8, <2>9, <2>10, <2>11, <2>12 DEF Next, Step
<1> QED BY <1>1, <1>2, TypeCorrect, MutesInductive, InOrder, PTL DEF Spec

(***************************************************************************)
(* At rest the title on a window names the channel bound to it, once a     *)
(* nine-screen mode has been chosen and where witch_mode_4 names the four  *)
(* screens shown, as long as the panel's rotation keys are not pressed:    *)
(* for every key of the remote, the back key among them.                   *)
(***************************************************************************)
THEOREM TitlesMatch ==
    ASSUME NEW h, Handlers = {h}, PlainKeys, NoRotationKeys(h)
    PROVE  Spec => []TitlesMatchBindings
<1>1. Names(h) /\ BindingsMatchMode => TitlesMatchBindings
  <2>1. AtRest => ~Redrawing(h)
    BY DEF AtRest, Active, Redrawing
  <2> QED BY <2>1 DEF Names, TitlesKnown, TitlesNameSources, BindingsMatchMode,
                      TitlesMatchBindings
<1> QED BY <1>1, NamesKept, BindingsCorrect, PTL
=============================================================================
