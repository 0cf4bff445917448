--------------------------- MODULE Player_proofs ---------------------------
(***************************************************************************)
(* Proofs about Player, for any number of channels: what the start-up      *)
(* takes it has until the END label that gives it back, whichever step     *)
(* failed, and no reader outlives its decoder.                             *)
(***************************************************************************)
EXTENDS Player, TLAPS

StartSteps == {"sys", "vb", "vdec", "vpss", "vo", "feed", "show", "send"}
Runs == {"ctrl", "stop"}

(***************************************************************************)
(* What is held at every label, whichever way it was reached ...           *)
(***************************************************************************)
Held ==
    /\ mpc \notin {"sys", "END1", "join"} => sys
    /\ mpc \notin {"sys", "vb", "END2", "END1", "join"} => modVb
    /\ mpc \in {"vpss", "vo", "feed", "show", "send", "ctrl", "stop",
                "END7", "END6", "END5", "END4"} => vdec = Chn
    /\ mpc \in {"vo", "feed", "show", "send", "ctrl", "stop", "END7", "END6", "END5"}
          => vpss = Chn /\ VpssGrp = NChn - 1
    /\ mpc \in {"show", "send", "ctrl", "stop", "END7"} => feed = Chn

(***************************************************************************)
(* ... and what is not held, or no longer.                                 *)
(***************************************************************************)
Free ==
    /\ mpc \in {"vpss", "END3", "END2", "END1", "join"} => vpss = {}
    /\ mpc = "END4" => vpss \subseteq 0..VpssGrp
    /\ mpc \in {"sys", "vb", "vdec"} => vpss = {} /\ vdec = {}
    /\ mpc \in {"END2", "END1", "join"} => vdec \subseteq {NChn - 1}
    /\ mpc \notin {"show", "send", "ctrl", "stop", "END7", "END6"} => feed = {}
    /\ mpc = "join" => ~sys /\ ~modVb

(***************************************************************************)
(* What the wall shows is the layout of the last key, or nothing of it     *)
(* yet; a start-up that failed has added groups in their own windows,      *)
(* which END7 takes away.                                                  *)
(***************************************************************************)
ShowsLayout ==
    /\ mpc \in StartSteps \cup Runs => shown \in {{}, layout}
    /\ mpc \in StartSteps \ {"send"} => layout \in Layouts \cup {{}}
    /\ mpc = "END7" => shown \subseteq layout \cup Own
    /\ mpc \in (Ends \ {"END7"}) \cup {"join"} => shown \subseteq layout

(***************************************************************************)
(* The readers run from StartSendStream() until each is joined.            *)
(***************************************************************************)
Idle(c) == rpc[c] \in {"none", "ended"}

Joined ==
    /\ mpc \in StartSteps => next = 0 /\ \A c \in Chn : rpc[c] = "none"
    /\ mpc = "ctrl" => next = 0
    /\ mpc = "stop" => next < NChn /\ \A c \in Chn : c < next => rpc[c] = "ended"
    /\ mpc \notin Runs => \A c \in Chn : Idle(c)

IInv == TypeOK /\ Held /\ Free /\ ShowsLayout /\ Joined

\* The last channel, and those before it.
LEMMA Channels ==
    /\ 0 \in Chn /\ NChn - 1 \in Chn
    /\ Chn \subseteq 0..NChn - 1 /\ Chn \ (0..NChn - 2) = {NChn - 1}
    /\ \A c \in 0..NChn : 0..c - 1 \subseteq Chn
    /\ \A c \in Chn : 0..c \subseteq Chn
    /\ NChn \in 0..NChn /\ 0 \in 0..NChn
  BY ChnAssumption DEF Chn

\* A group is shown in its own window, in the large one, or where a layout
\* puts it.
LEMMA Windows ==
    /\ \A c \in Chn : <<c, c>> \in Chn \X (0..NChn)
    /\ <<0, Big>> \in Chn \X (0..NChn)
    /\ \A c \in Chn : 0..c - 1 \subseteq Chn
    /\ Own \subseteq Chn \X (0..NChn) /\ FirstLayout \subseteq Chn \X (0..NChn)
    /\ \A L \in Layouts \cup {{}, FirstLayout} : L \subseteq Chn \X (0..NChn)
<1>1. /\ \A c \in Chn : <<c, c>> \in Chn \X (0..NChn)
      /\ <<0, Big>> \in Chn \X (0..NChn)
      /\ \A c \in Chn : 0..c - 1 \subseteq Chn
  BY ChnAssumption DEF Chn, Big
<1>2. Own \subseteq Chn \X (0..NChn) /\ FirstLayout \subseteq Chn \X (0..NChn)
  BY <1>1 DEF Own, FirstLayout
<1> QED BY <1>1, <1>2, LayoutsAssumption

\* Before END7 has run, the start-up's own bindings and the layout's are all;
\* a switch leaves only the new layout of what the old one had.
LEMMA SwitchShows ==
    ASSUME NEW new
    PROVE  /\ Bind(shown \ layout, new) \subseteq (shown \ layout) \cup new
           /\ shown \in {{}, layout} /\ vpss = {} => Bind(shown \ layout, new) = {}
           /\ shown \in {{}, layout} /\ vpss = Chn /\ new \subseteq Chn \X (0..NChn)
                => Bind(shown \ layout, new) = new
<1>1. Bind(shown \ layout, new) \subseteq (shown \ layout) \cup new
  BY DEF Bind
<1>2. ASSUME shown \in {{}, layout}
      PROVE  Bind(shown \ layout, new) = {p \in new : p[1] \in vpss}
  <2>1. shown \ layout = {}
    BY <1>2
  <2> QED BY <2>1 DEF Bind
<1>3. ASSUME new \subseteq Chn \X (0..NChn)
      PROVE  {p \in new : p[1] \in Chn} = new
  BY <1>3
<1> QED BY <1>1, <1>2, <1>3

\* At first nothing is held.
LEMMA InitHolds == Init => IInv
<1> SUFFICES ASSUME Init PROVE IInv
  OBVIOUS
<1>1. TypeOK
  <2>1. 0 \in Chn /\ 0 \in 0..NChn
    BY Channels
  <2>2. /\ rpc \in [Chn -> {"none", "top", "wait", "busy", "ended"}]
        /\ ctrl \in [Chn -> {"start", "pause", "stop"}]
    BY DEF Init
  <2>3. inRing \in [Chn -> BOOLEAN] /\ avail \in [Chn -> BOOLEAN] /\ aborted \in BOOLEAN
    BY DEF Init
  <2> QED BY <2>1, <2>2, <2>3 DEF Init, TypeOK, Steps, Pool!Init
<1>2. Held /\ Free /\ ShowsLayout /\ Joined
  BY DEF Init, Held, Free, ShowsLayout, Joined, StartSteps, Ends, Runs, Idle
<1> QED BY <1>1, <1>2 DEF IInv

\* The main thread's steps up to here do not touch the readers.
LEMMA MainKeepsReaders ==
    ASSUME IInv, UNCHANGED <<readers, next>>, mpc \notin Runs,
           mpc' \in (IF mpc \in StartSteps THEN StartSteps ELSE {}) \cup Ends \cup {"join"}
    PROVE  Joined'
  BY DEF IInv, Joined, readers, StartSteps, Runs, Ends, Idle

(***************************************************************************)
(* The start-up                                                            *)
(***************************************************************************)
LEMMA StartUpKeeps ==
    ASSUME IInv, StartUp, UNCHANGED <<readers, pool>>
    PROVE  IInv'
<1> USE DEF IInv
<1>0. next' = next
  BY DEF StartUp, SysInit, InitVBPool, VdecStart, VpssStart, VoStart, VdecBindVpss, VpssBindVo
<1>j. Joined'
  <2>1. /\ mpc \in StartSteps
        /\ mpc' \in StartSteps \cup Ends
    BY DEF StartUp, SysInit, InitVBPool, VdecStart, VpssStart, VoStart, VdecBindVpss, VpssBindVo,
           at, goesOn, fails, StartSteps, Ends
  <2> QED BY <1>0, <2>1, MainKeepsReaders DEF StartSteps, Runs
<1>s. ASSUME ~VpssBindVo PROVE ShowsLayout'
  <2>1. /\ mpc \in StartSteps \ {"show", "send"}
        /\ mpc' \in (StartSteps \ {"send"}) \cup (Ends \ {"END7"})
        /\ UNCHANGED <<shown, layout>>
    BY <1>s DEF StartUp, SysInit, InitVBPool, VdecStart, VpssStart, VoStart, VdecBindVpss, mpp,
                at, goesOn, fails, StartSteps, Ends
  <2> QED BY <2>1 DEF ShowsLayout, StartSteps, Runs, Ends
<1>1. ASSUME SysInit PROVE TypeOK' /\ Held' /\ Free'
  <2>1. TypeOK'
    BY <1>1 DEF SysInit, at, goesOn, fails, TypeOK, readers, pool, Steps, Ends
  <2>2. Held' /\ Free'
    BY <1>1 DEF SysInit, at, goesOn, fails, Held, Free, StartSteps, Ends
  <2> QED BY <2>1, <2>2
<1>2. ASSUME InitVBPool PROVE TypeOK' /\ Held' /\ Free'
  <2>1. TypeOK'
    BY <1>2 DEF InitVBPool, at, goesOn, fails, TypeOK, readers, pool, Steps, Ends
  <2>2. Held' /\ Free'
    BY <1>2 DEF InitVBPool, at, goesOn, fails, Held, Free, StartSteps, Ends
  <2> QED BY <2>1, <2>2
<1>3. ASSUME VdecStart PROVE TypeOK' /\ Held' /\ Free'
  <2>1. vdec' \subseteq Chn
    BY <1>3, Channels DEF VdecStart
  <2>2. TypeOK'
    BY <1>3, <2>1 DEF VdecStart, at, goesOn, fails, TypeOK, readers, pool, Steps, Ends
  <2>3. Held' /\ Free'
    BY <1>3 DEF VdecStart, at, goesOn, fails, Held, Free, StartSteps, Ends
  <2> QED BY <2>2, <2>3
<1>4. ASSUME VpssStart PROVE TypeOK' /\ Held' /\ Free'
  <2>1. vpss' \subseteq Chn /\ vpss' \subseteq 0..VpssGrp' /\ VpssGrp' \in Chn
    <3>1. CASE vpss' = Chn /\ VpssGrp' = NChn - 1
      BY <3>1, Channels
    <3>2. CASE \E c \in Chn : vpss' \in {0..c - 1, 0..c} /\ VpssGrp' = c
      <4>1. PICK c \in Chn : vpss' \in {0..c - 1, 0..c} /\ VpssGrp' = c
        BY <3>2
      <4>2. 0..c - 1 \subseteq 0..c /\ 0..c \subseteq Chn
        BY ChnAssumption DEF Chn
      <4> QED BY <4>1, <4>2
    <3> QED BY <1>4, <3>1, <3>2 DEF VpssStart
  <2>2. TypeOK'
    BY <1>4, <2>1 DEF VpssStart, at, goesOn, fails, TypeOK, readers, pool, Steps, Ends
  <2>3. Held' /\ Free'
    BY <1>4, <2>1 DEF VpssStart, at, goesOn, fails, Held, Free, StartSteps, Ends
  <2> QED BY <2>2, <2>3
<1>5. ASSUME VoStart PROVE TypeOK' /\ Held' /\ Free'
  <2>1. TypeOK'
    BY <1>5 DEF VoStart, at, goesOn, fails, TypeOK, readers, pool, mpp, Steps, Ends
  <2>2. Held' /\ Free'
    BY <1>5 DEF VoStart, at, goesOn, fails, mpp, Held, Free, StartSteps, Ends
  <2> QED BY <2>1, <2>2
<1>6. ASSUME VdecBindVpss PROVE TypeOK' /\ Held' /\ Free'
  <2>1. feed' \subseteq Chn
    BY <1>6, Windows DEF VdecBindVpss
  <2>2. TypeOK'
    BY <1>6, <2>1 DEF VdecBindVpss, at, goesOn, fails, TypeOK, readers, pool, Steps, Ends
  <2>3. Held' /\ Free'
    BY <1>6 DEF VdecBindVpss, at, goesOn, fails, Held, Free, StartSteps, Ends
  <2> QED BY <2>2, <2>3
<1>7. CASE VpssBindVo
  <2>0. mpc = "show" /\ vpss = Chn /\ shown \in {{}, layout}
    BY <1>7 DEF VpssBindVo, at, Held, ShowsLayout, StartSteps
  <2>1. CASE /\ \A c \in Chn : ~Taken(c)
             /\ shown' = Bind((shown \cup Own) \ {<<0, 0>>}, {<<0, Big>>})
             /\ layout' = FirstLayout
             /\ goesOn("send")
    <3>1. layout \in Layouts \cup {{}}
      BY <2>0 DEF ShowsLayout, StartSteps
    <3>2. shown = {}
      BY <2>0, <2>1, <3>1, LayoutsAssumption DEF Taken
    <3>3. shown' = FirstLayout
      <4>1. shown' = Bind(Own \ {<<0, 0>>}, {<<0, Big>>})
        BY <2>1, <3>2
      <4>2. \A q \in Own : q[2] # Big
        BY ChnAssumption DEF Own, Chn, Big
      <4>3. 0 \in vpss
        BY <2>0, Channels
      <4> QED BY <4>1, <4>2, <4>3 DEF Bind, FirstLayout
    <3>4. shown' \subseteq Chn \X (0..NChn)
      BY <3>3, Windows
    <3>5. TypeOK'
      BY <1>7, <2>1, <3>4 DEF VpssBindVo, goesOn, TypeOK, readers, pool, Steps
    <3>6. Held' /\ Free' /\ ShowsLayout'
      BY <1>7, <2>0, <2>1, <3>3
         DEF VpssBindVo, goesOn, Held, Free, ShowsLayout, StartSteps, Runs, Ends
    <3> QED BY <1>j, <3>5, <3>6
  <2>2. CASE /\ \E c \in Chn : /\ \A d \in 0..c - 1 : ~Taken(d)
                               /\ shown' = shown \cup {<<d, d>> : d \in 0..c - 1}
             /\ fails("END7")
             /\ UNCHANGED layout
    <3>1. shown' \subseteq layout \cup Own
      BY <2>0, <2>2, Windows DEF Own
    <3>2. shown' \subseteq Chn \X (0..NChn)
      BY <3>1, Windows DEF TypeOK
    <3>3. TypeOK'
      BY <1>7, <2>2, <3>2 DEF VpssBindVo, fails, TypeOK, readers, pool, Ends
    <3>4. Held' /\ Free' /\ ShowsLayout'
      BY <1>7, <2>0, <2>2, <3>1
         DEF VpssBindVo, fails, Held, Free, ShowsLayout, StartSteps, Runs, Ends
    <3> QED BY <1>j, <3>3, <3>4
  <2> QED BY <1>7, <2>1, <2>2 DEF VpssBindVo
<1>8. CASE ~VpssBindVo
  BY <1>j, <1>s, <1>8, <1>1, <1>2, <1>3, <1>4, <1>5, <1>6 DEF StartUp
<1> QED BY <1>7, <1>8

(***************************************************************************)
(* The END labels                                                          *)
(***************************************************************************)
LEMMA UnWindKeeps ==
    ASSUME IInv, UnWind, UNCHANGED <<readers, pool>>
    PROVE  IInv'
<1> USE DEF IInv
<1>j. Joined'
  <2>1. /\ mpc \notin Runs
        /\ mpc' \in Ends \cup {"join"} /\ next' = next
    BY DEF UnWind, UnbindVo, UnbindVpss, StopVO, VpssStop, VdecStop, ExitVBPool, SysExit,
           at, goesOn, Ends, Runs
  <2> QED BY <2>1, MainKeepsReaders
<1>s. ShowsLayout'
  <2>1. /\ mpc \in Ends /\ mpc' \in (Ends \ {"END7"}) \cup {"join"}
        /\ layout' = layout /\ shown' \subseteq layout
    <3>1. CASE UnbindVo
      BY <3>1 DEF UnbindVo, at, goesOn, ShowsLayout, Ends
    <3>2. CASE ~UnbindVo
      BY <3>2 DEF UnWind, UnbindVpss, StopVO, VpssStop, VdecStop, ExitVBPool, SysExit, mpp,
                  at, goesOn, ShowsLayout, Ends
    <3> QED BY <3>1, <3>2
  <2> QED BY <2>1 DEF ShowsLayout, StartSteps, Runs, Ends
<1>1. CASE UnbindVo
  <2>1. shown' \subseteq shown
    BY <1>1 DEF UnbindVo
  <2>2. TypeOK'
    BY <1>1 DEF UnbindVo, at, goesOn, TypeOK, readers, pool, Steps, Ends
  <2>3. Held' /\ Free'
    BY <1>1, <2>1 DEF UnbindVo, at, goesOn, Held, Free, StartSteps, Ends
  <2> QED BY <1>j, <1>s, <2>2, <2>3
<1>2. CASE UnbindVpss
  <2>1. TypeOK'
    BY <1>2 DEF UnbindVpss, at, goesOn, TypeOK, readers, pool, Steps, Ends
  <2>2. Held' /\ Free'
    BY <1>2 DEF UnbindVpss, at, goesOn, Held, Free, StartSteps, Ends
  <2> QED BY <1>j, <1>s, <2>1, <2>2
<1>3. CASE StopVO
  <2>1. TypeOK'
    BY <1>3 DEF StopVO, at, goesOn, TypeOK, readers, pool, mpp, Steps, Ends
  <2>2. vpss' \subseteq 0..VpssGrp'
    BY <1>3, Channels DEF StopVO, at, mpp, Held
  <2>3. Held' /\ Free'
    BY <1>3, <2>2 DEF StopVO, at, goesOn, mpp, Held, Free, StartSteps, Ends
  <2> QED BY <1>j, <1>s, <2>1, <2>3
<1>4. CASE VpssStop
  <2>1. vpss' = {} /\ VpssGrp' \in Chn
    BY <1>4, Channels DEF VpssStop, at, Free
  <2>2. TypeOK'
    BY <1>4, <2>1 DEF VpssStop, at, goesOn, TypeOK, readers, pool, Steps, Ends
  <2>3. Held' /\ Free'
    BY <1>4, <2>1 DEF VpssStop, at, goesOn, Held, Free, StartSteps, Ends
  <2> QED BY <1>j, <1>s, <2>2, <2>3
<1>5. CASE VdecStop
  <2>1. vdec' \subseteq {NChn - 1}
    BY <1>5, Channels DEF VdecStop, TypeOK
  <2>2. TypeOK'
    BY <1>5 DEF VdecStop, at, goesOn, TypeOK, readers, pool, Steps, Ends
  <2>3. Held' /\ Free'
    BY <1>5, <2>1 DEF VdecStop, at, goesOn, Held, Free, StartSteps, Ends
  <2> QED BY <1>j, <1>s, <2>2, <2>3
<1>6. CASE ExitVBPool
  <2>1. TypeOK'
    BY <1>6 DEF ExitVBPool, at, goesOn, TypeOK, readers, pool, Steps, Ends
  <2>2. Held' /\ Free'
    BY <1>6 DEF ExitVBPool, at, goesOn, Held, Free, StartSteps, Ends
  <2> QED BY <1>j, <1>s, <2>1, <2>2
<1>7. CASE SysExit
  <2>1. TypeOK'
    BY <1>7 DEF SysExit, at, goesOn, TypeOK, readers, pool, Steps, Ends
  <2>2. Held' /\ Free'
    BY <1>7 DEF SysExit, at, goesOn, Held, Free, StartSteps, Ends
  <2> QED BY <1>j, <1>s, <2>1, <2>2
<1> QED BY <1>1, <1>2, <1>3, <1>4, <1>5, <1>6, <1>7 DEF UnWind

(***************************************************************************)
(* The readers are started, paused, told to stop and joined.               *)
(***************************************************************************)
LEMMA ConsoleKeeps ==
    ASSUME IInv, StartSendStream \/ Console \/ StopSendStream, UNCHANGED pool
    PROVE  IInv'
<1> USE DEF IInv
<1>s. ShowsLayout'
  <2>1. /\ mpc \in Runs \cup {"send"}
        /\ mpc' \in Runs \/ (mpc = "stop" /\ mpc' = "END7")
        /\ UNCHANGED <<shown, layout>>
    BY DEF StartSendStream, Console, Pause, Resume, Key, Exit, StopSendStream, at, goesOn,
           main, mpp, Runs
  <2> QED BY <2>1 DEF ShowsLayout, StartSteps, Runs, Ends
<1>1. CASE StartSendStream
  <2>1. TypeOK'
    BY <1>1 DEF StartSendStream, at, goesOn, TypeOK, pool, mpp, Steps
  <2>2. Held' /\ Free'
    BY <1>1 DEF StartSendStream, at, goesOn, mpp, Held, Free, StartSteps, Ends
  <2>3. Joined'
    BY <1>1 DEF StartSendStream, at, goesOn, Joined, StartSteps, Runs
  <2> QED BY <1>s, <2>1, <2>2, <2>3
<1>2. ASSUME NEW from \in {"start", "pause"}, NEW to \in {"start", "pause"}, Key(from, to)
      PROVE  IInv'
  <2>1. TypeOK'
    BY <1>2 DEF Key, TypeOK, pool, main, mpp
  <2>2. Held' /\ Free' /\ Joined'
    BY <1>2 DEF Key, main, mpp, Held, Free, Joined, Idle
  <2> QED BY <1>s, <2>1, <2>2
<1>3. CASE Exit
  <2>1. TypeOK'
    BY <1>3 DEF Exit, goesOn, TypeOK, pool, readers, mpp, Steps
  <2>2. Held' /\ Free'
    BY <1>3 DEF Exit, at, goesOn, mpp, Held, Free, StartSteps, Ends
  <2>3. Joined'
    <3>1. next' = 0 /\ mpc' = "stop" /\ rpc' = rpc
      BY <1>3 DEF Exit, at, goesOn, readers, Joined
    <3>2. 0 < NChn /\ \A c \in Chn : ~(c < 0)
      BY ChnAssumption DEF Chn
    <3> QED BY <3>1, <3>2 DEF Joined, StartSteps, Runs
  <2> QED BY <1>s, <2>1, <2>2, <2>3
<1>4. CASE StopSendStream
  <2>0. mpc = "stop" /\ next \in Chn /\ next < NChn
    BY <1>4, ChnAssumption DEF StopSendStream, at, Joined, TypeOK, Chn
  <2>1. CASE /\ ctrl' = [ctrl EXCEPT ![next] = "stop"]
             /\ UNCHANGED main
    <3>1. TypeOK'
      BY <1>4, <2>1 DEF StopSendStream, main, mpp, pool, TypeOK
    <3>2. Held' /\ Free' /\ Joined'
      BY <1>4, <2>1 DEF StopSendStream, main, mpp, Held, Free, Joined, Idle
    <3> QED BY <1>s, <3>1, <3>2
  <2>2. CASE /\ rpc[next] = "ended"
             /\ next' = next + 1
             /\ goesOn(IF next + 1 = NChn THEN "END7" ELSE "stop")
             /\ UNCHANGED <<ctrl, VpssGrp>>
    <3>1. next' \in 0..NChn /\ mpc' \in {"END7", "stop"}
      BY <2>0, <2>2, ChnAssumption DEF goesOn, Chn
    <3>2. TypeOK'
      BY <1>4, <2>2, <3>1 DEF StopSendStream, goesOn, mpp, pool, TypeOK, Steps, Ends
    <3>3. Held' /\ Free'
      BY <1>4, <2>0, <2>2, <3>1 DEF StopSendStream, goesOn, mpp, Held, Free, StartSteps, Ends
    <3>4. Joined'
      <4>1. \A c \in Chn : c < next + 1 => rpc[c] = "ended"
        BY <2>0, <2>2 DEF Joined, Chn
      <4>2. CASE next + 1 = NChn
        <5>1. \A c \in Chn : c < next + 1
          BY <2>0, <4>2 DEF Chn
        <5>2. mpc' = "END7" /\ rpc' = rpc
          BY <1>4, <2>2, <4>2 DEF StopSendStream, goesOn
        <5> QED BY <4>1, <5>1, <5>2 DEF Joined, StartSteps, Runs, Idle
      <4>3. CASE next + 1 # NChn
        <5>1. mpc' = "stop" /\ next' = next + 1 /\ rpc' = rpc
          BY <1>4, <2>2, <4>3 DEF StopSendStream, goesOn
        <5>2. next + 1 < NChn
          BY <2>0, <4>3, ChnAssumption DEF Chn
        <5> QED BY <4>1, <5>1, <5>2 DEF Joined, StartSteps, Runs
      <4> QED BY <4>2, <4>3
    <3> QED BY <1>s, <3>2, <3>3, <3>4
  <2> QED BY <1>4, <2>1, <2>2 DEF StopSendStream
<1> QED BY <1>1, <1>2, <1>3, <1>4 DEF Console, Pause, Resume

(***************************************************************************)
(* A reader ends for good.                                                 *)
(***************************************************************************)
LEMMA ReaderKeeps ==
    ASSUME IInv, NEW c \in Chn, Reader(c) \/ Receive(c), UNCHANGED <<main, mpp, pool>>
    PROVE  IInv'
<1> USE DEF IInv
<1>1. TypeOK'
  <2>1. /\ rpc' \in [Chn -> {"none", "top", "wait", "busy", "ended"}]
        /\ ctrl' \in [Chn -> {"start", "pause", "stop"}]
    BY DEF Reader, ReaderTop, ReaderWait, ReaderSend, Receive, TypeOK
  <2>2. inRing' \in [Chn -> BOOLEAN]
    BY DEF Reader, ReaderTop, ReaderWait, ReaderSend, Receive, TypeOK
  <2>3. avail' \in [Chn -> BOOLEAN]
    BY DEF Reader, ReaderTop, ReaderWait, ReaderSend, Receive, TypeOK
  <2>4. aborted' \in BOOLEAN
    BY DEF Reader, ReaderTop, ReaderWait, ReaderSend, Receive, TypeOK
  <2> QED BY <2>1, <2>2, <2>3, <2>4 DEF TypeOK, main, mpp, pool
<1>2. Held' /\ Free' /\ ShowsLayout'
  BY DEF main, mpp, Held, Free, ShowsLayout
<1>3. \A d \in Chn : Idle(d) => rpc'[d] = rpc[d]
  BY DEF Reader, ReaderTop, ReaderWait, ReaderSend, Receive, Idle, TypeOK
<1>4. Joined'
  BY <1>3 DEF main, Joined, Idle
<1> QED BY <1>1, <1>2, <1>4

(***************************************************************************)
(* The streams come and go without the pipeline.                           *)
(***************************************************************************)
LEMMA PoolKeeps ==
    ASSUME IInv, Pool!Next, UNCHANGED <<main, mpp, readers>>
    PROVE  IInv'
<1> USE DEF IInv
<1>1. TypeOK'
  BY DEF Pool!Next, Pool!Open, Pool!OpenFails, Pool!Play, Pool!End, TypeOK, main, mpp, readers
<1>2. Held' /\ Free' /\ ShowsLayout' /\ Joined'
  BY DEF main, mpp, readers, Held, Free, ShowsLayout, Joined, Idle
<1> QED BY <1>1, <1>2

(***************************************************************************)
(* A key switches the layout, wherever the main thread is.                 *)
(***************************************************************************)
LEMMA SwitchKeeps ==
    ASSUME IInv, NEW new \in Layouts, Switch(new), UNCHANGED <<main, readers, pool>>
    PROVE  IInv'
<1> USE DEF IInv
<1>0. /\ new \subseteq Chn \X (0..NChn)
      /\ shown' \subseteq (shown \ layout) \cup new
      /\ layout' = new
  BY Windows, SwitchShows DEF Switch
<1>1. TypeOK'
  <2>1. shown' \subseteq Chn \X (0..NChn)
    BY <1>0 DEF TypeOK
  <2> QED BY <1>0, <2>1 DEF Switch, TypeOK, main, readers, pool
<1>2. Held' /\ Free' /\ Joined'
  BY DEF Switch, main, readers, Held, Free, Joined, Idle
<1>3. ShowsLayout'
  <2>1. CASE mpc \in StartSteps \cup Runs
    <3>1. shown \in {{}, layout}
      BY <2>1 DEF ShowsLayout
    <3>2. vpss = {} \/ vpss = Chn
      BY <2>1 DEF Held, Free, StartSteps, Runs
    <3>3. shown' \in {{}, new}
      BY <1>0, <3>1, <3>2, SwitchShows DEF Switch
    <3> QED BY <1>0, <2>1, <3>3 DEF main, ShowsLayout, StartSteps, Runs, Ends
  <2>2. CASE mpc = "END7"
    BY <1>0, <2>2 DEF main, ShowsLayout, StartSteps, Runs, Ends
  <2>3. CASE mpc \in (Ends \ {"END7"}) \cup {"join"}
    BY <1>0, <2>3 DEF main, ShowsLayout, StartSteps, Runs, Ends
  <2>4. mpc \in StartSteps \cup Runs \cup Ends \cup {"join"}
    BY DEF TypeOK, Steps, StartSteps, Runs
  <2> QED BY <2>1, <2>2, <2>3, <2>4
<1> QED BY <1>1, <1>2, <1>3

\* What is held, what is free and who runs, throughout.
LEMMA Inductive == Spec => []IInv
<1>1. IInv /\ [Next]_vars => IInv'
  <2> SUFFICES ASSUME IInv, [Next]_vars PROVE IInv'
    OBVIOUS
  <2>1. CASE UNCHANGED vars
    BY <2>1 DEF vars, main, mpp, readers, pool, IInv, TypeOK, Held, Free, ShowsLayout, Joined,
                   Idle
  <2>2. CASE Next
    BY <2>2, StartUpKeeps, UnWindKeeps, ConsoleKeeps, SwitchKeeps, ReaderKeeps,
       PoolKeeps
       DEF Next, MainStep
  <2> QED BY <2>1, <2>2
<1> QED BY InitHolds, <1>1, PTL DEF Spec

(***************************************************************************)
(* The types; the index of the group started last stays one of a group.    *)
(***************************************************************************)
THEOREM PlayerTypeCorrect == Spec => []TypeOK
  BY Inductive, PTL DEF IInv

(***************************************************************************)
(* A decoder is bound to a group only while both exist, whichever step of  *)
(* the start-up failed and however far the unwinding has come.             *)
(***************************************************************************)
THEOREM FeedsCorrect == Spec => []FeedsConnect
<1>1. IInv => FeedsConnect
  <2> SUFFICES ASSUME IInv PROVE FeedsConnect
    OBVIOUS
  <2>1. CASE mpc \in {"show", "send", "ctrl", "stop", "END7", "END6"}
    BY <2>1 DEF IInv, Held, FeedsConnect, TypeOK
  <2>2. CASE mpc \notin {"show", "send", "ctrl", "stop", "END7", "END6"}
    BY <2>2 DEF IInv, Free, FeedsConnect
  <2> QED BY <2>1, <2>2
<1> QED BY Inductive, <1>1, PTL

(***************************************************************************)
(* No reader runs without its decoder, group, binding and pools.           *)
(***************************************************************************)
THEOREM ReadersCorrect == Spec => []ReadersHaveDecoders
<1>1. IInv => ReadersHaveDecoders
  <2> SUFFICES ASSUME IInv, NEW c \in Chn, rpc[c] \in {"top", "wait", "busy"}
               PROVE  c \in vdec \cap vpss \cap feed /\ modVb /\ sys
    BY DEF ReadersHaveDecoders
  <2>1. mpc \in Runs
    BY DEF IInv, Joined, Idle
  <2> QED BY <2>1 DEF IInv, Held, Runs
<1> QED BY Inductive, <1>1, PTL

(***************************************************************************)
(* Back in main() all is given back, but for the decoder the END labels    *)
(* leave out and windows of the layout the last key has left.              *)
(***************************************************************************)
THEOREM GivenBack == Spec => []ReturnsWhatItTook
<1>1. IInv => ReturnsWhatItTook
  BY DEF IInv, Free, ShowsLayout, Ends, ReturnsWhatItTook
<1> QED BY Inductive, <1>1, PTL
=============================================================================
