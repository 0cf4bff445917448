------------------------------- MODULE Player -------------------------------
(***************************************************************************)
(* The player process from main() on: the main thread acquires the         *)
(* pipeline of the MPP step by step (SAMPLE_H264_VDEC_VPSS_VO()), starts a *)
(* reader for each channel, obeys its console, and gives everything back,  *)
(* in steps a failure jumps into.  The RTSP client (StreamPool, which      *)
(* RtspClient implements) delivers data to the readers from another thread *)
(* and ends the process when no stream is left.  Meanwhile the keys switch *)
(* layouts (DisplaySwitch has that call by call): the signals are set up   *)
(* before the start-up and stay until the process ends, so a switch may    *)
(* fall between any two steps of the main thread.                          *)
(***************************************************************************)
EXTENDS Integers, FiniteSets

CONSTANTS
    NChn,      \* u32VdecChnNum, VDEC_DECODE_CHN
    Layouts    \* the <<group, window>> pairs do_switch_all() binds for a mode

ASSUME ChnAssumption == NChn \in Nat \ {0}

Chn == 0..NChn - 1   \* decoder channels, VPSS groups, streams
Big == NChn          \* the large window; the others have the numbers of channels

\* A layout shows a group once at most in each window, and never in the large
\* window only.
ASSUME LayoutsAssumption ==
    \A L \in Layouts :
        /\ L \subseteq Chn \X (0..NChn)
        /\ \A p, q \in L : p[2] = q[2] => p = q
        /\ L # {} => \E p \in L : p[2] \in Chn

Own == {<<c, c>> : c \in Chn}             \* every group in its own window
FirstLayout == (Own \ {<<0, 0>>}) \cup {<<0, Big>>}

VARIABLES
    mpc,       \* the main thread: a step of the start-up or an END label
    VpssGrp,   \* the group started last
    next,      \* the reader StopSendStream() stops next
    failed,    \* a step of the start-up failed
    \* what the MPP holds for the process
    sys,       \* SYS and the common pools
    modVb,     \* the pools of the decoders
    vdec,      \* decoder channels
    vpss,      \* VPSS groups
    feed,      \* bindings of a decoder to the group of its number
    shown,     \* bindings of a group to a window
    layout,    \* the pairs of previous_mode_all
    \* the reader threads
    rpc,       \* "none", "top", "wait", "busy" or "ended"
    inRing,    \* pu8Buf points into the ring buffer
    ctrl,      \* eThreadCtrl: "start", "pause" or "stop"
    avail,     \* the ring buffer holds 1000 bytes
    aborted,   \* the C library has aborted the process
    \* the RTSP client
    opened, live, playing, running

main == <<mpc, VpssGrp, next, failed>>
mpp == <<sys, modVb, vdec, vpss, feed, shown, layout>>
readers == <<rpc, inRing, ctrl, avail, aborted>>
pool == <<opened, live, playing, running>>
vars == <<main, mpp, readers, pool>>

Pool == INSTANCE StreamPool WITH Stream <- Chn

Steps == {"sys", "vb", "vdec", "vpss", "vo", "feed", "show", "send", "ctrl", "stop"}
Ends == {"END7", "END6", "END5", "END4", "END3", "END2", "END1"}

TypeOK ==
    /\ mpc \in Steps \cup Ends \cup {"join"}
    /\ VpssGrp \in Chn /\ next \in 0..NChn
    /\ failed \in BOOLEAN
    /\ sys \in BOOLEAN /\ modVb \in BOOLEAN
    /\ vdec \subseteq Chn /\ vpss \subseteq Chn /\ feed \subseteq Chn
    /\ shown \subseteq Chn \X (0..NChn)
    /\ layout \in Layouts \cup {{}, FirstLayout}
    /\ rpc \in [Chn -> {"none", "top", "wait", "busy", "ended"}]
    /\ inRing \in [Chn -> BOOLEAN]
    /\ ctrl \in [Chn -> {"start", "pause", "stop"}]
    /\ avail \in [Chn -> BOOLEAN]
    /\ aborted \in BOOLEAN
    /\ opened \subseteq Chn /\ live \subseteq Chn /\ playing \subseteq Chn
    /\ running \in BOOLEAN

Init ==
    /\ mpc = "sys" /\ VpssGrp = 0 /\ next = 0 /\ failed = FALSE
    /\ sys = FALSE /\ modVb = FALSE
    /\ vdec = {} /\ vpss = {} /\ feed = {} /\ shown = {} /\ layout = {}
    /\ rpc = [c \in Chn |-> "none"]
    /\ inRing = [c \in Chn |-> FALSE]
    /\ ctrl = [c \in Chn |-> "start"]
    /\ avail = [c \in Chn |-> FALSE]
    /\ aborted = FALSE
    /\ Pool!Init

alive == running /\ ~aborted

at(label) == alive /\ mpc = label

goesOn(label) == mpc' = label /\ UNCHANGED failed
fails(label) == mpc' = label /\ failed' = TRUE

-----------------------------------------------------------------------------
(***************************************************************************)
(* The start-up.  A step does its work for the channels in order, up to    *)
(* the one that fails, and jumps to the END label given to it.             *)
(***************************************************************************)
SysInit ==
    /\ at("sys")
    /\ \/ sys' = TRUE /\ goesOn("vb")
       \/ sys' \in BOOLEAN /\ fails("END1")
    /\ UNCHANGED <<modVb, vdec, vpss, feed, shown, layout, VpssGrp, next>>

InitVBPool ==
    /\ at("vb")
    /\ \/ modVb' = TRUE /\ goesOn("vdec")
       \/ modVb' = FALSE /\ fails("END2")
    /\ UNCHANGED <<sys, vdec, vpss, feed, shown, layout, VpssGrp, next>>

VdecStart ==
    /\ at("vdec")
    /\ \/ vdec' = Chn /\ goesOn("vpss")
       \/ (\E c \in 0..NChn : vdec' = 0..c - 1) /\ fails("END3")
    /\ UNCHANGED <<sys, modVb, vpss, feed, shown, layout, VpssGrp, next>>

\* Mutant: a failure jumps past the groups already started.
VpssStartPast ==
    /\ at("vpss")
    /\ \/ vpss' = Chn /\ VpssGrp' = NChn - 1 /\ goesOn("vo")
       \/ \E c \in Chn : /\ vpss' \in {0..c - 1, 0..c}
                         /\ VpssGrp' = c
                         /\ fails("END3")
    /\ UNCHANGED <<sys, modVb, vdec, feed, shown, layout, next>>

VpssStart ==
    /\ at("vpss")
    /\ \/ vpss' = Chn /\ VpssGrp' = NChn - 1 /\ goesOn("vo")
       \/ \E c \in Chn : /\ vpss' \in {0..c - 1, 0..c}
                         /\ VpssGrp' = c
                         /\ fails("END4")
    /\ UNCHANGED <<sys, modVb, vdec, feed, shown, layout, next>>

VoStart ==
    /\ at("vo")
    /\ goesOn("feed") \/ fails("END5")
    /\ UNCHANGED <<mpp, VpssGrp, next>>

VdecBindVpss ==
    /\ at("feed")
    /\ \/ feed' = Chn /\ goesOn("show")
       \/ (\E c \in Chn : feed' = 0..c - 1) /\ fails("END6")
    /\ UNCHANGED <<sys, modVb, vdec, vpss, shown, layout, VpssGrp, next>>

\* HI_MPI_SYS_Bind: a window has one source, and the group must exist.
Bind(b, new) ==
    b \cup {p \in new : p[1] \in vpss /\ \A q \in b : q[2] # p[2]}

Taken(w) == \E p \in shown : p[2] = w

\* A window a key has filled meanwhile refuses its own group: the start-up
\* fails.  At the end channel 0 goes to the large window, and the mode is set.
VpssBindVo ==
    /\ at("show")
    /\ \/ /\ \A c \in Chn : ~Taken(c)
          /\ shown' = Bind((shown \cup Own) \ {<<0, 0>>}, {<<0, Big>>})
          /\ layout' = FirstLayout
          /\ goesOn("send")
       \/ /\ \E c \in Chn : /\ \A d \in 0..c - 1 : ~Taken(d)
                            /\ shown' = shown \cup {<<d, d>> : d \in 0..c - 1}
          /\ fails("END7")
          /\ UNCHANGED layout
    /\ UNCHANGED <<sys, modVb, vdec, vpss, feed, VpssGrp, next>>

StartSendStream ==
    /\ at("send")
    /\ rpc' = [c \in Chn |-> "top"]
    /\ goesOn("ctrl")
    /\ UNCHANGED <<mpp, VpssGrp, next, inRing, ctrl, avail, aborted>>

-----------------------------------------------------------------------------
(***************************************************************************)
(* CmdCtrl(): the console.  Other keys change nothing.                     *)
(***************************************************************************)
Key(from, to) ==
    /\ at("ctrl") /\ ctrl[0] = from
    /\ ctrl' = [c \in Chn |-> to]
    /\ UNCHANGED <<main, mpp, rpc, inRing, avail, aborted>>

Pause == Key("start", "pause")
Resume == Key("pause", "start")

Exit ==
    /\ at("ctrl")
    /\ goesOn("stop")
    /\ UNCHANGED <<mpp, readers, VpssGrp, next>>

\* Mutant: the reader is told to stop and not waited for.
StopSendStreamNoJoin ==
    /\ at("stop")
    /\ ctrl' = [ctrl EXCEPT ![next] = "stop"]
    /\ next' = next + 1
    /\ goesOn(IF next + 1 = NChn THEN "END7" ELSE "stop")
    /\ UNCHANGED <<mpp, VpssGrp, rpc, inRing, avail, aborted>>

\* StopSendStream(): each reader is told to stop and waited for in turn.
StopSendStream ==
    /\ at("stop")
    /\ \/ /\ ctrl[next] # "stop"
          /\ ctrl' = [ctrl EXCEPT ![next] = "stop"]
          /\ UNCHANGED main
       \/ /\ ctrl[next] = "stop" /\ rpc[next] = "ended"
          /\ next' = next + 1
          /\ goesOn(IF next + 1 = NChn THEN "END7" ELSE "stop")
          /\ UNCHANGED <<ctrl, VpssGrp>>
    /\ UNCHANGED <<mpp, rpc, inRing, avail, aborted>>

-----------------------------------------------------------------------------
(***************************************************************************)
(* The END labels.  Each falls through to the next.                        *)
(***************************************************************************)
\* END7: every group from its own window, wherever the keys have put it.
UnbindVo ==
    /\ at("END7")
    /\ shown' = shown \ Own
    /\ goesOn("END6")
    /\ UNCHANGED <<sys, modVb, vdec, vpss, feed, layout, VpssGrp, next>>

\* Mutant: the decoders stay bound to their groups.
UnbindVpssNot ==
    /\ at("END6")
    /\ goesOn("END5")
    /\ UNCHANGED <<mpp, VpssGrp, next>>

UnbindVpss ==
    /\ at("END6")
    /\ feed' = {}
    /\ goesOn("END5")
    /\ UNCHANGED <<sys, modVb, vdec, vpss, shown, layout, VpssGrp, next>>

StopVO ==
    /\ at("END5")
    /\ goesOn("END4")
    /\ UNCHANGED <<mpp, VpssGrp, next>>

\* Mutant: the loop over the groups counts an unsigned index down below 0.
VpssStopForever ==
    /\ at("END4")
    /\ vpss' = vpss \ (0..VpssGrp)
    /\ VpssGrp' = 0
    /\ goesOn("END4")
    /\ UNCHANGED <<sys, modVb, vdec, feed, shown, layout, next>>

\* Mutant: the loop counts VpssGrp itself down.
VpssStopBelow ==
    /\ at("END4")
    /\ vpss' = vpss \ (0..VpssGrp)
    /\ VpssGrp' = -1
    /\ goesOn("END3")
    /\ UNCHANGED <<sys, modVb, vdec, feed, shown, layout, next>>

VpssStop ==
    /\ at("END4")
    /\ vpss' = vpss \ (0..VpssGrp)
    /\ VpssGrp' = 0
    /\ goesOn("END3")
    /\ UNCHANGED <<sys, modVb, vdec, feed, shown, layout, next>>

\* SAMPLE_COMM_VDEC_Stop(u32VdecChnNum-1) spares the last channel, and gives
\* up at the first that was not created.
VdecStop ==
    /\ at("END3")
    /\ vdec' = vdec \ (0..NChn - 2)
    /\ goesOn("END2")
    /\ UNCHANGED <<sys, modVb, vpss, feed, shown, layout, VpssGrp, next>>

ExitVBPool ==
    /\ at("END2")
    /\ modVb' = FALSE
    /\ goesOn("END1")
    /\ UNCHANGED <<sys, vdec, vpss, feed, shown, layout, VpssGrp, next>>

\* SYS_Exit(), and the return to main(), which joins the RTSP thread.
SysExit ==
    /\ at("END1")
    /\ sys' = FALSE /\ modVb' = FALSE
    /\ goesOn("join")
    /\ UNCHANGED <<vdec, vpss, feed, shown, layout, VpssGrp, next>>

StartUp ==
    \/ SysInit \/ InitVBPool \/ VdecStart \/ VpssStart \/ VoStart
    \/ VdecBindVpss \/ VpssBindVo

UnWind ==
    \/ UnbindVo \/ UnbindVpss \/ StopVO \/ VpssStop \/ VdecStop
    \/ ExitVBPool \/ SysExit

Console == Pause \/ Resume \/ Exit

-----------------------------------------------------------------------------
(***************************************************************************)
(* do_switch_all(), run by the handler of a key on whatever thread takes   *)
(* the signal: it unbinds the pairs of the previous mode and binds those   *)
(* of the new one.                                                         *)
(***************************************************************************)
\* Mutant: the pairs of the previous mode stay bound.
SwitchUnboundNot(new) ==
    /\ alive
    /\ shown' = Bind(shown, new)
    /\ layout' = new
    /\ UNCHANGED <<sys, modVb, vdec, vpss, feed>>

Switch(new) ==
    /\ alive
    /\ shown' = Bind(shown \ layout, new)
    /\ layout' = new
    /\ UNCHANGED <<sys, modVb, vdec, vpss, feed>>

-----------------------------------------------------------------------------
(***************************************************************************)
(* The reader of channel c, SAMPLE_COMM_VDEC_SendStream(): RingBuffer has  *)
(* its work on the buffer, here is when it starts and ends.                *)
(***************************************************************************)
\* The pointer it frees at its end is the one malloc() gave it, unless it has
\* read: then it points into the ring buffer, and free() may abort.
ReaderTop(c) ==
    /\ alive /\ rpc[c] = "top"
    /\ \/ /\ ctrl[c] = "stop"
          /\ rpc' = [rpc EXCEPT ![c] = "ended"]
          /\ aborted' \in (IF inRing[c] THEN BOOLEAN ELSE {FALSE})
       \/ /\ ctrl[c] = "start"
          /\ rpc' = [rpc EXCEPT ![c] = "wait"]
          /\ UNCHANGED aborted
    /\ UNCHANGED <<inRing, ctrl, avail>>

\* The wait for 1000 bytes looks at nothing else.
ReaderWait(c) ==
    /\ alive /\ rpc[c] = "wait" /\ avail[c]
    /\ rpc' = [rpc EXCEPT ![c] = "busy"]
    /\ inRing' = [inRing EXCEPT ![c] = TRUE]
    /\ UNCHANGED <<ctrl, avail, aborted>>

\* A frame the decoder does not take is sent again, unless told to stop.
ReaderSend(c) ==
    /\ alive /\ rpc[c] = "busy"
    /\ rpc' = [rpc EXCEPT ![c] = "top"]
    /\ \E more \in BOOLEAN : avail' = [avail EXCEPT ![c] = more]
    /\ UNCHANGED <<inRing, ctrl, aborted>>

Reader(c) == ReaderTop(c) \/ ReaderWait(c) \/ ReaderSend(c)

\* Data of a stream that plays; a muted channel is cleared instead.
Receive(c) ==
    /\ alive /\ c \in playing
    /\ \E more \in BOOLEAN : avail' = [avail EXCEPT ![c] = more]
    /\ UNCHANGED <<rpc, inRing, ctrl, aborted>>

-----------------------------------------------------------------------------
MainStep == (StartUp \/ UnWind) /\ UNCHANGED <<readers, pool>>

Next ==
    \/ MainStep
    \/ (StartSendStream \/ Console \/ StopSendStream) /\ UNCHANGED pool
    \/ \E new \in Layouts : Switch(new) /\ UNCHANGED <<main, readers, pool>>
    \/ \E c \in Chn : (Reader(c) \/ Receive(c)) /\ UNCHANGED <<main, mpp, pool>>
    \/ alive /\ Pool!Next /\ UNCHANGED <<main, mpp, readers>>

Spec == Init /\ [][Next]_vars

\* The threads run; what the operator and the cameras do is up to them.
FairSpec ==
    /\ Spec
    /\ WF_vars(MainStep)
    /\ WF_vars((StartSendStream \/ StopSendStream) /\ UNCHANGED pool)
    /\ \A c \in Chn : WF_vars(Reader(c) /\ UNCHANGED <<main, mpp, pool>>)

-----------------------------------------------------------------------------
\* A binding joins a decoder and a group that exist, on every path through the
\* start-up, the failures and the unwinding (sample_vdec.cpp:484, 590).
FeedsConnect == feed \subseteq vdec \cap vpss

\* A reader that runs has its decoder, group and pools: nothing is taken down
\* before all readers are joined (sample_comm_vdec.c:892).
ReadersHaveDecoders ==
    \A c \in Chn : rpc[c] \in {"top", "wait", "busy"} =>
        c \in vdec \cap vpss \cap feed /\ modVb /\ sys

\* When the start-up has returned to main(), whichever step failed and whatever
\* the keys did meanwhile, all is given back but the last decoder channel, which
\* VDEC_Stop(u32VdecChnNum-1) spares, and windows END7 does not unbind; these
\* belong to the layout of the last key, none to an earlier one, so that a
\* later switch would still free them (sample_vdec.cpp:572, 600).
ReturnsWhatItTook ==
    mpc = "join" =>
        /\ vdec \subseteq {NChn - 1} /\ vpss = {} /\ feed = {} /\ ~modVb /\ ~sys
        /\ shown \subseteq layout

\* A start-up that fails unwinds to the end, and main() then waits for the
\* RTSP thread, unless that ends the process first (sample_vdec.cpp:728).
FailedStartUpReturns == failed ~> mpc = "join" \/ ~running

\* The key 'e' exits: the readers stop, the pipeline is given back
\* (sample_comm_vdec.c:815).
ExitKeyUnwinds == mpc = "stop" ~> mpc = "join" \/ ~running
=============================================================================
