---------------------------- MODULE BoardMonitor ----------------------------
(***************************************************************************)
(* The daemon that watches the display unit over a serial line (service/): *)
(* one thread asks a question every 300 ms, in a fixed cycle; another one  *)
(* reads what arrives, or notes a second of silence, and after Window      *)
(* chunks writes "ok" or "no" into /led_ctl.txt.                           *)
(*                                                                         *)
(* A Tick is one turn of the sender with what becomes of its question.     *)
(* The answer takes up to one turn, so of two answers n turns apart the    *)
(* silence lasts between n - 1 and n + 1 turns: select() times out (1 s)   *)
(* after the third or the fourth turn without an answer.                   *)
(***************************************************************************)
EXTENDS Integers, Sequences, FiniteSets

CONSTANTS
    Cycle,    \* the questions of the twelve turns, "none" where it is skipped
    Window,   \* the chunks a verdict is made of
    Faults,   \* pairs of a sensor and the byte a broken unit answers
    Settle    \* bound: turns after which the file is to tell the truth

Sensor == {"temp", "temp1", "temp2", "b5", "b12", "b33", "b1", "status"}
Question == Sensor \cup {"light", "contrast"}

ASSUME MonitorAssumption ==
    /\ Cycle \in Seq(Question \cup {"none"}) /\ Cycle # <<>>
    /\ Window \in Nat \ {0} /\ Settle \in Nat
    /\ Faults \subseteq Sensor \X (0..255)

Sound == <<"none", 0>>
Dead == <<"dead", 0>>

VARIABLES
    step,         \* cmd_own + 1
    line,         \* the chunks on their way
    silent,       \* turns since select() was called
    loop_serch,   \* chunks since the last verdict
    over,         \* the sensors of serial_message_tonet above their limit
    statusOK,     \* serial_message_tonet.status # 0
    file,         \* the word in /led_ctl.txt
    fault,        \* what is wrong with the unit
    calm          \* turns since a fault came or went or an answer was spoilt

monitorVars == <<step, line, silent, loop_serch, over, statusOK, file, fault, calm>>

MonitorTypeOK ==
    /\ step \in 1..Len(Cycle)
    /\ line \in {<<>>} \cup {<<c>> : c \in Question \cup {"bad"}} \cup {<<"bad", "bad">>}
    /\ silent \in 0..4
    /\ loop_serch \in 0..Window - 1
    /\ over \subseteq Sensor
    /\ statusOK \in BOOLEAN
    /\ file \in {"ok", "no"}
    /\ fault \in Faults \cup {Sound, Dead}
    /\ calm \in 0..Settle

\* memset() leaves a status of 0; the first verdict comes with it overwritten.
MonitorInit ==
    /\ step = 1 /\ line = <<>> /\ silent = 0
    /\ loop_serch = 0 /\ over = {} /\ statusOK = FALSE
    /\ file = "ok"
    /\ fault = Sound /\ calm = Settle

\* The byte of an answer, by a sound unit 25 degrees and the nominal voltage.
Nominal(k) ==
    CASE k = "b5" -> 50 [] k = "b12" -> 120 [] k = "b33" -> 33 [] k = "b1" -> 12
      [] k = "status" -> 1 [] OTHER -> 145

Byte(k) == IF fault[1] = k THEN fault[2] ELSE Nominal(k)

\* analysis_net_message() converts the byte, serial_recv_msg() compares: degrees
\* are byte * 150 / 255 - 60, volts byte / 10.
AboveLimit(k, b) ==
    CASE k \in {"temp", "temp1", "temp2"} -> b * 150 - 60 * 255 > 100 * 255
      [] k = "b5" -> b > 80 [] k = "b12" -> b > 150
      [] k = "b33" -> b > 50 [] k = "b1" -> b > 20
      [] OTHER -> FALSE

Disturbed == calm' = 0
Undisturbed == calm' = IF calm < Settle THEN calm + 1 ELSE calm

Answered(k) == line' = <<k>> /\ Undisturbed

\* Lost, spoilt, or cut in two by a read() that returns what there is.
Spoilt == line' \in {<<>>, <<"bad">>, <<"bad", "bad">>} /\ Disturbed

Tick ==
    /\ line = <<>> /\ silent < 4
    /\ step' = (step % Len(Cycle)) + 1
    /\ silent' = silent + 1
    /\ LET k == Cycle[step] IN
       IF k = "none" \/ fault = Dead
         THEN line' = <<>> /\ Undisturbed
         ELSE Answered(k) \/ Spoilt
    /\ UNCHANGED <<loop_serch, over, statusOK, file, fault>>

\* analysis_net_message(): a chunk with a wrong sum changes no value.
OverAfter(c) ==
    IF c \notin Sensor THEN over
    ELSE IF AboveLimit(c, Byte(c)) THEN over \cup {c} ELSE over \ {c}

StatusAfter(c) == IF c = "status" THEN Byte(c) # 0 ELSE statusOK

\* Mutant: led_flags is not reset after an alarm.
VerdictSticks(c) ==
    IF file = "no" \/ OverAfter(c) # {} \/ ~StatusAfter(c) THEN "no" ELSE "ok"

Verdict(c) == IF OverAfter(c) # {} \/ ~StatusAfter(c) THEN "no" ELSE "ok"

\* Mutant: the chunks are counted on.
WindowNeverFull == loop_serch = Window
WindowFull == loop_serch + 1 = Window

Receive ==
    /\ line # <<>>
    /\ line' = Tail(line)
    /\ silent' = 0
    /\ LET c == Head(line) IN
       IF ~WindowFull
         THEN /\ loop_serch' = loop_serch + 1
              /\ over' = OverAfter(c)
              /\ statusOK' = StatusAfter(c)
              /\ UNCHANGED file
         ELSE /\ file' = Verdict(c)
              /\ loop_serch' = 0 /\ over' = {} /\ statusOK' = FALSE
    /\ UNCHANGED <<step, fault, calm>>

Timeout ==
    /\ silent >= 3
    /\ silent' = 0
    /\ file' = "no"
    /\ UNCHANGED <<step, line, loop_serch, over, statusOK, fault, calm>>

UnitChanges ==
    /\ line = <<>>
    /\ fault' \in (Faults \cup {Sound, Dead}) \ {fault}
    /\ Disturbed
    /\ UNCHANGED <<step, line, silent, loop_serch, over, statusOK, file>>

MonitorNext == Tick \/ Receive \/ Timeout \/ UnitChanges

MonitorSpec == MonitorInit /\ [][MonitorNext]_monitorVars

\* What the monitor can tell of a fault: the unit is silent, its status is 0,
\* or a voltage is too high.  It has no lower limits, and a byte never makes
\* more than 90 degrees.
Alarming(f) ==
    \/ f = Dead
    \/ f[1] = "status" /\ f[2] = 0
    \/ f[1] = "b5" /\ f[2] > 80
    \/ f[1] = "b12" /\ f[2] > 150
    \/ f[1] = "b33" /\ f[2] > 50
    \/ f[1] = "b1" /\ f[2] > 20

\* Settle turns after the last disturbance the file says "no" exactly if the
\* unit has a fault the monitor looks for, wherever in the cycle the window of
\* the verdict had come to lie (serial_recv_msg.c:143-175).
WordTellsTruth == calm = Settle => (file = "no" <=> Alarming(fault))
=============================================================================
