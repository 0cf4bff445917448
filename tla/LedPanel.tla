------------------------------ MODULE LedPanel ------------------------------
(***************************************************************************)
(* The four lamps of the player and the two threads that drive them: one   *)
(* shows a test pattern when the test key asks for it, the other one shows *)
(* every three seconds the word the monitor left in /led_ctl.txt.  They    *)
(* share led_ctl, which the second one reads without the mutex, and a      *)
(* condition variable that is waited for without a predicate.              *)
(*                                                                         *)
(* Lamps 1 and 3 (LED_NUM[0] and [2]) are green and power, 2 and 4 the     *)
(* others.  A pass of the second thread takes less than the second a       *)
(* phase of the test lasts (NextPhase).                                    *)
(***************************************************************************)
EXTENDS BoardMonitor

CONSTANT MaxFiles    \* descriptors left to the process: fopen() without fclose()

ASSUME PanelAssumption == MaxFiles \in Nat

Led == 0..3

VARIABLES
    led,        \* the lamps that are on
    led_ctl,    \* the test owns the lamps
    tester,     \* Media_Common_Receive_thread()
    phase,      \* j, the phase of the test it shows
    lighter,    \* set_light_thread(): "asleep", "open", "write" or "failed"
    word,       \* buf
    files       \* streams opened on /led_ctl.txt

panelVars == <<led, led_ctl, tester, phase, lighter, word, files>>
vars == <<monitorVars, panelVars>>

TypeOK ==
    /\ MonitorTypeOK
    /\ led \subseteq Led
    /\ led_ctl \in BOOLEAN
    /\ tester \in {"starting", "waiting", "woken", "testing"}
    /\ phase \in 0..3
    /\ lighter \in {"asleep", "open", "write", "failed"}
    /\ word \in {"none", "ok", "no"}
    /\ files \in 0..MaxFiles

Init ==
    /\ MonitorInit
    /\ led = {} /\ led_ctl = FALSE
    /\ tester = "starting" /\ phase = 0
    /\ lighter = "asleep" /\ word = "none" /\ files = 0

(***************************************************************************)
(* The test                                                                *)
(***************************************************************************)
Pattern(j) == CASE j = 0 -> Led [] j = 1 -> {} [] j = 2 -> Led [] j = 3 -> {0, 2}

TestWaits ==
    /\ tester = "starting"
    /\ tester' = "waiting"
    /\ UNCHANGED <<led, led_ctl, phase, lighter, word, files>>

\* set_cmd() of key 201: nothing while a test runs, else a signal, which is
\* lost on a thread that does not wait.
TestKey ==
    /\ ~led_ctl
    /\ tester' = IF tester = "waiting" THEN "woken" ELSE tester
    /\ UNCHANGED <<led, led_ctl, phase, lighter, word, files>>

TestBegins ==
    /\ tester = "woken"
    /\ tester' = "testing" /\ phase' = 0
    /\ led_ctl' = TRUE
    /\ led' = Pattern(0)
    /\ UNCHANGED <<lighter, word, files>>

\* The second of a phase is over.
NextPhase ==
    /\ tester = "testing" /\ phase < 3
    /\ lighter \notin {"open", "write"}
    /\ phase' = phase + 1
    /\ led' = Pattern(phase')
    /\ UNCHANGED <<led_ctl, tester, lighter, word, files>>

TestEnds ==
    /\ tester = "testing" /\ phase = 3
    /\ lighter \notin {"open", "write"}
    /\ led_ctl' = FALSE
    /\ tester' = "starting" /\ phase' = 0
    /\ UNCHANGED <<led, lighter, word, files>>

(***************************************************************************)
(* The word of the monitor                                                 *)
(***************************************************************************)
\* Mutant: the pass does not ask for led_ctl.
LampsAnyway == TRUE
LampsFree == ~led_ctl

\* Mutant: descriptors without end.
OpensUnchecked == TRUE
Opens == files < MaxFiles

\* Mutant: the stream is kept and not rewound.
WordReadOnce == IF word = "none" THEN file ELSE word

\* The word is that of the file opened: sed puts another file in its place.
WordRead == file

LightWakes ==
    /\ lighter = "asleep" /\ LampsFree
    /\ IF Opens
         THEN lighter' = "open" /\ files' = files + 1 /\ word' = WordRead
         ELSE lighter' = "failed" /\ UNCHANGED <<files, word>>
    /\ UNCHANGED <<led, led_ctl, tester, phase>>

LightPowers ==
    /\ lighter = "open"
    /\ led' = (led \cup {2}) \ {1}
    /\ lighter' = "write"
    /\ UNCHANGED <<led_ctl, tester, phase, word, files>>

\* Mutant: the red lamp is not turned off again.
ShownOneSided(w) == IF w = "ok" THEN led \cup {0} ELSE (led \ {0}) \cup {3}
Shown(w) == IF w = "ok" THEN (led \cup {0}) \ {3} ELSE (led \ {0}) \cup {3}

LightWrites ==
    /\ lighter = "write"
    /\ led' = Shown(word)
    /\ lighter' = "asleep"
    /\ UNCHANGED <<led_ctl, tester, phase, word, files>>

TesterNext == TestWaits \/ TestBegins \/ NextPhase \/ TestEnds
LighterNext == LightWakes \/ LightPowers \/ LightWrites

Next ==
    \/ MonitorNext /\ UNCHANGED panelVars
    \/ (TesterNext \/ LighterNext \/ TestKey) /\ UNCHANGED monitorVars

Spec == Init /\ [][Next]_vars

\* The two threads run; the keys and the unit do as they like.
FairSpec ==
    /\ Spec
    /\ WF_vars(TesterNext /\ UNCHANGED monitorVars)
    /\ WF_vars(LighterNext /\ UNCHANGED monitorVars)

(***************************************************************************)
(* Properties                                                              *)
(***************************************************************************)
\* From its second phase on a test shows its pattern: a pass of the other
\* thread that was under way when it began has left the lamps alone since
\* (do_switch.c:1325-1345, 1377).
TestPatternShown ==
    tester = "testing" /\ phase > 0 => led = Pattern(phase)

\* Once a word was shown, a panel at rest shows power and one of the two
\* colours, whatever tests and words followed each other (do_switch.c:1385-1396).
RestingLampIsOneColour ==
    ~led_ctl /\ lighter \in {"asleep", "failed"} /\ word # "none"
        => led \in {{0, 2}, {2, 3}}

\* A word "no" turns the lamp red unless it is taken back or a test begins, as
\* long as the process has descriptors for two more passes (do_switch.c:1376-1399).
LampFollows ==
    file = "no" /\ ~led_ctl /\ files + 2 <= MaxFiles
        ~> led = {2, 3} \/ file = "ok" \/ led_ctl
=============================================================================
