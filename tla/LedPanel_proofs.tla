-------------------------- MODULE LedPanel_proofs --------------------------
(***************************************************************************)
(* Proofs about LedPanel and the monitor it follows, for every set of      *)
(* faults and number of descriptors, and but for the verdict also for      *)
(* every cycle of questions and window.                                    *)
(***************************************************************************)
EXTENDS LedPanel, TLAPS

(***************************************************************************)
(* The monitor                                                             *)
(***************************************************************************)
\* The cycle is walked round.
LEMMA TurnsGoRound ==
    ASSUME NEW n \in Nat \ {0}, NEW i \in 1..n
    PROVE  (i % n) + 1 \in 1..n
  OBVIOUS

\* A counter that is reset where it meets its limit.
LEMMA CountsBelow ==
    ASSUME NEW w \in Nat \ {0}, NEW i \in 0..w - 1
    PROVE  /\ 0 \in 0..w - 1
           /\ i + 1 # w => i + 1 \in 0..w - 1
  OBVIOUS

\* One that stays at its limit.
LEMMA CountsUpTo ==
    ASSUME NEW s \in Nat, NEW i \in 0..s
    PROVE  0 \in 0..s /\ s \in 0..s /\ (i < s => i + 1 \in 0..s)
  OBVIOUS

\* The values the counters of the monitor may take.
LEMMA MonitorSteps ==
    ASSUME MonitorTypeOK
    PROVE  /\ (step % Len(Cycle)) + 1 \in 1..Len(Cycle)
           /\ Cycle[step] \in Question \cup {"none"}
           /\ 0 \in 0..Window - 1
           /\ ~WindowFull => loop_serch + 1 \in 0..Window - 1
           /\ 0 \in 0..Settle
           /\ (IF calm < Settle THEN calm + 1 ELSE calm) \in 0..Settle
<1>1. Len(Cycle) \in Nat \ {0}
  BY MonitorAssumption
<1>2. (step % Len(Cycle)) + 1 \in 1..Len(Cycle)
  BY <1>1, TurnsGoRound DEF MonitorTypeOK
<1>3. Cycle[step] \in Question \cup {"none"}
  BY MonitorAssumption DEF MonitorTypeOK
<1>4. /\ 0 \in 0..Window - 1
      /\ ~WindowFull => loop_serch + 1 \in 0..Window - 1
  BY CountsBelow, MonitorAssumption DEF MonitorTypeOK, WindowFull
<1>5. 0 \in 0..Settle /\ (IF calm < Settle THEN calm + 1 ELSE calm) \in 0..Settle
  BY CountsUpTo, MonitorAssumption DEF MonitorTypeOK
<1> QED BY <1>2, <1>3, <1>4, <1>5

\* Receive() takes one of at most two chunks.
LEMMA TailOfLine ==
    ASSUME NEW l \in {<<>>} \cup {<<c>> : c \in Question \cup {"bad"}} \cup {<<"bad", "bad">>},
           l # <<>>
    PROVE  Tail(l) \in {<<>>, <<"bad">>}
<1>1. ASSUME NEW c PROVE Tail(<<c>>) = <<>>
  OBVIOUS
<1>2. Tail(<<"bad", "bad">>) = <<"bad">>
  OBVIOUS
<1> QED BY <1>1, <1>2

LEMMA MonitorInitTyped == MonitorInit => MonitorTypeOK
<1> SUFFICES ASSUME MonitorInit PROVE MonitorTypeOK
  OBVIOUS
<1>1. step \in 1..Len(Cycle)
  BY MonitorAssumption DEF MonitorInit
<1>2. loop_serch \in 0..Window - 1 /\ calm \in 0..Settle
  BY MonitorAssumption DEF MonitorInit
<1>3. silent \in 0..4
  BY DEF MonitorInit
<1> QED BY <1>1, <1>2, <1>3 DEF MonitorInit, MonitorTypeOK

LEMMA MonitorKeepsTypes ==
    ASSUME MonitorTypeOK, MonitorNext
    PROVE  MonitorTypeOK'
<1>1. CASE Tick
  <2>1. step' \in 1..Len(Cycle) /\ calm' \in 0..Settle
    BY <1>1, MonitorSteps DEF Tick, Answered, Spoilt, Disturbed, Undisturbed
  <2>2. line' \in {<<>>} \cup {<<c>> : c \in Question \cup {"bad"}} \cup {<<"bad", "bad">>}
    BY <1>1, MonitorSteps DEF Tick, Answered, Spoilt
  <2>3. silent' \in 0..4
    BY <1>1 DEF Tick, MonitorTypeOK
  <2> QED BY <1>1, <2>1, <2>2, <2>3 DEF Tick, MonitorTypeOK
<1>2. CASE Receive
  <2>1. line' \in {<<>>, <<"bad">>}
    BY <1>2, TailOfLine DEF Receive, MonitorTypeOK
  <2>2. loop_serch' \in 0..Window - 1
    BY <1>2, MonitorSteps DEF Receive
  <2>3. over' \subseteq Sensor /\ file' \in {"ok", "no"}
    BY <1>2 DEF Receive, OverAfter, Verdict, MonitorTypeOK
  <2>4. statusOK' \in BOOLEAN
    BY <1>2 DEF Receive, StatusAfter, MonitorTypeOK
  <2> QED BY <1>2, <2>1, <2>2, <2>3, <2>4 DEF Receive, MonitorTypeOK
<1>3. CASE Timeout
  BY <1>3 DEF Timeout, MonitorTypeOK
<1>4. CASE UnitChanges
  <2>1. calm' \in 0..Settle
    BY <1>4, MonitorSteps DEF UnitChanges, Disturbed
  <2> QED BY <1>4, <2>1 DEF UnitChanges, MonitorTypeOK
<1> QED BY <1>1, <1>2, <1>3, <1>4 DEF MonitorNext

\* A step of the panel keeps the types of the monitor.
LEMMA MonitorStands ==
    ASSUME MonitorTypeOK, UNCHANGED monitorVars
    PROVE  MonitorTypeOK'
  BY DEF MonitorTypeOK, monitorVars

(***************************************************************************)
(* The monitor alone: its place in the cycle, the chunks of the window and *)
(* the turns of silence stay below their limits, whatever is lost, spoilt  *)
(* or split on the line.                                                   *)
(***************************************************************************)
THEOREM MonitorTypeCorrect == MonitorSpec => []MonitorTypeOK
<1>1. MonitorTypeOK /\ [MonitorNext]_monitorVars => MonitorTypeOK'
  BY MonitorKeepsTypes, MonitorStands
<1> QED BY MonitorInitTyped, <1>1, PTL DEF MonitorSpec

(***************************************************************************)
(* The verdict, for the cycle of serial_send_msg(), a window of as many    *)
(* chunks as the cycle has questions, and any faults.                      *)
(***************************************************************************)
CodeCycle ==
    /\ Cycle = <<"none", "light", "none", "contrast", "temp", "temp1", "temp2",
                 "b5", "b12", "b33", "b1", "status">>
    /\ Window = 10
    /\ Settle >= 24

\* The questions asked before turn t of three rounds of the cycle, and in the
\* last c turns before turn s of a round.
Skips(t, i) == IF i < t THEN 1 ELSE 0
Asked(t) ==
    t - 1 - (Skips(t, 1) + Skips(t, 3) + Skips(t, 13) + Skips(t, 15)
               + Skips(t, 25) + Skips(t, 27))
AskedIn(c, s) == Asked(24 + s) - Asked(24 + s - c)

\* The turn after and before, and the place of a turn's question among the ten.
NextTurn(s) == IF s = 12 THEN 1 ELSE s + 1
LastTurn(s) == IF s = 1 THEN 12 ELSE s - 1
PlaceOf(s) == IF s < 3 THEN 0 ELSE IF s < 5 THEN 1 ELSE s - 3
NextPlace(r) == IF r = 9 THEN 0 ELSE r + 1

\* The place of a sensor's question, and its age when place r comes next.
Place(k) ==
    CASE k = "temp" -> 2 [] k = "temp1" -> 3 [] k = "temp2" -> 4 [] k = "b5" -> 5
      [] k = "b12" -> 6 [] k = "b33" -> 7 [] k = "b1" -> 8 [] OTHER -> 9
Age(p, r) == IF p < r THEN r - 1 - p ELSE r + 9 - p

LEMMA AskedOneMore ==
    ASSUME NEW s \in 1..12, NEW c \in 0..23
    PROVE  AskedIn(c + 1, NextTurn(s)) = AskedIn(c, s) + (IF s \in {1, 3} THEN 0 ELSE 1)
<1>1. \A t \in 1..25 : Asked(t + 12) = Asked(t) + 10
  BY DEF Asked, Skips
<1>2. \A t \in 25..36 : Asked(t + 1) = Asked(t) + (IF t \in {25, 27} THEN 0 ELSE 1)
  BY DEF Asked, Skips
<1>3. \A t \in 1..37 : Asked(t) \in Int
  BY DEF Asked, Skips
<1>4. CASE s < 12
  <2>1. 24 + s \in 25..36 /\ 24 + s - c \in 1..37 /\ 24 + s + 1 \in 1..37
    OBVIOUS
  <2>2. NextTurn(s) = s + 1 /\ 24 + (s + 1) = 24 + s + 1 /\ 24 + (s + 1) - (c + 1) = 24 + s - c
    BY <1>4 DEF NextTurn
  <2>3. Asked(24 + s + 1) = Asked(24 + s) + (IF s \in {1, 3} THEN 0 ELSE 1)
    BY <1>2, <2>1
  <2>4. Asked(24 + s) \in Int /\ Asked(24 + s - c) \in Int
    BY <1>3, <2>1
  <2> QED BY <2>2, <2>3, <2>4 DEF AskedIn
<1>5. CASE s = 12
  <2>1. 24 - c \in 1..25 /\ 24 + 12 - c = (24 - c) + 12 /\ 24 + 1 - (c + 1) = 24 - c
    OBVIOUS
  <2>2. Asked(24 + 12 - c) = Asked(24 - c) + 10 /\ Asked(24 - c) \in Int
    BY <1>1, <1>3, <2>1
  <2>3. Asked(24 + 12) = 29 /\ Asked(24 + 1) = 20
    BY DEF Asked, Skips
  <2> QED BY <1>5, <2>1, <2>2, <2>3 DEF AskedIn, NextTurn
<1> QED BY <1>4, <1>5

\* Two rounds ask twenty questions.
LEMMA AskedInTwoRounds ==
    ASSUME NEW s \in 1..12
    PROVE  AskedIn(0, s) = 0 /\ AskedIn(24, s) = 20
BY DEF AskedIn, Asked, Skips

LEMMA AskedTyped ==
    ASSUME NEW s \in 1..12, NEW c \in 0..24
    PROVE  AskedIn(c, s) \in Int
BY DEF AskedIn, Asked, Skips

LEMMA Turns ==
    ASSUME NEW s \in 1..12
    PROVE  /\ (s % 12) + 1 = NextTurn(s) /\ NextTurn(s) \in 1..12 /\ LastTurn(s) \in 1..12
           /\ LastTurn(NextTurn(s)) = s
           /\ PlaceOf(s) \in 0..9
           /\ s \in {1, 3} => PlaceOf(NextTurn(s)) = PlaceOf(s)
           /\ LastTurn(s) \notin {1, 3} => PlaceOf(s) = NextPlace(PlaceOf(LastTurn(s)))
BY DEF NextTurn, LastTurn, PlaceOf, NextPlace

LEMMA Ages ==
    ASSUME NEW p \in 0..9, NEW r \in 0..9
    PROVE  /\ Age(p, r) \in 0..9 /\ NextPlace(r) \in 0..9
           /\ Age(p, r) = 9 <=> p = r
           /\ Age(p, NextPlace(r)) = IF p = r THEN 0 ELSE Age(p, r) + 1
BY DEF Age, NextPlace

\* What is asked at the turns of the cycle.
LEMMA Questions ==
    ASSUME CodeCycle, NEW s \in 1..12
    PROVE  /\ Len(Cycle) = 12
           /\ s \in {1, 3} <=> Cycle[s] = "none"
           /\ s \in {2, 4} => Cycle[s] \notin Sensor
           /\ s \in 5..12 => Cycle[s] \in Sensor /\ Place(Cycle[s]) = PlaceOf(s)
           /\ Cycle[s] = "status" <=> s = 12
           /\ Cycle[s] # "bad"
           /\ \A k \in Sensor : /\ Place(k) \in 2..9
                                /\ s \in 5..12 /\ Place(k) = PlaceOf(s) => k = Cycle[s]
<1>1. s \in {1, 2, 3, 4, 5, 6, 7, 8, 9, 10, 11, 12}
  OBVIOUS
<1>2. \A k \in Sensor : Place(k) \in 2..9
  BY DEF Place, Sensor
<1>3. s \in 5..12 => Cycle[s] \in Sensor /\ Place(Cycle[s]) = PlaceOf(s)
  BY <1>1 DEF CodeCycle, Sensor, Place, PlaceOf
<1>4. \A k, l \in Sensor : Place(k) = Place(l) => k = l
  BY DEF Place, Sensor
<1>5. /\ s \in {1, 3} <=> Cycle[s] = "none"
      /\ s \in {2, 4} => Cycle[s] \notin Sensor
      /\ Cycle[s] = "status" <=> s = 12
      /\ Cycle[s] # "bad"
  BY <1>1 DEF CodeCycle, Sensor
<1>6. Len(Cycle) = 12
  BY DEF CodeCycle
<1> QED BY <1>2, <1>3, <1>4, <1>5, <1>6

\* The sensors over their limit and the status, of a unit with fault f.
ByteOf(f, k) == IF f[1] = k THEN f[2] ELSE Nominal(k)
OverOf(f) == {k \in Sensor : AboveLimit(k, ByteOf(f, k))}
StatusOf(f) == ByteOf(f, "status") # 0

\* A verdict from all sensors tells whether the unit has a fault that shows.
LEMMA VerdictTells ==
    ASSUME NEW f \in Faults \cup {Sound}
    PROVE  OverOf(f) # {} \/ ~StatusOf(f) <=> Alarming(f)
<1>1. CASE f = Sound
  <2>1. \A k \in Sensor : ~AboveLimit(k, ByteOf(f, k))
    BY <1>1 DEF Sound, Sensor, ByteOf, Nominal, AboveLimit
  <2>2. StatusOf(f) /\ ~Alarming(f)
    BY <1>1 DEF Sound, Dead, StatusOf, ByteOf, Nominal, Alarming
  <2> QED BY <2>1, <2>2 DEF OverOf
<1>2. CASE f \in Faults
  <2>1. f[1] \in Sensor /\ f[2] \in 0..255 /\ f # Dead
    BY <1>2, MonitorAssumption DEF Dead, Sensor
  <2>2. \A k \in Sensor : AboveLimit(k, ByteOf(f, k)) <=>
              f[1] = k /\ \/ k = "b5" /\ f[2] > 80
                          \/ k = "b12" /\ f[2] > 150
                          \/ k = "b33" /\ f[2] > 50
                          \/ k = "b1" /\ f[2] > 20
    BY <2>1 DEF Sensor, ByteOf, Nominal, AboveLimit
  <2>3. StatusOf(f) <=> ~(f[1] = "status" /\ f[2] = 0)
    BY <2>1 DEF StatusOf, ByteOf, Nominal
  <2>4. OverOf(f) # {} <=> \/ f[1] = "b5" /\ f[2] > 80
                           \/ f[1] = "b12" /\ f[2] > 150
                           \/ f[1] = "b33" /\ f[2] > 50
                           \/ f[1] = "b1" /\ f[2] > 20
    BY <2>1, <2>2 DEF OverOf, Sensor
  <2> QED BY <2>1, <2>3, <2>4 DEF Alarming
<1> QED BY <1>1, <1>2

(***************************************************************************)
(* The chunks of the window, w of them with place r next, are the last     *)
(* ones asked: o and s are what they say of a unit with fault f.           *)
(***************************************************************************)
Heard(o, s, w, r, f) ==
    /\ o \subseteq Sensor
    /\ \A k \in Sensor : k \in o <=> Age(Place(k), r) < w /\ k \in OverOf(f)
    /\ s <=> Age(9, r) < w /\ StatusOf(f)

\* The answer to the question of turn u joins them.
LEMMA HeardOneMore ==
    ASSUME CodeCycle, NEW u \in 1..12, Cycle[u] # "none", NEW w \in 0..9,
           NEW f, NEW o, NEW s \in BOOLEAN, Heard(o, s, w, PlaceOf(u), f)
    PROVE  Heard(IF Cycle[u] \notin Sensor THEN o
                 ELSE IF Cycle[u] \in OverOf(f) THEN o \cup {Cycle[u]} ELSE o \ {Cycle[u]},
                 IF Cycle[u] = "status" THEN StatusOf(f) ELSE s,
                 w + 1, NextPlace(PlaceOf(u)), f)
<1> DEFINE c == Cycle[u]
           r == PlaceOf(u)
           o2 == IF c \notin Sensor THEN o ELSE IF c \in OverOf(f) THEN o \cup {c} ELSE o \ {c}
           s2 == IF c = "status" THEN StatusOf(f) ELSE s
<1>1. /\ r \in 0..9
      /\ c \in Sensor => Place(c) = r
      /\ \A k \in Sensor : Place(k) \in 2..9 /\ (Place(k) = r => k = c)
      /\ c = "status" <=> r = 9
  <2>1. u = 2 \/ u = 4 \/ u \in 5..12
    BY Questions
  <2>2. r \in 0..9 /\ (u \in {2, 4} => r \in {0, 1}) /\ (u \in 5..12 => r = u - 3)
    BY DEF PlaceOf
  <2>3. \A k \in Sensor : Place(k) \in 2..9 /\ (u \in 5..12 /\ Place(k) = r => k = c)
    BY Questions
  <2>4. /\ u \in {2, 4} => c \notin Sensor
        /\ u \in 5..12 => c \in Sensor /\ Place(c) = r
        /\ c = "status" <=> u = 12
    BY Questions
  <2> QED BY <2>1, <2>2, <2>3, <2>4
<1> HIDE DEF c, r
<1>2. \A p \in 0..9 : /\ Age(p, r) \in 0..9
                      /\ Age(p, r) = 9 <=> p = r
                      /\ Age(p, NextPlace(r)) = IF p = r THEN 0 ELSE Age(p, r) + 1
  BY <1>1, Ages
<1>3. /\ o \subseteq Sensor
      /\ \A k \in Sensor : k \in o <=> Age(Place(k), r) < w /\ k \in OverOf(f)
      /\ s <=> Age(9, r) < w /\ StatusOf(f)
  BY DEF Heard, r
<1>4. o2 \subseteq Sensor
  BY <1>3
<1>5. ASSUME NEW k \in Sensor
      PROVE  k \in o2 <=> Age(Place(k), NextPlace(r)) < w + 1 /\ k \in OverOf(f)
  <2>1. Place(k) \in 0..9
    BY <1>1
  <2>2. CASE k = c
    <3>1. Place(k) = r
      BY <1>1, <2>2
    <3>2. Age(Place(k), NextPlace(r)) = 0
      BY <1>2, <2>1, <3>1
    <3>3. k \in o2 <=> k \in OverOf(f)
      BY <2>2
    <3> QED BY <3>2, <3>3
  <2>3. CASE k # c
    <3>1. Place(k) # r
      BY <1>1, <2>3
    <3>2. Age(Place(k), NextPlace(r)) = Age(Place(k), r) + 1 /\ Age(Place(k), r) \in Int
      BY <1>2, <2>1, <3>1
    <3>3. k \in o2 <=> k \in o
      BY <2>3
    <3>4. k \in o <=> Age(Place(k), r) < w /\ k \in OverOf(f)
      BY <1>3
    <3> HIDE DEF o2
    <3> QED BY <3>2, <3>3, <3>4
  <2> QED BY <2>2, <2>3
<1>6. s2 <=> Age(9, NextPlace(r)) < w + 1 /\ StatusOf(f)
  <2>1. CASE c = "status"
    <3>1. Age(9, NextPlace(r)) = 0
      BY <1>1, <1>2, <2>1
    <3> QED BY <2>1, <3>1
  <2>2. CASE c # "status"
    <3>1. Age(9, NextPlace(r)) = Age(9, r) + 1 /\ Age(9, r) \in Int
      BY <1>1, <1>2, <2>2
    <3>2. Age(9, NextPlace(r)) < w + 1 <=> Age(9, r) < w
      BY <3>1
    <3> QED BY <1>3, <2>2, <3>2
  <2> QED BY <2>1, <2>2
<1> HIDE DEF o2, s2
<1>7. Heard(o2, s2, w + 1, NextPlace(r), f)
  BY <1>4, <1>5, <1>6 DEF Heard
<1> QED BY <1>7 DEF o2, s2, c, r

\* Nothing heard yet.
LEMMA HeardNothing ==
    ASSUME NEW r \in 0..9, NEW f, NEW o, NEW s, o = {}, s = FALSE
    PROVE  Heard(o, s, 0, r, f)
<1>1. \A p \in 0..9 : ~(Age(p, r) < 0)
  BY Ages
<1>2. \A k \in Sensor : Place(k) \in 0..9
  BY DEF Place, Sensor
<1> QED BY <1>1, <1>2 DEF Heard

\* Ten chunks tell all.
LEMMA HeardAll ==
    ASSUME NEW f \in Faults \cup {Sound}, NEW r \in 0..9, NEW o, NEW s \in BOOLEAN,
           Heard(o, s, 10, r, f)
    PROVE  o # {} \/ ~s <=> Alarming(f)
<1>1. \A p \in 0..9 : Age(p, r) < 10
  BY Ages
<1>2. \A k \in Sensor : Place(k) \in 0..9
  BY DEF Place, Sensor
<1>3. \A k \in Sensor : k \in o <=> k \in OverOf(f)
  BY <1>1, <1>2 DEF Heard
<1>4. o = OverOf(f)
  BY <1>3 DEF Heard, OverOf
<1>5. s <=> StatusOf(f)
  BY <1>1 DEF Heard
<1> QED BY <1>4, <1>5, VerdictTells

(***************************************************************************)
(* The inductive invariant.  Came counts the answers received since the    *)
(* last disturbance, Comes is the place of the next one.  The window of    *)
(* the next verdict is spoilt, or began after the disturbance, or the word *)
(* is already true; the first two end within 24 turns.                     *)
(***************************************************************************)
Came == AskedIn(calm, step) - (IF line = <<>> THEN 0 ELSE 1)
Comes == IF line = <<>> THEN PlaceOf(step) ELSE PlaceOf(LastTurn(step))

Hears == Heard(over, statusOK, loop_serch, Comes, fault)

SpoiltWindow == calm < 24 /\ Came < loop_serch
WholeWindow == calm < 24 /\ Came <= loop_serch + 9 /\ Hears

\* The line was silent for the turns that ask nothing, and never for three.
Quiet ==
    silent <= (IF line = <<>> THEN IF step \in {2, 4} THEN 1 ELSE 0
                              ELSE IF step \in {3, 5} THEN 2 ELSE 1)

TrueWord == Hears /\ (file = "no" <=> Alarming(fault)) /\ Quiet

OnTheLine ==
    \/ line = <<>>
    \/ line = <<Cycle[LastTurn(step)]>> /\ Cycle[LastTurn(step)] # "none"

Answering == OnTheLine /\ (SpoiltWindow \/ WholeWindow \/ TrueWord)
Dying == line = <<>> /\ (file = "no" \/ calm <= silent)
Garbled == line \in {<<"bad">>, <<"bad", "bad">>} /\ calm = 0

WordInv ==
    /\ MonitorTypeOK
    /\ loop_serch = 0 => over = {} /\ statusOK = FALSE
    /\ fault = Dead => Dying
    /\ fault # Dead => Garbled \/ Answering

LEMMA DeadIsNoFault == ASSUME NEW f \in Faults PROVE f # Dead /\ Sound # Dead
BY MonitorAssumption DEF Dead, Sound, Sensor

LEMMA WordInit ==
    ASSUME CodeCycle, MonitorInit
    PROVE  WordInv
<1>1. MonitorTypeOK
  BY MonitorInitTyped
<1>2. PlaceOf(1) = 0 /\ Comes = 0
  BY DEF MonitorInit, Comes, PlaceOf
<1>3. Hears
  <2>1. over = {} /\ statusOK = FALSE /\ loop_serch = 0
    BY DEF MonitorInit
  <2>2. Heard(over, statusOK, 0, 0, fault)
    <3>1. 0 \in 0..9
      OBVIOUS
    <3> QED BY <2>1, <3>1, HeardNothing, Zenon
  <2> QED BY <1>2, <2>1, <2>2 DEF Hears
<1>4. ~Alarming(Sound) /\ Sound # Dead
  BY DEF Alarming, Sound, Dead
<1>5. Quiet
  BY DEF MonitorInit, Quiet
<1> QED BY <1>1, <1>3, <1>4, <1>5 DEF MonitorInit, WordInv, Answering, OnTheLine, TrueWord

\* After a disturbance with nothing on the line.
LEMMA Disturbs ==
    ASSUME CodeCycle, MonitorTypeOK', loop_serch = 0 => over = {} /\ statusOK = FALSE,
           line' = <<>>, calm' = 0, UNCHANGED <<loop_serch, over, statusOK>>
    PROVE  Answering'
<1>1. step' \in 1..12
  BY Questions DEF MonitorTypeOK, CodeCycle
<1>2. Came' = 0 /\ OnTheLine'
  BY <1>1, AskedInTwoRounds DEF Came, OnTheLine
<1>3. loop_serch' \in 0..9
  BY DEF MonitorTypeOK, CodeCycle
<1>4. CASE loop_serch' = 0
  <2>1. Comes' \in 0..9
    BY <1>1, Turns DEF Comes
  <2>2. Hears'
    BY <1>4, <2>1, HeardNothing DEF Hears
  <2>3. WholeWindow'
    BY <1>2, <1>4, <2>2 DEF WholeWindow
  <2> QED BY <1>2, <2>3 DEF Answering
<1>5. CASE loop_serch' # 0
  <2>1. SpoiltWindow'
    BY <1>2, <1>3, <1>5 DEF SpoiltWindow
  <2> QED BY <1>2, <2>1 DEF Answering
<1> QED BY <1>4, <1>5

\* A turn of the sender that disturbs nothing, with a unit that answers.
LEMMA TurnOn ==
    ASSUME CodeCycle, MonitorTypeOK, MonitorTypeOK', Answering, line = <<>>, Undisturbed,
           step' = (step % Len(Cycle)) + 1, silent' = silent + 1,
           line' = IF Cycle[step] = "none" THEN <<>> ELSE <<Cycle[step]>>,
           UNCHANGED <<loop_serch, over, statusOK, file, fault>>
    PROVE  Answering'
<1>1. step \in 1..12 /\ loop_serch \in 0..9 /\ silent \in Int /\ calm \in Nat /\ calm <= Settle
  BY Questions, MonitorAssumption DEF MonitorTypeOK, CodeCycle
<1>2. step' = NextTurn(step) /\ LastTurn(step') = step
  BY <1>1, Questions, Turns
<1>3. OnTheLine'
  BY <1>2 DEF OnTheLine
<1>4. Comes' = Comes
  <2>1. CASE Cycle[step] = "none"
    <3>1. step \in {1, 3}
      BY <1>1, <2>1, Questions
    <3> QED BY <1>1, <1>2, <2>1, <3>1, Turns DEF Comes
  <2>2. CASE Cycle[step] # "none"
    BY <1>2, <2>2 DEF Comes
  <2> QED BY <2>1, <2>2
<1>5. Hears => Hears'
  BY <1>4 DEF Hears
<1>6. CASE TrueWord
  <2>1. Quiet'
    <3>1. CASE Cycle[step] = "none"
      <4>1. step \in {1, 3}
        BY <1>1, <3>1, Questions
      <4>2. silent <= 0
        BY <1>6, <4>1 DEF TrueWord, Quiet
      <4>3. step' \in {2, 4} /\ line' = <<>>
        BY <1>2, <3>1, <4>1 DEF NextTurn
      <4> QED BY <1>1, <4>2, <4>3 DEF Quiet
    <3>2. CASE Cycle[step] # "none"
      <4>1. line' # <<>>
        BY <3>2
      <4>2. step \in {2, 4} => step' \in {3, 5}
        BY <1>2 DEF NextTurn
      <4>3. silent <= IF step \in {2, 4} THEN 1 ELSE 0
        BY <1>6 DEF TrueWord, Quiet
      <4> QED BY <1>1, <4>1, <4>2, <4>3 DEF Quiet
    <3> QED BY <3>1, <3>2
  <2>2. TrueWord'
    BY <1>5, <1>6, <2>1 DEF TrueWord
  <2> QED BY <1>3, <2>2 DEF Answering
<1>7. CASE calm < 24
  <2>1. calm' = calm + 1 /\ calm \in 0..23 /\ calm \in 0..24
    BY <1>1, <1>7, MonitorAssumption DEF Undisturbed, CodeCycle
  <2>2. Came' = Came
    <3>1. AskedIn(calm + 1, NextTurn(step)) = AskedIn(calm, step) + (IF step \in {1, 3} THEN 0 ELSE 1)
      BY <1>1, <2>1, AskedOneMore
    <3>2. step \in {1, 3} <=> Cycle[step] = "none"
      BY <1>1, Questions
    <3>3. AskedIn(calm, step) \in Int
      BY <1>1, <2>1, AskedTyped
    <3>4. line' = <<>> <=> step \in {1, 3}
      BY <3>2
    <3> QED BY <1>2, <2>1, <3>1, <3>3, <3>4 DEF Came
  <2>3. calm' = 24 => Came' >= 19
    <3>1. NextTurn(step) \in 1..12
      BY <1>1, Turns
    <3>2. AskedIn(24, NextTurn(step)) = 20
      BY <3>1, AskedInTwoRounds
    <3> QED BY <1>2, <3>2 DEF Came
  <2>4. Came \in Int
    <3>1. AskedIn(calm, step) \in Int
      BY <1>1, <2>1, AskedTyped
    <3> QED BY <3>1 DEF Came
  <2>5. SpoiltWindow => SpoiltWindow'
    BY <1>1, <2>1, <2>2, <2>3, <2>4 DEF SpoiltWindow
  <2>6. WholeWindow => WholeWindow'
    BY <1>1, <1>5, <2>1, <2>2, <2>3, <2>4 DEF WholeWindow
  <2> QED BY <1>3, <1>6, <2>5, <2>6 DEF Answering
<1>8. CASE ~(calm < 24)
  BY <1>6, <1>8 DEF Answering, SpoiltWindow, WholeWindow
<1> QED BY <1>7, <1>8

\* A spoilt chunk counts towards the verdict, and says nothing.
LEMMA ReceivesGarbage ==
    ASSUME CodeCycle, WordInv, MonitorTypeOK', fault # Dead, Garbled, Receive
    PROVE  /\ loop_serch' = 0 => over' = {} /\ statusOK' = FALSE
           /\ Garbled' \/ Answering'
<1>1. Head(line) = "bad" /\ line' \in {<<>>, <<"bad">>} /\ calm' = 0 /\ calm' = calm
  <2>1. Tail(<<"bad">>) = <<>> /\ Tail(<<"bad", "bad">>) = <<"bad">>
    OBVIOUS
  <2>2. Head(<<"bad">>) = "bad" /\ Head(<<"bad", "bad">>) = "bad"
    OBVIOUS
  <2> QED BY <2>1, <2>2 DEF Garbled, Receive
<1>2. step' \in 1..12 /\ loop_serch \in 0..9
  BY Questions DEF WordInv, MonitorTypeOK, CodeCycle
<1>3. OverAfter("bad") = over /\ StatusAfter("bad") = statusOK
  BY DEF OverAfter, StatusAfter, Sensor
<1>4. /\ ~WindowFull => /\ loop_serch' = loop_serch + 1
                        /\ over' = over /\ statusOK' = statusOK
      /\ WindowFull => loop_serch' = 0 /\ over' = {} /\ statusOK' = FALSE
  BY <1>1, <1>3 DEF Receive
<1>5. loop_serch' = 0 => over' = {} /\ statusOK' = FALSE
  BY <1>2, <1>4
<1>6. CASE line' = <<"bad">>
  BY <1>1, <1>5, <1>6 DEF Garbled
<1>7. CASE line' = <<>>
  <2>1. Came' = 0 /\ OnTheLine' /\ Comes' \in 0..9
    BY <1>1, <1>2, <1>7, AskedInTwoRounds, Turns DEF Came, OnTheLine, Comes
  <2>2. CASE WindowFull
    <3>1. Hears'
      BY <1>4, <2>1, <2>2, HeardNothing DEF Hears
    <3>2. WholeWindow'
      BY <1>1, <1>4, <2>1, <2>2, <3>1 DEF WholeWindow
    <3> QED BY <1>5, <2>1, <3>2 DEF Answering
  <2>3. CASE ~WindowFull
    <3>1. SpoiltWindow'
      BY <1>1, <1>2, <1>4, <2>1, <2>3 DEF SpoiltWindow
    <3> QED BY <1>5, <2>1, <3>1 DEF Answering
  <2> QED BY <2>2, <2>3
<1> QED BY <1>1, <1>5, <1>6, <1>7

\* An answer brings the verdict nearer to the truth.
LEMMA ReceivesAnswer ==
    ASSUME CodeCycle, WordInv, MonitorTypeOK', fault # Dead, Answering, Receive
    PROVE  /\ loop_serch' = 0 => over' = {} /\ statusOK' = FALSE
           /\ Answering'
<1> DEFINE u == LastTurn(step)
           c == Cycle[u]
<1>1. /\ line = <<c>> /\ c # "none" /\ line' = <<>> /\ Head(line) = c
      /\ UNCHANGED <<step, fault, calm>> /\ silent' = 0
  <2>1. line = <<c>> /\ c # "none"
    BY DEF Receive, Answering, OnTheLine
  <2> HIDE DEF c
  <2>2. Tail(<<c>>) = <<>> /\ Head(<<c>>) = c
    OBVIOUS
  <2> QED BY <2>1, <2>2 DEF Receive
<1>2. /\ step \in 1..12 /\ loop_serch \in 0..9 /\ calm \in 0..Settle
      /\ fault \in Faults \cup {Sound} /\ statusOK \in BOOLEAN
  BY Questions DEF WordInv, MonitorTypeOK, CodeCycle
<1>3. /\ u \in 1..12 /\ u \notin {1, 3} /\ PlaceOf(u) \in 0..9
      /\ Comes = PlaceOf(u) /\ Comes' = NextPlace(PlaceOf(u)) /\ Comes' \in 0..9
  <2>1. u \in 1..12
    BY <1>2, Turns
  <2>2. u \notin {1, 3}
    BY <1>1, <2>1, Questions
  <2>3. PlaceOf(u) \in 0..9 /\ PlaceOf(step) \in 0..9 /\ PlaceOf(step) = NextPlace(PlaceOf(u))
    BY <1>2, <2>1, <2>2, Turns
  <2>4. Comes = PlaceOf(u) /\ Comes' = PlaceOf(step)
    BY <1>1 DEF Comes
  <2> QED BY <2>1, <2>2, <2>3, <2>4
<1>4. WindowFull <=> loop_serch = 9
  BY <1>2 DEF WindowFull, CodeCycle
<1>5. /\ ~WindowFull => /\ loop_serch' = loop_serch + 1
                        /\ over' = OverAfter(c) /\ statusOK' = StatusAfter(c)
                        /\ file' = file
      /\ WindowFull => /\ loop_serch' = 0 /\ over' = {} /\ statusOK' = FALSE
                       /\ file' = Verdict(c)
  BY <1>1 DEF Receive
<1> HIDE DEF c
<1>6. loop_serch' = 0 => over' = {} /\ statusOK' = FALSE
  BY <1>2, <1>5
<1>7. OnTheLine'
  BY <1>1 DEF OnTheLine
<1>8. /\ OverAfter(c) = IF c \notin Sensor THEN over
                        ELSE IF c \in OverOf(fault) THEN over \cup {c} ELSE over \ {c}
      /\ StatusAfter(c) = IF c = "status" THEN StatusOf(fault) ELSE statusOK
  <2>1. \A k : Byte(k) = ByteOf(fault, k)
    BY DEF Byte, ByteOf
  <2>2. c \in Sensor => (AboveLimit(c, Byte(c)) <=> c \in OverOf(fault))
    BY <2>1 DEF OverOf
  <2> QED BY <2>1, <2>2 DEF OverAfter, StatusAfter, StatusOf
<1>9. Hears => Heard(OverAfter(c), StatusAfter(c), loop_serch + 1, Comes', fault)
  <2> SUFFICES ASSUME Hears
               PROVE  Heard(OverAfter(c), StatusAfter(c), loop_serch + 1, Comes', fault)
    OBVIOUS
  <2>1. Heard(over, statusOK, loop_serch, PlaceOf(u), fault)
    BY <1>3 DEF Hears
  <2>2. Heard(IF Cycle[u] \notin Sensor THEN over
              ELSE IF Cycle[u] \in OverOf(fault) THEN over \cup {Cycle[u]} ELSE over \ {Cycle[u]},
              IF Cycle[u] = "status" THEN StatusOf(fault) ELSE statusOK,
              loop_serch + 1, NextPlace(PlaceOf(u)), fault)
    <3>1. Cycle[u] # "none"
      BY <1>1 DEF c
    <3> HIDE DEF u
    <3> QED BY <1>2, <1>3, <2>1, <3>1, HeardOneMore
  <2> QED BY <1>3, <1>8, <2>2 DEF c
<1>10. WindowFull => Hears'
  <2> SUFFICES ASSUME WindowFull PROVE Hears'
    OBVIOUS
  <2> QED BY <1>3, <1>5, HeardNothing DEF Hears
<1>11. ~WindowFull /\ Hears => Hears'
  BY <1>1, <1>5, <1>9 DEF Hears
<1>12. WindowFull /\ Hears => (file' = "no" <=> Alarming(fault))
  <2> SUFFICES ASSUME WindowFull, Hears PROVE file' = "no" <=> Alarming(fault)
    OBVIOUS
  <2>1. Heard(OverAfter(c), StatusAfter(c), 10, Comes', fault)
    BY <1>4, <1>9
  <2>2. StatusAfter(c) \in BOOLEAN
    BY <1>2, <1>8 DEF StatusOf
  <2>3. OverAfter(c) # {} \/ ~StatusAfter(c) <=> Alarming(fault)
    BY <1>2, <1>3, <2>1, <2>2, HeardAll
  <2> QED BY <1>5, <2>3 DEF Verdict
<1>13. Quiet'
  BY <1>1 DEF Quiet
<1>14. TrueWord => TrueWord'
  BY <1>1, <1>5, <1>10, <1>11, <1>12, <1>13 DEF TrueWord
<1>15. calm < 24 => Came' = Came + 1 /\ Came \in Int
  <2> SUFFICES ASSUME calm < 24 PROVE Came' = Came + 1 /\ Came \in Int
    OBVIOUS
  <2>1. calm \in 0..24
    BY <1>2, MonitorAssumption
  <2>2. AskedIn(calm, step) \in Int
    BY <1>2, <2>1, AskedTyped
  <2>3. Came' = AskedIn(calm, step) /\ Came = AskedIn(calm, step) - 1
    <3>1. line # <<>> /\ line' = <<>> /\ calm' = calm /\ step' = step
      BY <1>1
    <3> QED BY <2>2, <3>1 DEF Came
  <2> QED BY <2>2, <2>3
<1>16. WholeWindow => WholeWindow' \/ TrueWord'
  <2> SUFFICES ASSUME WholeWindow PROVE WholeWindow' \/ TrueWord'
    OBVIOUS
  <2>1. CASE WindowFull
    BY <1>1, <1>10, <1>12, <1>13, <2>1 DEF WholeWindow, TrueWord
  <2>2. CASE ~WindowFull
    BY <1>1, <1>2, <1>5, <1>11, <1>15, <2>2 DEF WholeWindow
  <2> QED BY <2>1, <2>2
<1>17. SpoiltWindow => SpoiltWindow' \/ WholeWindow'
  <2> SUFFICES ASSUME SpoiltWindow PROVE SpoiltWindow' \/ WholeWindow'
    OBVIOUS
  <2>1. CASE WindowFull
    BY <1>1, <1>4, <1>5, <1>10, <1>15, <2>1 DEF SpoiltWindow, WholeWindow
  <2>2. CASE ~WindowFull
    BY <1>1, <1>2, <1>5, <1>15, <2>2 DEF SpoiltWindow
  <2> QED BY <2>1, <2>2
<1> QED BY <1>6, <1>7, <1>14, <1>16, <1>17 DEF Answering

LEMMA WordKept ==
    ASSUME CodeCycle, WordInv, MonitorTypeOK', [MonitorNext]_monitorVars
    PROVE  WordInv'
<1>1. CASE Tick
  <2>1. line = <<>> /\ UNCHANGED <<loop_serch, over, statusOK, file, fault>> /\ silent' = silent + 1
    BY <1>1 DEF Tick
  <2>2. CASE fault = Dead
    <3>1. line' = <<>> /\ calm' = IF calm < Settle THEN calm + 1 ELSE calm
      BY <1>1, <2>2 DEF Tick, Undisturbed
    <3>2. silent \in Int /\ calm \in Int
      BY MonitorAssumption DEF WordInv, MonitorTypeOK
    <3>3. Dying'
      BY <2>1, <2>2, <3>1, <3>2 DEF WordInv, Dying
    <3> QED BY <2>1, <2>2, <3>3 DEF WordInv
  <2>3. CASE fault # Dead /\ Undisturbed
                /\ line' = IF Cycle[step] = "none" THEN <<>> ELSE <<Cycle[step]>>
    <3>1. Answering
      BY <2>1, <2>3 DEF WordInv, Garbled
    <3>2. Answering'
      BY <1>1, <2>1, <2>3, <3>1, TurnOn DEF Tick, WordInv
    <3> QED BY <2>1, <2>3, <3>2 DEF WordInv
  <2>4. CASE fault # Dead /\ Spoilt
    <3>1. CASE line' = <<>>
      <4>1. Answering'
        BY <2>1, <2>4, <3>1, Disturbs DEF WordInv, Spoilt, Disturbed
      <4> QED BY <2>1, <2>4, <4>1 DEF WordInv
    <3>2. CASE line' # <<>>
      <4>1. Garbled'
        BY <2>4, <3>2 DEF Spoilt, Disturbed, Garbled
      <4> QED BY <2>1, <2>4, <4>1 DEF WordInv
    <3> QED BY <3>1, <3>2
  <2>5. fault = Dead \/ Spoilt \/
          (Undisturbed /\ line' = IF Cycle[step] = "none" THEN <<>> ELSE <<Cycle[step]>>)
    BY <1>1 DEF Tick, Answered
  <2> QED BY <2>2, <2>3, <2>4, <2>5
<1>2. CASE Receive
  <2>1. fault # Dead /\ fault' = fault
    BY <1>2 DEF Receive, WordInv, Dying
  <2>2. CASE Garbled
    BY <1>2, <2>1, <2>2, ReceivesGarbage DEF WordInv
  <2>3. CASE Answering
    BY <1>2, <2>1, <2>3, ReceivesAnswer DEF WordInv
  <2> QED BY <2>1, <2>2, <2>3 DEF WordInv
<1>3. CASE Timeout
  <2>1. /\ silent >= 3 /\ file' = "no"
        /\ UNCHANGED <<step, line, loop_serch, over, statusOK, fault, calm>>
    BY <1>3 DEF Timeout
  <2>2. CASE fault = Dead
    BY <2>1, <2>2 DEF WordInv, Dying
  <2>3. CASE fault # Dead /\ Garbled
    BY <2>1, <2>3 DEF WordInv, Garbled
  <2>4. CASE fault # Dead /\ Answering
    <3>1. ~TrueWord
      <4>1. silent \in Int
        BY DEF WordInv, MonitorTypeOK
      <4> QED BY <2>1, <4>1 DEF TrueWord, Quiet
    <3>2. OnTheLine' /\ Came' = Came /\ (Hears => Hears')
      <4>1. OnTheLine'
        BY <2>1, <2>4 DEF Answering, OnTheLine
      <4>2. Came' = Came /\ Comes' = Comes
        BY <2>1 DEF Came, Comes
      <4>3. Hears => Hears'
        BY <2>1, <4>2 DEF Hears
      <4> QED BY <4>1, <4>2, <4>3
    <3>3. SpoiltWindow' \/ WholeWindow'
      BY <2>1, <2>4, <3>1, <3>2 DEF Answering, SpoiltWindow, WholeWindow
    <3> QED BY <2>1, <2>4, <3>2, <3>3 DEF WordInv, Answering
  <2> QED BY <2>2, <2>3, <2>4 DEF WordInv
<1>4. CASE UnitChanges
  <2>1. /\ line = <<>> /\ calm' = 0
        /\ UNCHANGED <<step, line, silent, loop_serch, over, statusOK, file>>
    BY <1>4 DEF UnitChanges, Disturbed
  <2>2. Answering'
    BY <2>1, Disturbs DEF WordInv
  <2>3. Dying'
    <3>1. silent \in 0..4
      BY DEF WordInv, MonitorTypeOK
    <3> QED BY <2>1, <3>1 DEF Dying
  <2> QED BY <2>1, <2>2, <2>3 DEF WordInv
<1>5. CASE UNCHANGED monitorVars
  BY <1>5 DEF monitorVars, WordInv, MonitorTypeOK, Dying, Garbled, Answering, OnTheLine,
              SpoiltWindow, WholeWindow, TrueWord, Hears, Came, Comes, Quiet
<1> QED BY <1>1, <1>2, <1>3, <1>4, <1>5 DEF MonitorNext

(***************************************************************************)
(* 24 turns after the last disturbance the word in the file is "no"        *)
(* exactly if the unit has a fault the monitor looks for: for any set of   *)
(* faults, of any sensor and any byte, and wherever in the cycle the       *)
(* window of the verdict came to lie.                                      *)
(***************************************************************************)
THEOREM WordCorrect ==
    ASSUME CodeCycle
    PROVE  MonitorSpec => []WordTellsTruth
<1>1. WordInv => WordTellsTruth
  <2> SUFFICES ASSUME WordInv, calm = Settle PROVE file = "no" <=> Alarming(fault)
    BY DEF WordTellsTruth
  <2>1. Settle \in Int /\ Settle >= 24 /\ silent \in 0..4
    BY MonitorAssumption DEF CodeCycle, WordInv, MonitorTypeOK
  <2>2. CASE fault = Dead
    BY <2>1, <2>2 DEF WordInv, Dying, Alarming
  <2>3. CASE fault # Dead
    BY <2>1, <2>3 DEF WordInv, Garbled, Answering, SpoiltWindow, WholeWindow, TrueWord
  <2> QED BY <2>2, <2>3
<1>2. WordInv /\ MonitorTypeOK' /\ [MonitorNext]_monitorVars => WordInv'
  BY WordKept
<1>3. MonitorInit => WordInv
  BY WordInit
<1> QED BY <1>1, <1>2, <1>3, MonitorTypeCorrect, PTL DEF MonitorSpec

(***************************************************************************)
(* The panel                                                               *)
(***************************************************************************)
(***************************************************************************)
(* The test owns the lamps while it runs, and from its second phase on no  *)
(* pass of the other thread is under way.                                  *)
(***************************************************************************)
Owned ==
    /\ led_ctl <=> tester = "testing"
    /\ phase > 0 => /\ tester = "testing"
                    /\ lighter \notin {"open", "write"}
                    /\ led = Pattern(phase)

(***************************************************************************)
(* Between its two halves a pass has power on and the test lamp off,       *)
(* unless a test has begun since.                                          *)
(***************************************************************************)
HalfWay == ~led_ctl /\ lighter = "write" => 2 \in led /\ 1 \notin led

IInv == TypeOK /\ Owned /\ HalfWay /\ RestingLampIsOneColour

LEMMA InitHolds == Init => IInv
<1> SUFFICES ASSUME Init PROVE IInv
  OBVIOUS
<1>1. MonitorTypeOK
  BY MonitorInitTyped DEF Init
<1>2. files \in 0..MaxFiles
  BY PanelAssumption DEF Init
<1>3. phase \in 0..3
  BY DEF Init
<1>5. TypeOK
  BY <1>1, <1>2, <1>3 DEF Init, TypeOK
<1>4. Owned /\ HalfWay /\ RestingLampIsOneColour
  BY DEF Init, Owned, HalfWay, RestingLampIsOneColour
<1> QED BY <1>4, <1>5 DEF IInv

(***************************************************************************)
(* The monitor leaves the panel alone, but for the word in the file.       *)
(***************************************************************************)
LEMMA MonitorKeeps ==
    ASSUME IInv, MonitorNext, UNCHANGED panelVars
    PROVE  IInv'
<1>1. MonitorTypeOK'
  BY MonitorKeepsTypes DEF IInv, TypeOK
<1>2. TypeOK'
  BY <1>1 DEF IInv, TypeOK, panelVars
<1>3. Owned' /\ HalfWay' /\ RestingLampIsOneColour'
  BY DEF IInv, Owned, HalfWay, RestingLampIsOneColour, Pattern, panelVars
<1> QED BY <1>2, <1>3 DEF IInv

(***************************************************************************)
(* The test                                                                *)
(***************************************************************************)
LEMMA TesterKeeps ==
    ASSUME IInv, TesterNext \/ TestKey, UNCHANGED monitorVars
    PROVE  IInv'
<1> USE DEF IInv
<1>0. MonitorTypeOK'
  BY MonitorStands DEF TypeOK
<1>1. CASE TestWaits
  BY <1>0, <1>1 DEF TestWaits, TypeOK, Owned, HalfWay, RestingLampIsOneColour, Pattern
<1>2. CASE TestKey
  BY <1>0, <1>2 DEF TestKey, TypeOK, Owned, HalfWay, RestingLampIsOneColour, Pattern
<1>3. CASE TestBegins
  BY <1>0, <1>3 DEF TestBegins, TypeOK, Owned, HalfWay, RestingLampIsOneColour, Pattern, Led
<1>4. CASE NextPhase
  <2>1. phase' \in 1..3 /\ led' = Pattern(phase') /\ Pattern(phase') \subseteq Led
    BY <1>4 DEF NextPhase, TypeOK, Pattern, Led
  <2>2. TypeOK'
    BY <1>0, <1>4, <2>1 DEF NextPhase, TypeOK
  <2>3. Owned' /\ HalfWay' /\ RestingLampIsOneColour'
    BY <1>4, <2>1 DEF NextPhase, Owned, HalfWay, RestingLampIsOneColour, Pattern
  <2> QED BY <2>2, <2>3
<1>5. CASE TestEnds
  <2>1. led = {0, 2}
    BY <1>5 DEF TestEnds, Owned, Pattern
  <2>0. phase' = 0 /\ led_ctl' = FALSE /\ 0 \in 0..3
    BY <1>5 DEF TestEnds
  <2>2. TypeOK'
    BY <1>0, <1>5, <2>0 DEF TestEnds, TypeOK
  <2>3. Owned' /\ HalfWay' /\ RestingLampIsOneColour'
    BY <1>5, <2>1 DEF TestEnds, Owned, HalfWay, RestingLampIsOneColour
  <2> QED BY <2>2, <2>3
<1> QED BY <1>1, <1>2, <1>3, <1>4, <1>5 DEF TesterNext

(***************************************************************************)
(* The word                                                                *)
(***************************************************************************)
LEMMA LighterKeeps ==
    ASSUME IInv, LighterNext, UNCHANGED monitorVars
    PROVE  IInv'
<1> USE DEF IInv
<1>0. MonitorTypeOK'
  BY MonitorStands DEF TypeOK
<1>1. CASE LightWakes
  <2>1. files' \in 0..MaxFiles
    BY <1>1, PanelAssumption DEF LightWakes, Opens, TypeOK
  <2>2. word' \in {"none", "ok", "no"}
    BY <1>1 DEF LightWakes, WordRead, TypeOK, MonitorTypeOK
  <2>3. TypeOK'
    BY <1>0, <1>1, <2>1, <2>2 DEF LightWakes, TypeOK
  <2>4. phase = 0
    BY <1>1 DEF LightWakes, LampsFree, Owned, TypeOK
  <2>5. Owned' /\ HalfWay' /\ RestingLampIsOneColour'
    BY <1>1, <2>4 DEF LightWakes, LampsFree, Owned, HalfWay, RestingLampIsOneColour
  <2> QED BY <2>3, <2>5
<1>2. CASE LightPowers
  <2>1. phase = 0
    BY <1>2 DEF LightPowers, Owned, TypeOK
  <2>2. TypeOK'
    BY <1>0, <1>2 DEF LightPowers, TypeOK, Led
  <2>3. Owned' /\ HalfWay' /\ RestingLampIsOneColour'
    BY <1>2, <2>1 DEF LightPowers, Owned, HalfWay, RestingLampIsOneColour
  <2> QED BY <2>2, <2>3
<1>3. CASE LightWrites
  <2>1. phase = 0
    BY <1>3 DEF LightWrites, Owned, TypeOK
  <2>2. TypeOK'
    BY <1>0, <1>3 DEF LightWrites, Shown, TypeOK, Led
  <2>3. ~led_ctl => led' \in {{0, 2}, {2, 3}}
    <3> SUFFICES ASSUME ~led_ctl PROVE led' \in {{0, 2}, {2, 3}}
      OBVIOUS
    <3>1. led \subseteq 0..3 /\ 2 \in led /\ 1 \notin led
      BY <1>3 DEF LightWrites, HalfWay, TypeOK, Led
    <3>2. \A i \in led : i = 0 \/ i = 2 \/ i = 3
      BY <3>1
    <3>3. (led \cup {0}) \ {3} = {0, 2}
      <4>1. \A i \in (led \cup {0}) \ {3} : i \in {0, 2}
        BY <3>2
      <4>2. 0 # 3 /\ 2 # 3
        OBVIOUS
      <4> QED BY <3>1, <4>1, <4>2, Zenon
    <3>4. (led \ {0}) \cup {3} = {2, 3}
      <4>1. \A i \in (led \ {0}) \cup {3} : i \in {2, 3}
        BY <3>2
      <4>2. 2 # 0
        OBVIOUS
      <4> QED BY <3>1, <4>1, <4>2, Zenon
    <3> QED BY <1>3, <3>3, <3>4 DEF LightWrites, Shown
  <2>4. Owned' /\ HalfWay' /\ RestingLampIsOneColour'
    BY <1>3, <2>1, <2>3 DEF LightWrites, Owned, HalfWay, RestingLampIsOneColour
  <2> QED BY <2>2, <2>4
<1> QED BY <1>1, <1>2, <1>3 DEF LighterNext

\* Who owns the lamps and what they show, throughout.
LEMMA Inductive == Spec => []IInv
<1>1. IInv /\ [Next]_vars => IInv'
  <2> SUFFICES ASSUME IInv, [Next]_vars PROVE IInv'
    OBVIOUS
  <2>1. CASE UNCHANGED vars
    <3>1. UNCHANGED monitorVars /\ UNCHANGED panelVars
      BY <2>1 DEF vars
    <3>2. MonitorTypeOK'
      BY <3>1, MonitorStands DEF IInv, TypeOK
    <3>3. TypeOK'
      BY <3>1, <3>2 DEF IInv, TypeOK, panelVars
    <3>4. Owned' /\ HalfWay' /\ RestingLampIsOneColour'
      BY <3>1 DEF IInv, Owned, HalfWay, RestingLampIsOneColour, Pattern, panelVars
    <3> QED BY <3>3, <3>4 DEF IInv
  <2>2. CASE Next
    BY <2>2, MonitorKeeps, TesterKeeps, LighterKeeps DEF Next
  <2> QED BY <2>1, <2>2
<1> QED BY InitHolds, <1>1, PTL DEF Spec

(***************************************************************************)
(* The types, of the monitor and of the panel: the counters of the window  *)
(* and of the descriptors stay below their limits.                         *)
(***************************************************************************)
THEOREM PanelTypeCorrect == Spec => []TypeOK
  BY Inductive, PTL DEF IInv

(***************************************************************************)
(* From its second phase on a test shows its pattern.                      *)
(***************************************************************************)
THEOREM TestCorrect == Spec => []TestPatternShown
<1>1. IInv => TestPatternShown
  BY DEF IInv, Owned, TestPatternShown
<1> QED BY Inductive, <1>1, PTL

(***************************************************************************)
(* At rest the panel shows power and one colour.                           *)
(***************************************************************************)
THEOREM RestCorrect == Spec => []RestingLampIsOneColour
  BY Inductive, PTL DEF IInv

(***************************************************************************)
(* The threads of the panel read the word and write nothing of the         *)
(* monitor, so that what holds of the monitor holds of the two together.   *)
(***************************************************************************)
THEOREM PanelLeavesMonitor == Spec => MonitorSpec
<1>1. Init => MonitorInit
  BY DEF Init
<1>2. [Next]_vars => [MonitorNext]_monitorVars
  BY DEF Next, vars
<1> QED BY <1>1, <1>2, PTL DEF Spec, MonitorSpec

(***************************************************************************)
(* The word the lamps are lit from is true, with tests and passes of the   *)
(* lamps going on beside the monitor.                                      *)
(***************************************************************************)
THEOREM PanelWordCorrect ==
    ASSUME CodeCycle
    PROVE  Spec => []WordTellsTruth
BY PanelLeavesMonitor, WordCorrect, PTL
=============================================================================
