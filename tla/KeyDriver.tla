------------------------------ MODULE KeyDriver ------------------------------
(***************************************************************************)
(* The way of a key of the panel to response_command(): the pin, the       *)
(* interrupt and the debounce timer of the kernel module (Int_Gpio_Drv.c), *)
(* the signal, and signal_key_handler() of the player, which asks the      *)
(* module for the key.                                                     *)
(*                                                                         *)
(* The eight keys share one timer, one irq_pd and one key_val, the signals *)
(* that wait are one, and the flags of request_irq() are                   *)
(* "IRQF_TRIGGER_RISING || IRQF_TRIGGER_FALLING", that is 1: rising edges  *)
(* only.  A key that goes down makes an edge only if its contact bounces.  *)
(***************************************************************************)
EXTENDS Integers, FiniteSets

CONSTANTS
    NKeys,      \* 8
    Handlers,   \* the threads of the player that may take the signal
    MaxEdges    \* bound: rising edges

ASSUME KeyAssumption ==
    /\ NKeys \in Nat \ {0} /\ MaxEdges \in Nat
    /\ IsFiniteSet(Handlers) /\ Handlers # {}

Key == 0..NKeys - 1
NoKey == -1

\* The value of key_val: k for a key that is down, k + NKeys for one that is up
\* (k and 0x80 + k in the code; Slot_Key_Map() makes the index of it).
Index == 0..2 * NKeys - 1
ReleaseOf(k) == k + NKeys

\* Mutant: the release bit is left on.
KeyWithBit(i) == i
KeyOf(i) == IF i < NKeys THEN i ELSE i - NKeys

VARIABLES
    down,       \* the keys whose pin is low
    irq_pd,     \* the pin the timer is to look at
    armed,      \* fake_timer is pending
    key_val,
    player,     \* how far main() has come: see Register
    pending,    \* SIGUSR2 waits
    handler,    \* per thread: "idle", "entered" (about to read) or "busy"
    edges,      \* rising edges so far
    commands,   \* response_command() called so far
    lastEdge,   \* the key of the last edge that can be reported
    lastCommand,
    releases,   \* edges of keys that went up
    hurried     \* an edge came while the one before was not yet read, or its
                \* key went down again before the timer looked

vars == <<down, irq_pd, armed, key_val, player, pending, handler, edges, commands,
          lastEdge, lastCommand, releases, hurried>>

TypeOK ==
    /\ down \subseteq Key
    /\ irq_pd \in Key \cup {NoKey}
    /\ armed \in BOOLEAN
    /\ key_val \in Index
    /\ player \in {"starting", "fasync", "listening", "ready", "dead"}
    /\ pending \in BOOLEAN
    /\ handler \in [Handlers -> {"idle", "entered", "busy"}]
    /\ edges \in 0..MaxEdges /\ commands \in 0..MaxEdges + 1 /\ releases \in 0..MaxEdges
    /\ lastEdge \in Key \cup {NoKey} /\ lastCommand \in Key \cup {NoKey}
    /\ hurried \in BOOLEAN

\* add_timer() with an expiry of 0: the timer runs once without a key.
Init ==
    /\ down = {} /\ irq_pd = NoKey /\ armed = TRUE /\ key_val = 0
    /\ player = "starting" /\ pending = FALSE
    /\ handler = [h \in Handlers |-> "idle"]
    /\ edges = 0 /\ commands = 0 /\ releases = 0
    /\ lastEdge = NoKey /\ lastCommand = NoKey /\ hurried = FALSE

(***************************************************************************)
(* The kernel module                                                       *)
(***************************************************************************)
Unread == armed \/ pending \/ \E h \in Handlers : handler[h] = "entered"

\* Mutant: the first edge keeps the timer, a pending one is not looked at again.
IsrKeepsFirst(k) ==
    /\ irq_pd' = IF armed THEN irq_pd ELSE k
    /\ armed' = TRUE

FakeChenIntIsr(k) ==
    /\ irq_pd' = k
    /\ armed' = TRUE

Edge(k) ==
    /\ edges < MaxEdges
    /\ edges' = edges + 1
    /\ FakeChenIntIsr(k)
    /\ lastEdge' = k
    /\ hurried' = (hurried \/ Unread \/ player # "ready")

Release(k) ==
    /\ k \in down
    /\ Edge(k)
    /\ down' = down \ {k}
    /\ releases' = releases + 1
    /\ UNCHANGED <<key_val, player, pending, handler, commands, lastCommand>>

Press(k) ==
    /\ k \notin down
    /\ down' = down \cup {k}
    /\ \/ Edge(k)
       \/ /\ hurried' = (hurried \/ (armed /\ irq_pd = k))
          /\ UNCHANGED <<irq_pd, armed, edges, lastEdge>>
    /\ UNCHANGED <<key_val, player, pending, handler, commands, lastCommand, releases>>

\* Mutant: the timer starts itself again.
TimerRuns == armed' = (irq_pd # NoKey)
TimerStops == armed' = FALSE

\* kill_fasync() sends what F_SETSIG asked for, before that the deadly SIGIO.
buttons_timer_function ==
    /\ armed
    /\ TimerStops
    /\ IF irq_pd = NoKey
         THEN UNCHANGED <<key_val, player, pending>>
         ELSE /\ key_val' = IF irq_pd \in down THEN irq_pd ELSE ReleaseOf(irq_pd)
              /\ pending' = (pending \/ player \in {"listening", "ready"})
              /\ player' = IF player = "fasync" THEN "dead" ELSE player
    /\ UNCHANGED <<down, irq_pd, handler, edges, commands, lastEdge, lastCommand,
                   releases, hurried>>

(***************************************************************************)
(* The player                                                              *)
(***************************************************************************)
\* main() sets FASYNC ("fasync"), then the signal ("listening"); a thread it
\* starts later sets the pointer msg of the handlers ("ready").
Register ==
    /\ \/ player = "starting" /\ player' = "fasync"
       \/ player = "fasync" /\ player' = "listening"
       \/ player = "listening" /\ player' = "ready"
    /\ lastEdge' = IF player = "starting" /\ ~armed THEN NoKey ELSE lastEdge
    /\ UNCHANGED <<down, irq_pd, armed, key_val, pending, handler, edges, commands,
                   lastCommand, releases, hurried>>

\* SIGUSR2 is blocked on a thread that runs its handler.
Enter(h) ==
    /\ pending /\ handler[h] = "idle"
    /\ player \in {"listening", "ready"}
    /\ pending' = FALSE
    /\ IF player = "ready"
         THEN handler' = [handler EXCEPT ![h] = "entered"] /\ UNCHANGED player
         ELSE player' = "dead" /\ UNCHANGED handler    \* msg->fd_key, msg NULL
    /\ UNCHANGED <<down, irq_pd, armed, key_val, edges, commands, lastEdge, lastCommand,
                   releases, hurried>>

\* Mutant: key 0 is taken for a key that is down.
IsReleasePast(i) == i > NKeys
IsRelease(i) == i >= NKeys

Read(h) ==
    /\ player = "ready" /\ handler[h] = "entered"
    /\ IF IsRelease(key_val)
         THEN /\ handler' = [handler EXCEPT ![h] = "busy"]
              /\ commands' = commands + 1
              /\ lastCommand' = KeyOf(key_val)
         ELSE /\ handler' = [handler EXCEPT ![h] = "idle"]
              /\ UNCHANGED <<commands, lastCommand>>
    /\ UNCHANGED <<down, irq_pd, armed, key_val, player, pending, edges, lastEdge,
                   releases, hurried>>

\* response_command() has returned.
Return(h) ==
    /\ player = "ready" /\ handler[h] = "busy"
    /\ handler' = [handler EXCEPT ![h] = "idle"]
    /\ UNCHANGED <<down, irq_pd, armed, key_val, player, pending, edges, commands,
                   lastEdge, lastCommand, releases, hurried>>

HandlerNext(h) == Enter(h) \/ Read(h) \/ Return(h)

Next ==
    \/ \E k \in Key : Press(k) \/ Release(k)
    \/ buttons_timer_function
    \/ Register
    \/ \E h \in Handlers : HandlerNext(h)

Spec == Init /\ [][Next]_vars

FairSpec ==
    /\ Spec
    /\ WF_vars(buttons_timer_function) /\ WF_vars(Register)
    /\ \A h \in Handlers : WF_vars(HandlerNext(h))

(***************************************************************************)
(* Properties                                                              *)
(***************************************************************************)
\* However keys, timer, signals and handlers overlap, an edge makes at most one
\* command (Int_Gpio_Drv.c:131-167, do_switch.c:1277-1296).
OneCommandPerEdge == commands <= edges

\* Keys whose edges come one after the other, each read before the next one, all
\* arrive: as many commands as keys were let go.
SlowKeysArrive == ~hurried /\ ~Unread => commands = releases

\* Whatever was lost before, the last edge wins: unless its key is down again or
\* the player died of a key at start-up, its command is the last one executed.
LastReleaseActs ==
    <>[](\/ lastEdge = NoKey \/ lastEdge \in down
         \/ player = "dead" \/ lastCommand = lastEdge)
=============================================================================
