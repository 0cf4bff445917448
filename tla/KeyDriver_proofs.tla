-------------------------- MODULE KeyDriver_proofs --------------------------
(***************************************************************************)
(* Proofs about KeyDriver, for any number of keys, handlers and edges: an  *)
(* edge makes at most one command, keys that are not hurried all arrive,   *)
(* and the last one wins.                                                  *)
(***************************************************************************)
EXTENDS KeyDriver, FiniteSetTheorems, TLAPS

(***************************************************************************)
(* An edge is owed a command while the timer is to look at it, its signal  *)
(* waits, or a handler is about to read: it moves through the three places *)
(* and is lost when it meets another one, but never becomes two.           *)
(***************************************************************************)
Looks == armed /\ irq_pd # NoKey
Entered == {h \in Handlers : handler[h] = "entered"}
One(b) == IF b THEN 1 ELSE 0
Owed == One(Looks) + One(pending) + Cardinality(Entered)

Conserved == commands + Owed <= edges /\ releases <= edges

IInv == TypeOK /\ Conserved

(***************************************************************************)
(* Without hurry there is one edge on its way at most, and whether it is   *)
(* that of a key let go tells whether a command is missing.                *)
(***************************************************************************)
Missing(b) == commands = IF b THEN releases - 1 ELSE releases

Steady ==
    ~hurried =>
        /\ player # "ready" => irq_pd = NoKey /\ ~pending /\ Entered = {} /\ releases = 0
        /\ Looks => ~pending /\ Entered = {} /\ Missing(irq_pd \notin down)
        /\ pending => Entered = {}
        /\ \A g, h \in Entered : g = h
        /\ pending \/ Entered # {} => Missing(IsRelease(key_val))
        /\ ~Looks /\ ~pending /\ Entered = {} => commands = releases

(***************************************************************************)
(* The value of a key tells the key.                                       *)
(***************************************************************************)
LEMMA KeyOfTyped == ASSUME NEW i \in Index PROVE KeyOf(i) \in Key
  BY KeyAssumption DEF Index, Key, KeyOf

\* Both values of a key are values.
LEMMA ValuesTyped == ASSUME NEW k \in Key PROVE k \in Index /\ ReleaseOf(k) \in Index
  BY KeyAssumption DEF Index, Key, ReleaseOf

\* The value of a key let go, and no other, is a release.
LEMMA ReleaseTold == ASSUME NEW k \in Key PROVE IsRelease(ReleaseOf(k)) /\ ~IsRelease(k)
  BY KeyAssumption DEF IsRelease, ReleaseOf, Key

\* -1 is no key.
LEMMA NoKeyIsNone == NoKey \notin Key
  BY KeyAssumption DEF NoKey, Key

(***************************************************************************)
(* The handlers that are about to read.                                    *)
(***************************************************************************)
LEMMA EnteredFinite == IsFiniteSet(Entered) /\ Cardinality(Entered) \in Nat
<1>1. Entered \in SUBSET Handlers
  BY DEF Entered
<1> QED BY <1>1, KeyAssumption, FS_Subset, FS_CardinalityType

\* One more, when a signal is delivered.
LEMMA EntersOne ==
    ASSUME TypeOK, NEW h \in Handlers, handler[h] = "idle",
           handler' = [handler EXCEPT ![h] = "entered"]
    PROVE  /\ Entered' = Entered \cup {h}
           /\ Cardinality(Entered') = Cardinality(Entered) + 1
<1>1. Entered' = Entered \cup {h} /\ h \notin Entered
  BY DEF Entered, TypeOK
<1> QED BY <1>1, EnteredFinite, FS_AddElement

\* One less, when the key was read.
LEMMA LeavesOne ==
    ASSUME TypeOK, NEW h \in Handlers, handler[h] = "entered", NEW to \in {"idle", "busy"},
           handler' = [handler EXCEPT ![h] = to]
    PROVE  /\ Entered' = Entered \ {h} /\ h \in Entered
           /\ Cardinality(Entered') = Cardinality(Entered) - 1
<1>1. Entered' = Entered \ {h} /\ h \in Entered
  BY DEF Entered, TypeOK
<1> QED BY <1>1, EnteredFinite, FS_RemoveElement

(***************************************************************************)
(* The arithmetic of what is owed.                                         *)
(***************************************************************************)
LEMMA OwedStays ==
    ASSUME NEW x \in Int, NEW y \in Int, NEW z \in Int, x + y <= z, NEW w \in Int, w <= y
    PROVE  x + w <= z
  OBVIOUS

\* An edge may be owed a command more.
LEMMA OwedGrows ==
    ASSUME NEW x \in Int, NEW y \in Int, NEW z \in Int, x + y <= z, NEW w \in Int, w <= y + 1
    PROVE  x + w <= z + 1
  OBVIOUS

\* A command is paid for by what was owed.
LEMMA OwedPaid ==
    ASSUME NEW x \in Int, NEW y \in Int, NEW z \in Int, x + y <= z
    PROVE  (x + 1) + (y - 1) <= z
  OBVIOUS

\* Commands are no more than edges.
LEMMA OwedBounds ==
    ASSUME NEW x \in Nat, NEW y \in Nat, NEW m \in Nat, NEW z \in 0..m, x + y <= z
    PROVE  x \in 0..m + 1 /\ x <= z
  OBVIOUS

(***************************************************************************)
(* An edge is owed one command more, if it is not the one owed already.    *)
(***************************************************************************)
LEMMA EdgeKeeps ==
    ASSUME IInv, NEW k \in Key, Edge(k), UNCHANGED <<key_val, player, pending, handler, commands>>
    PROVE  /\ irq_pd' = k /\ armed' /\ edges' = edges + 1 /\ edges' \in 0..MaxEdges
           /\ lastEdge' = k /\ hurried' \in BOOLEAN
           /\ Entered' = Entered
           /\ commands' + Owed' <= edges'
<1>1. irq_pd' = k /\ armed' /\ edges' = edges + 1 /\ lastEdge' = k
  BY DEF Edge, FakeChenIntIsr
<1>2. edges' \in 0..MaxEdges
  BY <1>1, KeyAssumption DEF Edge, IInv, TypeOK
<1>3. hurried' \in BOOLEAN
  BY DEF Edge
<1>4. Entered' = Entered
  BY DEF Entered
<1>5. Owed' <= Owed + 1 /\ Owed' \in Int /\ Owed \in Int
  BY <1>4, EnteredFinite DEF Owed, One
<1>6. commands + Owed <= edges /\ edges \in Int /\ commands \in Int
  BY KeyAssumption DEF IInv, Conserved, TypeOK
<1>7. edges' = edges + 1 /\ commands' = commands
  BY DEF Edge
<1>8. commands' + Owed' <= edges'
  <2>1. Owed' \in Int /\ Owed \in Int /\ Owed' <= Owed + 1
    BY <1>5
  <2>2. commands + Owed' <= edges + 1
    BY <1>6, <2>1, OwedGrows
  <2> QED BY <1>7, <2>2
<1> QED BY <1>1, <1>2, <1>3, <1>4, <1>8

\* What Conserved says of the counters.
LEMMA Bounded ==
    ASSUME commands \in Nat, releases \in Nat, edges \in 0..MaxEdges, Conserved
    PROVE  commands \in 0..MaxEdges + 1 /\ releases \in 0..MaxEdges /\ commands <= edges
<1>1. Owed \in Nat
  BY EnteredFinite DEF Owed, One
<1> QED BY <1>1, KeyAssumption DEF Conserved

\* What is owed after a step is a number.
LEMMA OwedNext == Owed' \in Nat
<1>1. Entered' \in SUBSET Handlers
  BY DEF Entered
<1>2. Cardinality(Entered') \in Nat
  BY <1>1, KeyAssumption, FS_Subset, FS_CardinalityType
<1> QED BY <1>2 DEF Owed, One

\* At first nothing is owed.
LEMMA InitHolds == Init => IInv /\ Steady
<1> SUFFICES ASSUME Init PROVE IInv /\ Steady
  OBVIOUS
<1>1. Entered = {} /\ ~Looks
  BY DEF Init, Entered, Looks
<1>2. TypeOK
  <2>1. handler \in [Handlers -> {"idle", "entered", "busy"}] /\ key_val \in Index
    BY KeyAssumption DEF Init, Index
  <2>2. /\ edges \in 0..MaxEdges /\ commands \in 0..MaxEdges + 1 /\ releases \in 0..MaxEdges
    BY KeyAssumption DEF Init
  <2>3. down \subseteq Key /\ armed \in BOOLEAN /\ pending \in BOOLEAN /\ hurried \in BOOLEAN
    BY DEF Init
  <2> QED BY <2>1, <2>2, <2>3 DEF Init, TypeOK
<1>3. Conserved
  BY <1>1, FS_EmptySet DEF Init, Conserved, Owed, One
<1>4. Steady
  BY <1>1 DEF Init, Steady
<1> QED BY <1>2, <1>3, <1>4 DEF IInv

(***************************************************************************)
(* The steps                                                               *)
(***************************************************************************)
LEMMA PressKeeps ==
    ASSUME IInv, NEW k \in Key, Press(k)
    PROVE  IInv' /\ (Steady => Steady')
<1> USE DEF IInv
<1>1. down' \in SUBSET Key /\ k \notin down /\ down' = down \cup {k}
  BY DEF Press, TypeOK
<1>2. CASE Edge(k)
  <2>1. /\ irq_pd' = k /\ armed' /\ edges' = edges + 1 /\ edges' \in 0..MaxEdges
        /\ lastEdge' = k /\ hurried' \in BOOLEAN
        /\ Entered' = Entered
        /\ commands' + Owed' <= edges'
    BY <1>2, EdgeKeeps DEF Press
  <2>2. TypeOK'
    BY <1>1, <2>1 DEF Press, TypeOK, Edge, FakeChenIntIsr
  <2>3. Conserved'
    BY <2>1 DEF Press, Conserved, TypeOK
  <2>4. Steady => Steady'
    <3>1. ASSUME Steady, ~hurried' PROVE Steady'
      <4>1. ~hurried /\ ~Unread /\ player = "ready"
        BY <1>2, <3>1 DEF Edge
      <4>2. ~armed /\ ~pending /\ Entered = {}
        BY <4>1 DEF Unread, Entered
      <4>3. commands = releases
        BY <3>1, <4>1, <4>2 DEF Steady, Looks
      <4> QED BY <1>1, <2>1, <4>1, <4>2, <4>3, NoKeyIsNone DEF Steady, Press, Looks, Missing
    <3> QED BY <3>1 DEF Steady
  <2> QED BY <2>2, <2>3, <2>4
<1>3. CASE /\ hurried' = (hurried \/ (armed /\ irq_pd = k))
           /\ UNCHANGED <<irq_pd, armed, edges, lastEdge>>
  <2>1. Entered' = Entered /\ Looks' = Looks /\ Owed' = Owed
    BY <1>3 DEF Press, Entered, Looks, Owed, One
  <2>2. TypeOK'
    BY <1>1, <1>3 DEF Press, TypeOK
  <2>3. Conserved'
    BY <1>3, <2>1 DEF Press, Conserved
  <2>4. Steady => Steady'
    BY <1>1, <1>3, <2>1 DEF Press, Steady, Looks, Missing
  <2> QED BY <2>2, <2>3, <2>4
<1> QED BY <1>2, <1>3 DEF Press

\* A key let go is owed a command, and the only one if not hurried.
LEMMA ReleaseKeeps ==
    ASSUME IInv, NEW k \in Key, Release(k)
    PROVE  IInv' /\ (Steady => Steady')
<1> USE DEF IInv
<1>1. /\ irq_pd' = k /\ armed' /\ edges' = edges + 1 /\ edges' \in 0..MaxEdges
      /\ lastEdge' = k /\ hurried' \in BOOLEAN
      /\ Entered' = Entered
      /\ commands' + Owed' <= edges'
  BY EdgeKeeps DEF Release
<1>2. Conserved'
  BY <1>1 DEF Release, Conserved, TypeOK
<1>3. TypeOK'
  <2>1. releases' \in 0..MaxEdges
    BY <1>1, <1>2, KeyAssumption DEF Release, Conserved, TypeOK
  <2> QED BY <1>1, <2>1 DEF Release, TypeOK, Edge, FakeChenIntIsr
<1>4. ASSUME Steady, ~hurried' PROVE Steady'
  <2>1. ~hurried /\ ~Unread /\ player = "ready"
    BY <1>4 DEF Release, Edge
  <2>2. ~armed /\ ~pending /\ Entered = {}
    BY <2>1 DEF Unread, Entered
  <2>3. commands = releases /\ releases \in Int
    BY <1>4, <2>1, <2>2 DEF Steady, Looks, TypeOK
  <2>4. Missing(irq_pd \notin down)'
    BY <1>1, <2>3 DEF Missing, Release
  <2> QED BY <1>1, <2>1, <2>2, <2>4, NoKeyIsNone DEF Steady, Release, Looks
<1> QED BY <1>2, <1>3, <1>4 DEF Steady

\* The timer hands what is owed on to the signal, or drops it.
LEMMA TimerKeeps ==
    ASSUME IInv, buttons_timer_function
    PROVE  IInv' /\ (Steady => Steady')
<1> USE DEF IInv
<1>1. Entered' = Entered /\ ~armed' /\ ~Looks'
  BY DEF buttons_timer_function, TimerStops, Entered, Looks
<1>2. CASE irq_pd = NoKey
  <2>1. UNCHANGED <<key_val, player, pending>> /\ ~Looks
    BY <1>2 DEF buttons_timer_function, Looks
  <2>2. TypeOK'
    BY <2>1 DEF buttons_timer_function, TimerStops, TypeOK
  <2>3. Owed' = Owed
    BY <1>1, <2>1 DEF Owed, One
  <2>4. Conserved'
    BY <2>3 DEF Conserved, buttons_timer_function
  <2>5. Steady => Steady'
    BY <1>1, <2>1 DEF buttons_timer_function, Steady, Missing
  <2> QED BY <2>2, <2>4, <2>5
<1>3. CASE irq_pd # NoKey
  <2>1. Looks /\ irq_pd \in Key
    BY <1>3 DEF buttons_timer_function, Looks, TypeOK
  <2>2. key_val' = IF irq_pd \in down THEN irq_pd ELSE ReleaseOf(irq_pd)
    BY <1>3 DEF buttons_timer_function
  <2>3. /\ pending' = (pending \/ player \in {"listening", "ready"})
        /\ player' = IF player = "fasync" THEN "dead" ELSE player
    BY <1>3 DEF buttons_timer_function
  <2>4. TypeOK'
    <3>1. key_val' \in Index
      BY <2>1, <2>2, ValuesTyped
    <3>2. pending' \in BOOLEAN /\ player' \in {"starting", "fasync", "listening", "ready", "dead"}
      BY <2>3 DEF TypeOK
    <3> QED BY <3>1, <3>2 DEF buttons_timer_function, TimerStops, TypeOK
  <2>5. Owed' <= Owed /\ Owed' \in Int /\ Owed \in Int
    <3>1. One(pending') <= One(pending) + 1 /\ One(pending') \in Int /\ One(pending) \in Int
      BY DEF One
    <3> QED BY <1>1, <2>1, <3>1, EnteredFinite DEF Owed, One
  <2>6. Conserved'
    <3>1. UNCHANGED <<commands, edges, releases>>
      BY DEF buttons_timer_function
    <3>2. /\ commands \in Int /\ edges \in Int
          /\ commands + Owed <= edges /\ releases <= edges
      BY KeyAssumption DEF Conserved, TypeOK
    <3>3. commands + Owed' <= edges
      BY <2>5, <3>2, OwedStays
    <3> QED BY <3>1, <3>2, <3>3 DEF Conserved
  <2>7. ASSUME Steady, ~hurried' PROVE Steady'
    <3>1. /\ ~hurried /\ player = "ready"
          /\ ~pending /\ Entered = {} /\ Missing(irq_pd \notin down)
      BY <1>3, <2>1, <2>7 DEF Steady, buttons_timer_function
    <3>2. player' = "ready" /\ pending'
      BY <2>3, <3>1
    <3>3. IsRelease(key_val') <=> irq_pd \notin down
      BY <2>1, <2>2, ReleaseTold
    <3>4. Missing(IsRelease(key_val))'
      BY <3>1, <3>3 DEF Missing, buttons_timer_function
    <3> QED BY <1>1, <3>1, <3>2, <3>4 DEF Steady
  <2> QED BY <2>4, <2>6, <2>7 DEF Steady
<1> QED BY <1>2, <1>3

\* How far the player has come changes nothing that is owed.
LEMMA RegisterKeeps ==
    ASSUME IInv, Register
    PROVE  IInv' /\ (Steady => Steady')
<1> USE DEF IInv
<1>1. Entered' = Entered /\ Looks' = Looks /\ Owed' = Owed
  BY DEF Register, Entered, Looks, Owed, One
<1>2. TypeOK'
  BY DEF Register, TypeOK
<1>3. Conserved'
  BY <1>1 DEF Register, Conserved
<1>4. Steady => Steady'
  BY <1>1 DEF Register, Steady, Missing
<1> QED BY <1>2, <1>3, <1>4

\* The signal hands what is owed on to the handler.
LEMMA EnterKeeps ==
    ASSUME IInv, NEW h \in Handlers, Enter(h)
    PROVE  IInv' /\ (Steady => Steady')
<1> USE DEF IInv
<1>1. CASE player = "ready"
  <2>1. handler' = [handler EXCEPT ![h] = "entered"] /\ player' = player /\ ~pending' /\ pending
    BY <1>1 DEF Enter
  <2>2. Entered' = Entered \cup {h} /\ Cardinality(Entered') = Cardinality(Entered) + 1
    BY <2>1, EntersOne DEF Enter
  <2>3. TypeOK'
    BY <2>1 DEF Enter, TypeOK
  <2>4. Looks' = Looks
    BY DEF Enter, Looks
  <2>5. Owed' = Owed
    BY <2>1, <2>2, <2>4, EnteredFinite DEF Owed, One
  <2>6. Conserved'
    BY <2>5 DEF Conserved, Enter
  <2>7. Steady => Steady'
    BY <1>1, <2>1, <2>2, <2>4 DEF Enter, Steady, Missing
  <2> QED BY <2>3, <2>6, <2>7
<1>2. CASE player # "ready"
  <2>1. player' = "dead" /\ handler' = handler /\ ~pending' /\ pending
    BY <1>2 DEF Enter
  <2>2. TypeOK'
    BY <2>1 DEF Enter, TypeOK
  <2>3. Looks' = Looks /\ Entered' = Entered
    BY <2>1 DEF Enter, Looks, Entered
  <2>4. Owed' <= Owed /\ Owed' \in Int /\ Owed \in Int
    BY <2>1, <2>3, EnteredFinite DEF Owed, One
  <2>5. Conserved'
    <3>1. UNCHANGED <<commands, edges, releases>>
      BY DEF Enter
    <3>2. /\ commands \in Int /\ edges \in Int
          /\ commands + Owed <= edges /\ releases <= edges
      BY KeyAssumption DEF Conserved, TypeOK
    <3>3. commands + Owed' <= edges
      BY <2>4, <3>2, OwedStays
    <3> QED BY <3>1, <3>2, <3>3 DEF Conserved
  <2>6. Steady => Steady'
    BY <1>2, <2>1 DEF Enter, Steady
  <2> QED BY <2>2, <2>5, <2>6
<1> QED BY <1>1, <1>2

\* A command is made of what is owed; a key that is down makes none.
LEMMA ReadKeeps ==
    ASSUME IInv, NEW h \in Handlers, Read(h)
    PROVE  IInv' /\ (Steady => Steady')
<1> USE DEF IInv
<1>1. Looks' = Looks
  BY DEF Read, Looks
<1>2. CASE IsRelease(key_val)
  <2>1. handler' = [handler EXCEPT ![h] = "busy"] /\ commands' = commands + 1
        /\ lastCommand' = KeyOf(key_val)
    BY <1>2 DEF Read
  <2>2. Entered' = Entered \ {h} /\ h \in Entered /\ Cardinality(Entered') = Cardinality(Entered) - 1
    BY <2>1, LeavesOne DEF Read
  <2>3. Owed' = Owed - 1 /\ Owed \in Int
    BY <1>1, <2>2, EnteredFinite DEF Owed, One, Read
  <2>4. Conserved'
    <3>1. UNCHANGED <<edges, releases>> /\ commands' = commands + 1
      BY <2>1 DEF Read
    <3>2. /\ commands \in Int /\ edges \in Int
          /\ commands + Owed <= edges /\ releases <= edges
      BY KeyAssumption DEF Conserved, TypeOK
    <3>3. Owed' = Owed - 1 /\ Owed \in Int
      BY <2>3
    <3>4. (commands + 1) + (Owed - 1) <= edges
      BY <3>2, <3>3, OwedPaid
    <3>5. commands' + Owed' <= edges'
      BY <3>1, <3>3, <3>4, Zenon
    <3>6. releases' <= edges'
      BY <3>1, <3>2
    <3> QED BY <3>5, <3>6 DEF Conserved
  <2>5. TypeOK'
    <3>1. commands' \in Nat /\ releases' \in Nat /\ edges' \in 0..MaxEdges
      BY <2>1, KeyAssumption DEF Read, TypeOK
    <3>2. Owed' \in Nat
      BY OwedNext
    <3>3. commands' \in 0..MaxEdges + 1
      <4>1. commands' + Owed' <= edges'
        BY <2>4 DEF Conserved
      <4>2. MaxEdges \in Nat
        BY KeyAssumption
      <4> QED BY <3>1, <3>2, <4>1, <4>2, OwedBounds
    <3>4. lastCommand' \in Key \cup {NoKey}
      BY <2>1, KeyOfTyped DEF TypeOK
    <3> QED BY <2>1, <3>3, <3>4 DEF Read, TypeOK
  <2>6. ASSUME Steady, ~hurried' PROVE Steady'
    <3>1. ~hurried /\ player = "ready" /\ commands = releases - 1
      BY <1>2, <2>2, <2>6 DEF Read, Steady, Missing
    <3>2. Entered' = {} /\ ~pending /\ ~Looks
      BY <2>2, <2>6, <3>1 DEF Steady
    <3>3. commands' = releases'
      BY <2>1, <3>1 DEF Read, TypeOK
    <3> QED BY <1>1, <3>1, <3>2, <3>3 DEF Steady, Read
  <2> QED BY <2>4, <2>5, <2>6 DEF Steady
<1>3. CASE ~IsRelease(key_val)
  <2>1. handler' = [handler EXCEPT ![h] = "idle"] /\ UNCHANGED <<commands, lastCommand>>
    BY <1>3 DEF Read
  <2>2. Entered' = Entered \ {h} /\ h \in Entered /\ Cardinality(Entered') = Cardinality(Entered) - 1
    BY <2>1, LeavesOne DEF Read
  <2>3. Owed' = Owed - 1 /\ Owed \in Int
    BY <1>1, <2>2, EnteredFinite DEF Owed, One, Read
  <2>4. Conserved'
    BY <2>1, <2>3 DEF Conserved, Read, TypeOK
  <2>5. TypeOK'
    BY <2>1 DEF Read, TypeOK
  <2>6. ASSUME Steady, ~hurried' PROVE Steady'
    <3>1. ~hurried /\ player = "ready" /\ commands = releases
      BY <1>3, <2>2, <2>6 DEF Read, Steady, Missing
    <3>2. Entered' = {} /\ ~pending /\ ~Looks
      BY <2>2, <2>6, <3>1 DEF Steady
    <3> QED BY <1>1, <2>1, <3>1, <3>2 DEF Steady, Read
  <2> QED BY <2>4, <2>5, <2>6 DEF Steady
<1> QED BY <1>2, <1>3

\* A handler that returns is owed nothing.
LEMMA ReturnKeeps ==
    ASSUME IInv, NEW h \in Handlers, Return(h)
    PROVE  IInv' /\ (Steady => Steady')
<1> USE DEF IInv
<1>1. Entered' = Entered /\ Looks' = Looks
  BY DEF Return, Entered, Looks, TypeOK
<1>2. TypeOK'
  BY DEF Return, TypeOK
<1>3. Conserved'
  BY <1>1 DEF Return, Conserved, Owed, One
<1>4. Steady => Steady'
  BY <1>1 DEF Return, Steady, Missing
<1> QED BY <1>2, <1>3, <1>4

\* Every step keeps what is owed, and the steady state without hurry.
LEMMA Inductive == Spec => [](IInv /\ Steady)
<1>1. IInv /\ Steady /\ [Next]_vars => (IInv /\ Steady)'
  <2> SUFFICES ASSUME IInv, Steady, [Next]_vars PROVE (IInv /\ Steady)'
    OBVIOUS
  <2>1. CASE UNCHANGED vars
    BY <2>1 DEF vars, IInv, TypeOK, Conserved, Owed, One, Looks, Entered, Steady, Missing
  <2>2. CASE Next
    BY <2>2, PressKeeps, ReleaseKeeps, TimerKeeps, RegisterKeeps, EnterKeeps, ReadKeeps,
       ReturnKeeps DEF Next, HandlerNext
  <2> QED BY <2>1, <2>2
<1> QED BY InitHolds, <1>1, PTL DEF Spec

(***************************************************************************)
(* The types, for any number of keys, handlers and edges; the key a        *)
(* handler acts on is one there is.                                        *)
(***************************************************************************)
THEOREM KeyTypeCorrect == Spec => []TypeOK
  BY Inductive, PTL DEF IInv

(***************************************************************************)
(* However interrupts, timer, signals and handlers overlap, no edge makes  *)
(* two commands.                                                           *)
(***************************************************************************)
THEOREM EdgesCountOnce == Spec => []OneCommandPerEdge
<1>1. IInv => OneCommandPerEdge
  <2> SUFFICES ASSUME IInv PROVE OneCommandPerEdge
    OBVIOUS
  <2>1. commands \in Nat /\ releases \in Nat /\ edges \in 0..MaxEdges
    BY KeyAssumption DEF IInv, TypeOK
  <2> QED BY <2>1, Bounded DEF IInv, OneCommandPerEdge
<1> QED BY Inductive, <1>1, PTL

(***************************************************************************)
(* Keys whose edges do not meet on the way all arrive.                     *)
(***************************************************************************)
THEOREM SlowKeysCount == Spec => []SlowKeysArrive
<1>1. Steady => SlowKeysArrive
  BY DEF Steady, SlowKeysArrive, Unread, Looks, Entered
<1> QED BY Inductive, <1>1, PTL
-----------------------------------------------------------------------------
\* However many edges met on the way, the driver never comes to rest on an older
\* one: once nothing is on its way any more, the key last let go was the last one
\* executed (Int_Gpio_Drv.c:131-167, do_switch.c:1277-1296).
RestsOnLastEdge ==
    ~Unread /\ player = "ready" =>
        lastEdge = NoKey \/ lastEdge \in down \/ lastCommand = lastEdge

(***************************************************************************)
(* The last edge, inductively: the timer only ever looks at the last one,  *)
(* and as long as its key is up it is before the timer, or its release is  *)
(* what key_val holds, read last or about to be read.                      *)
(***************************************************************************)
OnItsWay ==
    \/ armed /\ irq_pd = lastEdge
    \/ lastEdge \in down
    \/ /\ key_val = ReleaseOf(lastEdge)
       /\ lastCommand = lastEdge \/ pending \/ Entered # {}

LastKept ==
    /\ armed => irq_pd = lastEdge
    /\ lastEdge # NoKey /\ player \in {"fasync", "listening", "ready"} => OnItsWay

\* The key of a value is the one that was let go.
LEMMA KeyOfRelease ==
    ASSUME NEW k \in Key
    PROVE  KeyOf(ReleaseOf(k)) = k /\ IsRelease(ReleaseOf(k))
  BY KeyAssumption DEF KeyOf, ReleaseOf, Key, IsRelease

\* A new edge is the last one, and before the timer.
LEMMA EdgeIsLast ==
    ASSUME NEW k \in Key, Edge(k)
    PROVE  LastKept'
  BY DEF Edge, FakeChenIntIsr, LastKept, OnItsWay

LEMMA LastInductive == Spec => []LastKept
<1>1. Init => LastKept
  BY DEF Init, LastKept
<1>2. TypeOK /\ LastKept /\ [Next]_vars => LastKept'
  <2> SUFFICES ASSUME TypeOK, LastKept, [Next]_vars PROVE LastKept'
    OBVIOUS
  <2>1. ASSUME NEW k \in Key, Press(k) PROVE LastKept'
    <3>1. CASE Edge(k)
      BY <3>1, EdgeIsLast
    <3>2. CASE ~Edge(k)
      <4>1. UNCHANGED <<irq_pd, armed, lastEdge, key_val, player, pending, handler, lastCommand>>
            /\ down' = down \cup {k}
        BY <2>1, <3>2 DEF Press
      <4> QED BY <4>1 DEF LastKept, OnItsWay, Entered
    <3> QED BY <3>1, <3>2
  <2>2. ASSUME NEW k \in Key, Release(k) PROVE LastKept'
    BY <2>2, EdgeIsLast DEF Release
  <2>3. ASSUME buttons_timer_function PROVE LastKept'
    <3>1. armed /\ ~armed'
          /\ UNCHANGED <<down, irq_pd, handler, lastEdge, lastCommand>>
      BY <2>3 DEF buttons_timer_function, TimerStops
    <3>2. CASE irq_pd = NoKey
      <4>1. UNCHANGED <<key_val, player, pending>>
        BY <2>3, <3>2 DEF buttons_timer_function
      <4> QED BY <3>1, <3>2, <4>1 DEF LastKept, OnItsWay, Entered
    <3>3. CASE irq_pd # NoKey
      <4>1. /\ key_val' = IF irq_pd \in down THEN irq_pd ELSE ReleaseOf(irq_pd)
            /\ pending' = (pending \/ player \in {"listening", "ready"})
            /\ player' = IF player = "fasync" THEN "dead" ELSE player
        BY <2>3, <3>3 DEF buttons_timer_function
      <4>2. irq_pd = lastEdge
        BY <3>1, <3>3 DEF LastKept
      <4>3. player' \in {"fasync", "listening", "ready"} => pending'
        BY <4>1
      <4> QED BY <3>1, <4>1, <4>2, <4>3 DEF LastKept, OnItsWay
    <3> QED BY <3>2, <3>3
  <2>4. ASSUME Register PROVE LastKept'
    <3>1. UNCHANGED <<down, irq_pd, armed, key_val, pending, handler, lastCommand>>
      BY <2>4 DEF Register
    <3>2. CASE player = "starting" /\ ~armed
      BY <2>4, <3>1, <3>2 DEF Register, LastKept
    <3>3. CASE ~(player = "starting" /\ ~armed)
      <4>1. lastEdge' = lastEdge /\ (player = "starting" => armed)
        BY <2>4, <3>3 DEF Register, TypeOK
      <4>2. player \in {"starting", "fasync", "listening"}
        BY <2>4 DEF Register
      <4> QED BY <3>1, <4>1, <4>2 DEF LastKept, OnItsWay, Entered
    <3> QED BY <3>2, <3>3
  <2>5. ASSUME NEW h \in Handlers, Enter(h) PROVE LastKept'
    <3>1. UNCHANGED <<down, irq_pd, armed, key_val, lastEdge, lastCommand>>
      BY <2>5 DEF Enter
    <3>2. CASE player = "ready"
      <4>1. player' = player /\ h \in Entered'
        BY <2>5, <3>2 DEF Enter, Entered, TypeOK
      <4> QED BY <3>1, <3>2, <4>1 DEF LastKept, OnItsWay
    <3>3. CASE player # "ready"
      BY <2>5, <3>1, <3>3 DEF Enter, LastKept
    <3> QED BY <3>2, <3>3
  <2>6. ASSUME NEW h \in Handlers, Read(h) PROVE LastKept'
    <3>1. UNCHANGED <<down, irq_pd, armed, key_val, player, pending, lastEdge>>
      BY <2>6 DEF Read
    <3>2. CASE OnItsWay /\ lastEdge \in Key /\ key_val = ReleaseOf(lastEdge)
      <4>1. lastCommand' = lastEdge
        BY <2>6, <3>2, KeyOfRelease DEF Read
      <4> QED BY <3>1, <3>2, <4>1 DEF LastKept, OnItsWay
    <3>3. CASE lastEdge \notin Key
      BY <3>1, <3>3 DEF LastKept, TypeOK
    <3>4. CASE OnItsWay /\ key_val # ReleaseOf(lastEdge)
      <4>1. OnItsWay'
        BY <3>1, <3>4 DEF OnItsWay
      <4> QED BY <3>1, <4>1 DEF LastKept
    <3>5. CASE ~OnItsWay
      BY <3>1, <3>5 DEF LastKept
    <3> QED BY <3>2, <3>3, <3>4, <3>5
  <2>7. ASSUME NEW h \in Handlers, Return(h) PROVE LastKept'
    <3>1. Entered' = Entered
      BY <2>7 DEF Return, Entered, TypeOK
    <3> QED BY <2>7, <3>1 DEF Return, LastKept, OnItsWay
  <2>8. CASE UNCHANGED vars
    BY <2>8 DEF vars, LastKept, OnItsWay, Entered
  <2> QED BY <2>1, <2>2, <2>3, <2>4, <2>5, <2>6, <2>7, <2>8 DEF Next, HandlerNext
<1> QED BY <1>1, <1>2, KeyTypeCorrect, PTL DEF Spec

(***************************************************************************)
(* Whatever edges met on the way, the driver comes to rest on the last one *)
(* only: the safety half of LastReleaseActs.                               *)
(***************************************************************************)
THEOREM LastEdgeWins == Spec => []RestsOnLastEdge
<1>1. LastKept => RestsOnLastEdge
  BY DEF LastKept, OnItsWay, RestsOnLastEdge, Unread, Entered
<1> QED BY <1>1, LastInductive, PTL
=============================================================================
