------------------------- MODULE RtspClient_proofs -------------------------
(***************************************************************************)
(* Proofs about RtspClient, for any number of streams and subsessions and  *)
(* for lax servers too: the client count is right, clients that are closed *)
(* are silent, PLAY follows a SETUP, and the client is a StreamPool.       *)
(***************************************************************************)
EXTENDS RtspClient, FiniteSetTheorems, TLAPS

(***************************************************************************)
(* The inductive invariant: what is checked, and what it rests on.         *)
(***************************************************************************)
\* The streams from opening on are those not yet opened.
OpensInOrder == \A s \in Stream : phase[s] = "unopened" <=> opening <= s

SetsUpASubsession == \A s \in Stream : request[s] = "SETUP" => subsession[s] \in 1..MaxSubs

SessionHasSink == ~LaxServer => \A s \in Stream : inSession[s] => sinks[s] # {}

PlaysInSession ==
    \A s \in Stream :
        \/ phase[s] = "open" /\ request[s] = "none"
        \/ request[s] = "PLAY" /\ conn[s] = "up"
        => inSession[s]

Talk == SetsUpASubsession /\ SessionHasSink /\ PlaysInSession

IInv == TypeOK /\ CountsClients /\ ClosedStreamsAreSilent /\ OpensInOrder /\ Talk

(***************************************************************************)
(* The clients in use are finitely many.                                   *)
(***************************************************************************)
LEMMA UseIsFinite ==
    /\ IsFiniteSet(inUse)
    /\ Cardinality(inUse) \in 0..NStreams
<1>1. IsFiniteSet(Stream) /\ Cardinality(Stream) = NStreams
  BY StreamsAssumption, FS_Interval DEF Stream
<1>2. inUse \in SUBSET Stream
  BY DEF inUse
<1> QED BY <1>1, <1>2, FS_Subset, FS_CardinalityType, StreamsAssumption

\* The same after a step.
LEMMA UseIsFiniteNext ==
    /\ IsFiniteSet(inUse')
    /\ Cardinality(inUse') \in 0..NStreams
<1>1. IsFiniteSet(Stream) /\ Cardinality(Stream) = NStreams
  BY StreamsAssumption, FS_Interval DEF Stream
<1>2. inUse' \in SUBSET Stream
  BY DEF inUse
<1> QED BY <1>1, <1>2, FS_Subset, FS_CardinalityType, StreamsAssumption

(***************************************************************************)
(* shutdownStream() of an open stream takes it, and nothing else, out of   *)
(* use, counts it, and exits if it was the last.                           *)
(***************************************************************************)
LEMMA ShutdownCounts ==
    ASSUME IInv, NEW s \in Stream, phase[s] = "open", shutdownStream(s)
    PROVE  /\ inUse' = inUse \ {s}
           /\ rtspClientCount' = Cardinality(inUse')
           /\ exited' <=> inUse' = {}
<1>1. inUse' = inUse \ {s} /\ s \in inUse
  BY DEF inUse, shutdownStream, closeClient, closeSession, IInv, TypeOK
<1>2. Cardinality(inUse \ {s}) = Cardinality(inUse) - 1
  BY <1>1, UseIsFinite, FS_RemoveElement
<1>3. rtspClientCount' = Cardinality(inUse')
  BY <1>1, <1>2 DEF shutdownStream, IInv, CountsClients
<1>4. Cardinality(inUse') = 0 <=> inUse' = {}
  BY UseIsFiniteNext, FS_EmptySet
<1> QED BY <1>1, <1>3, <1>4 DEF shutdownStream

LEMMA ShutdownKeeps ==
    ASSUME IInv, NEW s \in Stream, phase[s] = "open", shutdownStream(s)
    PROVE  IInv'
<1>1. TypeOK'
  <2>1. rtspClientCount' \in 0..NStreams /\ exited' \in BOOLEAN
    BY ShutdownCounts, UseIsFiniteNext DEF shutdownStream
  <2> QED BY <2>1, StreamsAssumption DEF shutdownStream, closeClient, closeSession, IInv, TypeOK
<1>2. CountsClients'
  BY ShutdownCounts DEF CountsClients
<1>3. ClosedStreamsAreSilent'
  BY DEF shutdownStream, closeClient, closeSession, IInv, TypeOK, ClosedStreamsAreSilent
<1>4. OpensInOrder'
  BY DEF shutdownStream, closeClient, closeSession, IInv, TypeOK, OpensInOrder
<1>5. Talk'
  BY DEF shutdownStream, closeClient, closeSession, IInv, TypeOK, Talk,
         SetsUpASubsession, SessionHasSink, PlaysInSession
<1> QED BY <1>1, <1>2, <1>3, <1>4, <1>5 DEF IInv

(***************************************************************************)
(* setupNextSubsession() sends SETUP for a subsession there is, or PLAY,   *)
(* which is on its way only within a session.                              *)
(***************************************************************************)
LEMMA NextRequestSent ==
    ASSUME IInv, NEW s \in Stream, NEW k \in 0..MaxSubs, NEW n \in 0..MaxSubs,
           NEW c \in {"pending", "up", "down"}, NEW session \in BOOLEAN,
           nextRequest(s, k, n, c, session)
    PROVE  /\ request' \in [Stream -> {"none", "DESCRIBE", "SETUP", "PLAY"}]
           /\ subsession' \in [Stream -> 0..MaxSubs]
           /\ conn' \in [Stream -> {"down", "pending", "up"}]
           /\ \A t \in Stream \ {s} : /\ request'[t] = request[t]
                                      /\ subsession'[t] = subsession[t]
                                      /\ conn'[t] = conn[t]
           /\ request'[s] \in {"SETUP", "PLAY"}
           /\ request'[s] = "SETUP" => subsession'[s] \in 1..MaxSubs
           /\ request'[s] = "PLAY" /\ conn'[s] = "up" => session
           /\ UNCHANGED <<opening, phase, timer, rtspClientCount, exited>>
<1> USE StreamsAssumption DEF IInv, TypeOK
<1>1. UNCHANGED <<opening, phase, timer, rtspClientCount, exited>>
  BY DEF nextRequest
<1>2. CASE \E j \in k + 1..n, d \in Sent("SETUP", c, session) :
             /\ request' = [request EXCEPT ![s] = "SETUP"]
             /\ subsession' = [subsession EXCEPT ![s] = j]
             /\ conn' = [conn EXCEPT ![s] = d]
  <2>1. PICK j \in k + 1..n, d \in Sent("SETUP", c, session) :
             /\ request' = [request EXCEPT ![s] = "SETUP"]
             /\ subsession' = [subsession EXCEPT ![s] = j]
             /\ conn' = [conn EXCEPT ![s] = d]
    BY <1>2
  <2>2. j \in 1..MaxSubs /\ d \in {"down", "pending", "up"}
    BY DEF Sent
  <2> QED BY <1>1, <2>1, <2>2
<1>3. CASE \E d \in Sent("PLAY", c, session) :
             /\ request' = [request EXCEPT ![s] = "PLAY"]
             /\ subsession' = [subsession EXCEPT ![s] = 0]
             /\ conn' = [conn EXCEPT ![s] = d]
  <2>1. PICK d \in Sent("PLAY", c, session) :
             /\ request' = [request EXCEPT ![s] = "PLAY"]
             /\ subsession' = [subsession EXCEPT ![s] = 0]
             /\ conn' = [conn EXCEPT ![s] = d]
    BY <1>3
  <2>2. d \in {"down", "pending", "up"} /\ (d = "up" => session)
    BY DEF Sent, FieldsOK
  <2> QED BY <1>1, <2>1, <2>2
<1> QED BY <1>2, <1>3 DEF nextRequest

(***************************************************************************)
(* A step of an open stream that leaves it open, and the clients as they   *)
(* are, keeps the invariant if it keeps the parts about this stream.       *)
(***************************************************************************)
LEMMA OpenKeeps ==
    ASSUME IInv, TypeOK', NEW s \in Stream, phase[s] = "open",
           UNCHANGED <<opening, phase, rtspClientCount, exited>>,
           \A t \in Stream \ {s} :
               /\ conn'[t] = conn[t] /\ request'[t] = request[t]
               /\ subsession'[t] = subsession[t] /\ inSession'[t] = inSession[t]
               /\ sinks'[t] = sinks[t] /\ byes'[t] = byes[t] /\ timer'[t] = timer[t],
           request'[s] = "SETUP" => subsession'[s] \in 1..MaxSubs,
           ~LaxServer /\ inSession'[s] => sinks'[s] # {},
           request'[s] = "none" \/ (request'[s] = "PLAY" /\ conn'[s] = "up")
               => inSession'[s]
    PROVE  IInv' /\ inUse' = inUse
<1>1. inUse' = inUse /\ CountsClients'
  BY DEF inUse, CountsClients, IInv
<1>2. ClosedStreamsAreSilent' /\ OpensInOrder'
  BY DEF ClosedStreamsAreSilent, OpensInOrder, IInv
<1>3. Talk'
  BY DEF IInv, Talk, SetsUpASubsession, SessionHasSink, PlaysInSession
<1> QED BY <1>1, <1>2, <1>3 DEF IInv

(***************************************************************************)
(* A failed request ends the stream or goes on to the next subsession.     *)
(***************************************************************************)
LEMMA ErrorKeeps ==
    ASSUME IInv, NEW s \in Stream, phase[s] = "open", NEW c \in {"up", "down"},
           requestError(s, c)
    PROVE  /\ IInv'
           /\ \/ shutdownStream(s)
              \/ /\ inUse' = inUse
                 /\ request[s] # "none" /\ request'[s] # "none"
                 /\ \A t \in Stream \ {s} : request'[t] = request[t]
                 /\ UNCHANGED <<phase, exited>>
<1>1. CASE shutdownStream(s)
  BY <1>1, ShutdownKeeps
<1>2. CASE /\ request[s] = "SETUP"
           /\ nextRequest(s, subsession[s], subs[s], c, inSession[s])
           /\ UNCHANGED <<subs, inSession, sinks, byes>>
  <2>1. subsession[s] \in 0..MaxSubs /\ subs[s] \in 0..MaxSubs /\ inSession[s] \in BOOLEAN
    BY DEF IInv, TypeOK
  <2>2. /\ request' \in [Stream -> {"none", "DESCRIBE", "SETUP", "PLAY"}]
        /\ subsession' \in [Stream -> 0..MaxSubs]
        /\ conn' \in [Stream -> {"down", "pending", "up"}]
        /\ \A t \in Stream \ {s} : /\ request'[t] = request[t]
                                   /\ subsession'[t] = subsession[t]
                                   /\ conn'[t] = conn[t]
        /\ request'[s] \in {"SETUP", "PLAY"}
        /\ request'[s] = "SETUP" => subsession'[s] \in 1..MaxSubs
        /\ request'[s] = "PLAY" /\ conn'[s] = "up" => inSession[s]
        /\ UNCHANGED <<opening, phase, timer, rtspClientCount, exited>>
    BY <1>2, <2>1, NextRequestSent
  <2>3. TypeOK'
    BY <1>2, <2>2 DEF IInv, TypeOK
  <2>4. ~LaxServer /\ inSession'[s] => sinks'[s] # {}
    BY <1>2 DEF IInv, Talk, SessionHasSink
  <2>5. IInv' /\ inUse' = inUse
    BY <1>2, <2>2, <2>3, <2>4, OpenKeeps
  <2> QED BY <1>2, <2>2, <2>5
<1> QED BY <1>1, <1>2 DEF requestError

(***************************************************************************)
(* What the pool sees of a step: a stream is opened, plays or ends, or     *)
(* nothing changes for it.                                                 *)
(***************************************************************************)
PoolStep ==
    \/ \E s \in Stream : /\ phase[s] = "open" /\ ~exited
                         /\ shutdownStream(s)
    \/ \E s \in Stream : openURL(s)
    \/ \E s \in Stream : Played(s)
    \/ /\ \A s \in Stream : request'[s] = "none" <=> request[s] = "none"
       /\ UNCHANGED <<phase, exited>>

(***************************************************************************)
(* Every step keeps the invariant: openURL() by its two outcomes, and each *)
(* handler by what it leaves of its stream.                                *)
(***************************************************************************)
LEMMA StepKeeps ==
    ASSUME IInv, Next
    PROVE  IInv' /\ PoolStep
<1>1. ASSUME NEW s \in Stream, openURL(s) PROVE IInv' /\ PoolStep
  <2>1. phase[s] = "unopened" /\ s \notin inUse /\ request[s] = "none"
    BY <1>1, StreamsAssumption
       DEF openURL, IInv, TypeOK, OpensInOrder, ClosedStreamsAreSilent, inUse, Stream
  <2>2. CASE /\ phase' = [phase EXCEPT ![s] = "open"]
             /\ request' = [request EXCEPT ![s] = "DESCRIBE"]
             /\ \E c \in Sent("DESCRIBE", "down", FALSE) : conn' = [conn EXCEPT ![s] = c]
             /\ rtspClientCount' = rtspClientCount + 1
             /\ UNCHANGED exited
    <3>1. PICK c \in {"pending", "up"} : conn' = [conn EXCEPT ![s] = c]
      BY <2>2 DEF Sent
    <3>2. inUse' = inUse \cup {s}
      BY <2>2 DEF inUse, IInv, TypeOK
    <3>3. CountsClients'
      BY <2>1, <2>2, <3>2, UseIsFinite, FS_AddElement DEF IInv, CountsClients
    <3>4. TypeOK'
      <4>1. rtspClientCount' \in 0..NStreams
        BY <3>3, UseIsFiniteNext DEF CountsClients
      <4>2. opening' \in 1..NStreams + 1
        BY <1>1, StreamsAssumption DEF openURL, Stream
      <4> QED BY <1>1, <2>2, <3>1, <4>1, <4>2 DEF openURL, IInv, TypeOK
    <3>5. ClosedStreamsAreSilent'
      BY <1>1, <2>1, <2>2, <3>1 DEF openURL, IInv, TypeOK, ClosedStreamsAreSilent
    <3>6. OpensInOrder'
      BY <1>1, <2>1, <2>2, StreamsAssumption DEF openURL, IInv, TypeOK, OpensInOrder, Stream
    <3>7. Talk'
      BY <1>1, <2>1, <2>2, <3>1
         DEF openURL, IInv, TypeOK, Talk, SetsUpASubsession, SessionHasSink, PlaysInSession
    <3> QED BY <1>1, <3>3, <3>4, <3>5, <3>6, <3>7 DEF IInv, PoolStep
  <2>3. CASE /\ phase' = [phase EXCEPT ![s] = "closed"]
             /\ exited' = (rtspClientCount = 0)
             /\ UNCHANGED <<conn, request, rtspClientCount>>
    <3>1. inUse' = inUse
      BY <2>1, <2>3 DEF inUse, IInv, TypeOK
    <3>2. CountsClients'
      BY <2>3, <3>1 DEF IInv, CountsClients
    <3>3. opening' \in 1..NStreams + 1
      BY <1>1, StreamsAssumption DEF openURL, Stream
    <3>4. TypeOK'
      BY <1>1, <2>3, <3>3 DEF openURL, IInv, TypeOK
    <3>5. ClosedStreamsAreSilent'
      BY <1>1, <2>1, <2>3 DEF openURL, IInv, TypeOK, ClosedStreamsAreSilent
    <3>6. OpensInOrder'
      BY <1>1, <2>1, <2>3, StreamsAssumption DEF openURL, IInv, TypeOK, OpensInOrder, Stream
    <3>7. Talk'
      BY <1>1, <2>1, <2>3
         DEF openURL, IInv, TypeOK, Talk, SetsUpASubsession, SessionHasSink, PlaysInSession
    <3> QED BY <1>1, <3>2, <3>4, <3>5, <3>6, <3>7 DEF IInv, PoolStep
  <2> QED BY <1>1, <2>2, <2>3 DEF openURL
<1>2. ASSUME NEW s \in Stream,
             Connected(s) \/ ConnectFails(s) \/ ConnectionLost(s) \/ SendAgain(s)
             \/ Refused(s) \/ Described(s) \/ SetUp(s) \/ Played(s) \/ Bye(s) \/ TimerFires(s)
      PROVE  IInv' /\ PoolStep
  <2>1. phase[s] = "open" /\ ~exited
    BY <1>2 DEF Connected, ConnectFails, ConnectionLost, SendAgain, Refused, Described, SetUp,
               Played, Bye, TimerFires, awaitsResponse, looping, IInv, ClosedStreamsAreSilent
  <2>2. ASSUME NEW c \in {"up", "down"}, requestError(s, c) PROVE IInv' /\ PoolStep
    BY <2>1, <2>2, ErrorKeeps DEF PoolStep
  <2>3. ASSUME shutdownStream(s) PROVE IInv' /\ PoolStep
    BY <2>1, <2>3, ShutdownKeeps DEF PoolStep
  \* The connection changes, the request is the same.
  <2>4. ASSUME NEW c \in {"down", "pending", "up"}, conn' = [conn EXCEPT ![s] = c],
               c = "up" /\ request[s] = "PLAY" => inSession[s],
               UNCHANGED <<opening, phase, request, subs, subsession, inSession, sinks, byes,
                           timer, rtspClientCount, exited>>
        PROVE  IInv' /\ PoolStep
    <3>1. TypeOK'
      BY <2>4 DEF IInv, TypeOK
    <3>2. /\ request[s] = "SETUP" => subsession[s] \in 1..MaxSubs
          /\ ~LaxServer /\ inSession[s] => sinks[s] # {}
          /\ request[s] = "none" => inSession[s]
      BY <2>1 DEF IInv, Talk, SetsUpASubsession, SessionHasSink, PlaysInSession
    <3>3. conn'[s] = c /\ \A t \in Stream \ {s} : conn'[t] = conn[t]
      BY <2>4 DEF IInv, TypeOK
    <3>4. IInv'
      BY <2>1, <2>4, <3>1, <3>2, <3>3, OpenKeeps
    <3> QED BY <2>4, <3>4 DEF PoolStep
  <2>5. CASE Connected(s)
    BY <2>2, <2>4, <2>5 DEF Connected, Sent, FieldsOK
  <2>6. CASE ConnectFails(s)
    BY <2>2, <2>6 DEF ConnectFails
  <2>7. CASE ConnectionLost(s)
    BY <2>2, <2>4, <2>7 DEF ConnectionLost
  <2>8. CASE SendAgain(s)
    <3>1. PICK c \in {"up", "down"} :
             \/ /\ \E d \in Sent(request[s], c, inSession[s]) : conn' = [conn EXCEPT ![s] = d]
                /\ UNCHANGED <<opening, phase, request, subs, subsession, inSession, sinks,
                               byes, timer, rtspClientCount, exited>>
             \/ requestError(s, c)
      BY <2>8 DEF SendAgain
    <3>2. ASSUME NEW d \in Sent(request[s], c, inSession[s])
          PROVE  d \in {"down", "pending", "up"} /\ (d = "up" /\ request[s] = "PLAY" => inSession[s])
      BY <3>2 DEF Sent, FieldsOK
    <3> QED BY <2>2, <2>4, <3>1, <3>2
  <2>9. CASE Refused(s)
    BY <2>2, <2>9 DEF Refused
  <2>10. CASE Described(s)
    <3>1. CASE shutdownStream(s)
      BY <2>3, <3>1
    <3>2. ASSUME NEW n \in 1..MaxSubs, NEW c \in {"up", "down"},
                 subs' = [subs EXCEPT ![s] = n], nextRequest(s, 0, n, c, FALSE),
                 UNCHANGED <<inSession, sinks, byes>>
          PROVE  IInv' /\ PoolStep
      <4>1. n \in 0..MaxSubs /\ 0 \in 0..MaxSubs
        BY StreamsAssumption
      <4>2. /\ request' \in [Stream -> {"none", "DESCRIBE", "SETUP", "PLAY"}]
            /\ subsession' \in [Stream -> 0..MaxSubs]
            /\ conn' \in [Stream -> {"down", "pending", "up"}]
            /\ \A t \in Stream \ {s} : /\ request'[t] = request[t]
                                       /\ subsession'[t] = subsession[t]
                                       /\ conn'[t] = conn[t]
            /\ request'[s] \in {"SETUP", "PLAY"}
            /\ request'[s] = "SETUP" => subsession'[s] \in 1..MaxSubs
            /\ request'[s] = "PLAY" /\ conn'[s] = "up" => FALSE
            /\ UNCHANGED <<opening, phase, timer, rtspClientCount, exited>>
        BY <3>2, <4>1, NextRequestSent
      <4>3. TypeOK'
        BY <3>2, <4>1, <4>2 DEF IInv, TypeOK
      <4>4. ~LaxServer /\ inSession'[s] => sinks'[s] # {}
        BY <3>2 DEF IInv, Talk, SessionHasSink
      <4>5. IInv'
        BY <2>1, <3>2, <4>2, <4>3, <4>4, OpenKeeps
      <4>6. \A t \in Stream : request'[t] = "none" <=> request[t] = "none"
        BY <2>10, <4>2 DEF Described
      <4> QED BY <4>2, <4>5, <4>6 DEF PoolStep
    <3> QED BY <2>10, <3>1, <3>2 DEF Described
  <2>11. CASE SetUp(s)
    <3>1. CASE shutdownStream(s)
      BY <2>3, <3>1
    <3>2. ASSUME NEW c \in {"up", "down"}, inSession' = [inSession EXCEPT ![s] = TRUE],
                 nextRequest(s, subsession[s], subs[s], c, TRUE),
                 \/ /\ sinks' = [sinks EXCEPT ![s] = @ \cup {subsession[s]}]
                    /\ byes' = [byes EXCEPT ![s] = @ \cup {subsession[s]}]
                 \/ LaxServer /\ UNCHANGED <<sinks, byes>>,
                 UNCHANGED subs
          PROVE  IInv' /\ PoolStep
      <4>1. subsession[s] \in 0..MaxSubs /\ subs[s] \in 0..MaxSubs
        BY DEF IInv, TypeOK
      <4>2. /\ request' \in [Stream -> {"none", "DESCRIBE", "SETUP", "PLAY"}]
            /\ subsession' \in [Stream -> 0..MaxSubs]
            /\ conn' \in [Stream -> {"down", "pending", "up"}]
            /\ \A t \in Stream \ {s} : /\ request'[t] = request[t]
                                       /\ subsession'[t] = subsession[t]
                                       /\ conn'[t] = conn[t]
            /\ request'[s] \in {"SETUP", "PLAY"}
            /\ request'[s] = "SETUP" => subsession'[s] \in 1..MaxSubs
            /\ UNCHANGED <<opening, phase, timer, rtspClientCount, exited>>
        BY <3>2, <4>1, NextRequestSent
      <4>3. subsession[s] \in 1..MaxSubs
        BY <2>11 DEF SetUp, IInv, Talk, SetsUpASubsession
      <4>4. TypeOK'
        <5>1. /\ sinks[s] \cup {subsession[s]} \in SUBSET (1..MaxSubs)
              /\ byes[s] \cup {subsession[s]} \in SUBSET (1..MaxSubs)
          BY <4>3 DEF IInv, TypeOK
        <5>2. /\ sinks' \in [Stream -> SUBSET (1..MaxSubs)]
              /\ byes' \in [Stream -> SUBSET (1..MaxSubs)]
          BY <3>2, <5>1 DEF IInv, TypeOK
        <5>3. inSession' \in [Stream -> BOOLEAN]
          BY <3>2 DEF IInv, TypeOK
        <5> QED BY <3>2, <4>2, <5>2, <5>3 DEF IInv, TypeOK
      <4>5. ~LaxServer => sinks'[s] # {}
        BY <3>2 DEF IInv, TypeOK
      <4>6. inSession'[s] /\ \A t \in Stream \ {s} : /\ inSession'[t] = inSession[t]
                                                     /\ sinks'[t] = sinks[t]
                                                     /\ byes'[t] = byes[t]
        BY <3>2 DEF IInv, TypeOK
      <4>7. IInv'
        BY <2>1, <4>2, <4>4, <4>5, <4>6, OpenKeeps
      <4>8. \A t \in Stream : request'[t] = "none" <=> request[t] = "none"
        BY <2>11, <4>2 DEF SetUp
      <4> QED BY <4>2, <4>7, <4>8 DEF PoolStep
    <3> QED BY <2>11, <3>1, <3>2 DEF SetUp
  <2>12. CASE Played(s)
    <3>1. PICK c \in {"up", "down"}, timed \in BOOLEAN :
             conn' = [conn EXCEPT ![s] = c] /\ timer' = [timer EXCEPT ![s] = timed]
      BY <2>12 DEF Played
    <3>2. TypeOK'
      BY <2>12, <3>1 DEF Played, IInv, TypeOK
    <3>3. inSession[s] /\ (~LaxServer => sinks[s] # {})
      BY <2>12 DEF Played, awaitsResponse, IInv, Talk, PlaysInSession, SessionHasSink
    <3>4. request'[s] = "none" /\ \A t \in Stream \ {s} : /\ request'[t] = request[t]
                                                         /\ conn'[t] = conn[t]
                                                         /\ timer'[t] = timer[t]
      BY <2>12, <3>1 DEF Played, IInv, TypeOK
    <3>5. IInv'
      BY <2>1, <2>12, <3>2, <3>3, <3>4, OpenKeeps DEF Played
    <3> QED BY <2>12, <3>5 DEF PoolStep
  <2>13. CASE Bye(s)
    <3>1. PICK i \in byes[s] : subsessionAfterPlaying(s, i)
      BY <2>13 DEF Bye
    <3>2. CASE shutdownStream(s)
      BY <2>3, <3>2
    <3>3. CASE /\ sinks[s] \ {i} # {}
               /\ sinks' = [sinks EXCEPT ![s] = @ \ {i}]
               /\ byes' = [byes EXCEPT ![s] = @ \ {i}]
               /\ UNCHANGED <<opening, phase, conn, request, subs, subsession, inSession, timer,
                              rtspClientCount, exited>>
      <4>1. TypeOK'
        <5>1. /\ sinks[s] \ {i} \in SUBSET (1..MaxSubs)
              /\ byes[s] \ {i} \in SUBSET (1..MaxSubs)
          BY DEF IInv, TypeOK
        <5>2. /\ sinks' \in [Stream -> SUBSET (1..MaxSubs)]
              /\ byes' \in [Stream -> SUBSET (1..MaxSubs)]
          BY <3>3, <5>1 DEF IInv, TypeOK
        <5> QED BY <3>3, <5>2 DEF IInv, TypeOK
      <4>2. sinks'[s] # {} /\ \A t \in Stream \ {s} : sinks'[t] = sinks[t] /\ byes'[t] = byes[t]
        BY <3>3 DEF IInv, TypeOK
      <4>3. /\ request[s] = "SETUP" => subsession[s] \in 1..MaxSubs
            /\ request[s] = "none" \/ (request[s] = "PLAY" /\ conn[s] = "up") => inSession[s]
        BY <2>1 DEF IInv, Talk, SetsUpASubsession, PlaysInSession
      <4>4. IInv'
        BY <2>1, <3>3, <4>1, <4>2, <4>3, OpenKeeps
      <4> QED BY <3>3, <4>4 DEF PoolStep
    <3> QED BY <3>1, <3>2, <3>3 DEF subsessionAfterPlaying
  <2>14. CASE TimerFires(s)
    BY <2>3, <2>14 DEF TimerFires
  <2> QED BY <1>2, <2>5, <2>6, <2>7, <2>8, <2>9, <2>10, <2>11, <2>12, <2>13, <2>14
<1> QED BY <1>1, <1>2 DEF Next

\* No stream is opened at first.
LEMMA InitHolds == Init => IInv
<1> SUFFICES ASSUME Init PROVE IInv
  OBVIOUS
<1>1. TypeOK
  <2>1. /\ opening \in 1..NStreams + 1 /\ rtspClientCount \in 0..NStreams
        /\ subs \in [Stream -> 0..MaxSubs] /\ subsession \in [Stream -> 0..MaxSubs]
    BY StreamsAssumption DEF Init
  <2>2. sinks \in [Stream -> SUBSET (1..MaxSubs)] /\ byes \in [Stream -> SUBSET (1..MaxSubs)]
    <3>1. {} \in SUBSET (1..MaxSubs)
      OBVIOUS
    <3> QED BY <3>1 DEF Init
  <2>3. /\ inSession \in [Stream -> BOOLEAN] /\ timer \in [Stream -> BOOLEAN]
        /\ exited \in BOOLEAN
    BY DEF Init
  <2>4. /\ phase \in [Stream -> {"unopened", "open", "closed"}]
        /\ conn \in [Stream -> {"down", "pending", "up"}]
        /\ request \in [Stream -> {"none", "DESCRIBE", "SETUP", "PLAY"}]
    BY DEF Init
  <2> QED BY <2>1, <2>2, <2>3, <2>4 DEF TypeOK
<1>2. inUse = {}
  BY DEF Init, inUse
<1>3. CountsClients
  BY <1>2, FS_EmptySet DEF Init, CountsClients
<1>4. ClosedStreamsAreSilent
  BY DEF Init, ClosedStreamsAreSilent
<1>5. OpensInOrder
  BY StreamsAssumption DEF Init, OpensInOrder, Stream
<1>6. Talk
  BY DEF Init, Talk, SetsUpASubsession, SessionHasSink, PlaysInSession
<1> QED BY <1>1, <1>3, <1>4, <1>5, <1>6 DEF IInv

\* The invariant is about the variables of the client only.
LEMMA StutterKeeps == IInv /\ UNCHANGED vars => IInv'
  BY DEF vars, IInv, TypeOK, CountsClients, inUse, ClosedStreamsAreSilent, OpensInOrder, Talk,
         SetsUpASubsession, SessionHasSink, PlaysInSession

\* The invariant holds throughout.
LEMMA Inductive == Spec => []IInv
<1>1. IInv /\ [Next]_vars => IInv'
  BY StepKeeps, StutterKeeps
<1> QED BY InitHolds, <1>1, PTL DEF Spec

(***************************************************************************)
(* For any number of streams and subsessions, and servers lax or not:      *)
(* every variable keeps its type.  The client count, which openURL() and   *)
(* shutdownStream() change, stays between 0 and the number of streams.     *)
(***************************************************************************)
THEOREM RtspTypeCorrect == Spec => []TypeOK
  BY Inductive, PTL DEF IInv

(***************************************************************************)
(* rtspClientCount is the number of clients in use.                        *)
(***************************************************************************)
THEOREM CountCorrect == Spec => []CountsClients
  BY Inductive, PTL DEF IInv

(***************************************************************************)
(* No request, timer, BYE handler or connection of a client outlives it,   *)
(* so that no handler of live555 is called with a deleted client.          *)
(***************************************************************************)
THEOREM ClosedSilent == Spec => []ClosedStreamsAreSilent
  BY Inductive, PTL DEF IInv

(***************************************************************************)
(* With servers that name a transport, PLAY is sent for what was set up.   *)
(***************************************************************************)
THEOREM PlayCorrect == Spec => []PlaysWhatItSetUp
<1>1. IInv => PlaysWhatItSetUp
  BY DEF IInv, Talk, SessionHasSink, PlaysInSession, PlaysWhatItSetUp
<1> QED BY Inductive, <1>1, PTL

(***************************************************************************)
(* With servers that name a transport, an open stream without a request    *)
(* receives.                                                               *)
(***************************************************************************)
THEOREM IdleReceives == Spec => []IdleStreamsReceive
<1>1. IInv => IdleStreamsReceive
  BY DEF IInv, Talk, SessionHasSink, PlaysInSession, IdleStreamsReceive
<1> QED BY Inductive, <1>1, PTL

(***************************************************************************)
(* The client is a pool of streams: every event of a stream, whatever run  *)
(* of handlers it sets off, opens, plays or ends one stream of the pool or *)
(* leaves the pool as it is, and the process ends with the last stream.    *)
(***************************************************************************)
THEOREM PoolImplementation == Spec => ImplementsStreamPool
<1> DEFINE opened == {s \in Stream : phase[s] # "unopened"}
           playing == {s \in inUse : request[s] = "none"}
<1>1. Init => Pool!Init
  BY DEF Init, Pool!Init, inUse
<1>2. IInv /\ IInv' /\ [Next]_vars => [Pool!Next]_(Pool!vars)
  <2> SUFFICES ASSUME IInv, IInv', [Next]_vars PROVE [Pool!Next]_(Pool!vars)
    OBVIOUS
  <2>1. ASSUME NEW s \in Stream, phase[s] = "open", ~exited, shutdownStream(s)
        PROVE  Pool!End(s)
    <3>1. inUse' = inUse \ {s} /\ (exited' <=> inUse' = {}) /\ s \in inUse
      BY <2>1, ShutdownCounts DEF inUse
    <3>2. opened' = opened /\ playing' = playing \ {s}
      BY <2>1, <3>1 DEF shutdownStream, closeClient, closeSession, IInv, TypeOK, inUse
    <3>3. exited' \in BOOLEAN
      BY DEF IInv, TypeOK
    <3> QED BY <2>1, <3>1, <3>2, <3>3 DEF Pool!End
  <2>2. ASSUME NEW s \in Stream, openURL(s) PROVE Pool!Open(s) \/ Pool!OpenFails(s)
    <3>1. phase[s] = "unopened" /\ ~exited /\ s \notin inUse /\ s \notin opened
      BY <2>2, StreamsAssumption DEF openURL, IInv, TypeOK, OpensInOrder, inUse, Stream
    <3>2. CASE /\ phase' = [phase EXCEPT ![s] = "open"]
               /\ request' = [request EXCEPT ![s] = "DESCRIBE"]
               /\ UNCHANGED exited
      <4>1. inUse' = inUse \cup {s} /\ opened' = opened \cup {s} /\ playing' = playing
        BY <3>1, <3>2 DEF IInv, TypeOK, inUse
      <4> QED BY <3>1, <3>2, <4>1 DEF Pool!Open
    <3>3. CASE /\ phase' = [phase EXCEPT ![s] = "closed"]
               /\ exited' = (rtspClientCount = 0)
               /\ UNCHANGED request
      <4>1. inUse' = inUse /\ opened' = opened \cup {s} /\ playing' = playing
        BY <3>1, <3>3 DEF IInv, TypeOK, inUse
      <4>2. ~exited' <=> inUse # {}
        BY <3>3, UseIsFinite, FS_EmptySet DEF IInv, CountsClients
      <4> QED BY <3>1, <4>1, <4>2 DEF Pool!OpenFails
    <3> QED BY <2>2, <3>2, <3>3 DEF openURL
  <2>3. ASSUME NEW s \in Stream, Played(s) PROVE Pool!Play(s)
    <3>1. phase[s] = "open" /\ ~exited /\ request[s] # "none"
      BY <2>3 DEF Played, awaitsResponse, looping, IInv, ClosedStreamsAreSilent
    <3>2. inUse' = inUse /\ opened' = opened /\ playing' = playing \cup {s} /\ exited' = exited
      BY <2>3, <3>1 DEF Played, IInv, TypeOK, inUse
    <3> QED BY <3>1, <3>2 DEF Pool!Play, inUse
  <2>4. CASE /\ \A s \in Stream : request'[s] = "none" <=> request[s] = "none"
             /\ UNCHANGED <<phase, exited>>
    <3>1. inUse' = inUse /\ opened' = opened
      BY <2>4 DEF inUse
    <3>2. playing' = playing
      BY <2>4, <3>1 DEF inUse
    <3> QED BY <2>4, <3>1, <3>2 DEF Pool!vars
  <2>5. CASE UNCHANGED vars
    BY <2>5 DEF vars, Pool!vars, inUse
  <2>6. CASE Next
    <3>1. PoolStep
      BY <2>6, StepKeeps
    <3> QED BY <2>1, <2>2, <2>3, <2>4, <3>1 DEF PoolStep, Pool!Next
  <2> QED BY <2>5, <2>6
<1> QED BY Inductive, <1>1, <1>2, PTL DEF Spec, ImplementsStreamPool, Pool!Spec
=============================================================================
