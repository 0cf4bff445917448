----------------------------- MODULE RtspClient -----------------------------
(***************************************************************************)
(* The RTSP client (testRTSPClient.cpp) on the event loop of live555: one  *)
(* thread opens the streams and then answers whatever the loop delivers,   *)
(* a connection made or lost, a response, an RTCP BYE, a timer.            *)
(*                                                                         *)
(* A command is answered later by a call of its handler, or at once, from  *)
(* within sendRequest(), when it cannot be sent: a handler may thus run    *)
(* through all the remaining commands of a stream, down to its end and the *)
(* end of the process, before it returns.  An action is one such run.      *)
(***************************************************************************)
EXTENDS Integers, FiniteSets

CONSTANTS
    NStreams,   \* VDEC_DECODE_CHN
    MaxSubs,    \* bound: the subsessions ("m=" lines) of a session
    LaxServer   \* a server may answer SETUP with a session but no transport

ASSUME StreamsAssumption ==
    /\ NStreams \in Nat \ {0} /\ MaxSubs \in Nat \ {0}
    /\ LaxServer \in BOOLEAN

Stream == 1..NStreams

VARIABLES
    opening,           \* the stream openall() opens next
    phase,             \* "unopened", "open" or "closed" (client deleted)
    conn,              \* the TCP connection: "down", "pending" or "up"
    request,           \* the command that awaits the connection or a response
    subs,              \* the subsessions of scs.session, 0 if it is NULL
    subsession,        \* the one SETUP is for
    inSession,         \* fLastSessionId is set
    sinks,             \* the subsessions with a sink
    byes,              \* the subsessions with a BYE handler
    timer,             \* streamTimerTask is scheduled
    rtspClientCount,
    exited             \* exit() was called

vars == <<opening, phase, conn, request, subs, subsession, inSession, sinks, byes,
          timer, rtspClientCount, exited>>

TypeOK ==
    /\ opening \in 1..NStreams + 1
    /\ phase \in [Stream -> {"unopened", "open", "closed"}]
    /\ conn \in [Stream -> {"down", "pending", "up"}]
    /\ request \in [Stream -> {"none", "DESCRIBE", "SETUP", "PLAY"}]
    /\ subs \in [Stream -> 0..MaxSubs]
    /\ subsession \in [Stream -> 0..MaxSubs]
    /\ inSession \in [Stream -> BOOLEAN]
    /\ sinks \in [Stream -> SUBSET (1..MaxSubs)]
    /\ byes \in [Stream -> SUBSET (1..MaxSubs)]
    /\ timer \in [Stream -> BOOLEAN]
    /\ rtspClientCount \in 0..NStreams
    /\ exited \in BOOLEAN

Init ==
    /\ opening = 1
    /\ phase = [s \in Stream |-> "unopened"]
    /\ conn = [s \in Stream |-> "down"]
    /\ request = [s \in Stream |-> "none"]
    /\ subs = [s \in Stream |-> 0]
    /\ subsession = [s \in Stream |-> 0]
    /\ inSession = [s \in Stream |-> FALSE]
    /\ sinks = [s \in Stream |-> {}]
    /\ byes = [s \in Stream |-> {}]
    /\ timer = [s \in Stream |-> FALSE]
    /\ rtspClientCount = 0
    /\ exited = FALSE

(***************************************************************************)
(* sendRequest() with the connection in state c.  A connection that is     *)
(* down is opened, which may take effect at once; a pending one leaves the *)
(* command in a queue, unchecked.  PLAY is refused without a session       *)
(* (setRequestFields()).                                                   *)
(***************************************************************************)
\* Mutant: setRequestFields() does not look for a session.
FieldsUnchecked(cmd, session) == TRUE

FieldsOK(cmd, session) == cmd = "PLAY" => session

\* The states of the connection in which the command then awaits its handler.
Sent(cmd, c, session) ==
    CASE c = "pending" -> {"pending"}
      [] c = "up"      -> {d \in {"up"} : FieldsOK(cmd, session)}
      [] c = "down"    -> {"pending"} \cup {d \in {"up"} : FieldsOK(cmd, session)}

(***************************************************************************)
(* shutdownStream().  TEARDOWN has no handler and goes with the client's   *)
(* queues; ~StreamClientState() closes the session and unschedules the     *)
(* timer, ~RTSPClient() closes the connection.                             *)
(***************************************************************************)
closeSession(s) ==
    /\ phase' = [phase EXCEPT ![s] = "closed"]
    /\ conn' = [conn EXCEPT ![s] = "down"]
    /\ request' = [request EXCEPT ![s] = "none"]
    /\ subs' = [subs EXCEPT ![s] = 0]
    /\ subsession' = [subsession EXCEPT ![s] = 0]
    /\ inSession' = [inSession EXCEPT ![s] = FALSE]
    /\ sinks' = [sinks EXCEPT ![s] = {}]
    /\ byes' = [byes EXCEPT ![s] = {}]

\* Mutant: the timer stays scheduled.
closeClientNotTimer(s) == closeSession(s) /\ UNCHANGED timer

closeClient(s) == closeSession(s) /\ timer' = [timer EXCEPT ![s] = FALSE]

\* Mutant: the last but one stream ends the process.
shutdownStreamEarly(s) ==
    /\ closeClient(s)
    /\ rtspClientCount' = rtspClientCount - 1
    /\ exited' = (rtspClientCount' <= 1)
    /\ UNCHANGED opening

shutdownStream(s) ==
    /\ closeClient(s)
    /\ rtspClientCount' = rtspClientCount - 1
    /\ exited' = (rtspClientCount' = 0)
    /\ UNCHANGED opening

(***************************************************************************)
(* openURL(): the client is counted before DESCRIBE is sent, whose handler *)
(* may end it at once.                                                     *)
(***************************************************************************)
\* Mutant: a client whose DESCRIBE failed is counted as well.
openURLCountedLate(s) ==
    /\ opening = s /\ ~exited
    /\ opening' = s + 1
    /\ rtspClientCount' = rtspClientCount + 1
    /\ \/ /\ phase' = [phase EXCEPT ![s] = "open"]
          /\ request' = [request EXCEPT ![s] = "DESCRIBE"]
          /\ \E c \in Sent("DESCRIBE", "down", FALSE) : conn' = [conn EXCEPT ![s] = c]
          /\ UNCHANGED exited
       \/ /\ phase' = [phase EXCEPT ![s] = "closed"]
          /\ exited' = (rtspClientCount = 1)
          /\ UNCHANGED <<conn, request>>
    /\ UNCHANGED <<subs, subsession, inSession, sinks, byes, timer>>

openURL(s) ==
    /\ opening = s /\ ~exited
    /\ opening' = s + 1
    /\ \/ /\ phase' = [phase EXCEPT ![s] = "open"]
          /\ request' = [request EXCEPT ![s] = "DESCRIBE"]
          /\ \E c \in Sent("DESCRIBE", "down", FALSE) : conn' = [conn EXCEPT ![s] = c]
          /\ rtspClientCount' = rtspClientCount + 1
          /\ UNCHANGED exited
       \/ /\ phase' = [phase EXCEPT ![s] = "closed"]
          /\ exited' = (rtspClientCount = 0)
          /\ UNCHANGED <<conn, request, rtspClientCount>>
    /\ UNCHANGED <<subs, subsession, inSession, sinks, byes, timer>>

(***************************************************************************)
(* setupNextSubsession() from subsession k of n on: a SETUP for one of the *)
(* rest, the ones before it could not be initiated or their SETUP not be   *)
(* sent, or else PLAY.  If PLAY cannot be sent the stream ends.            *)
(***************************************************************************)
\* Mutant: a SETUP for one subsession more than the session has.
nextRequestPast(s, k, n, c, session) ==
    /\ \/ \E j \in k + 1..n + 1, d \in Sent("SETUP", c, session) :
             /\ request' = [request EXCEPT ![s] = "SETUP"]
             /\ subsession' = [subsession EXCEPT ![s] = j]
             /\ conn' = [conn EXCEPT ![s] = d]
       \/ \E d \in Sent("PLAY", c, session) :
             /\ request' = [request EXCEPT ![s] = "PLAY"]
             /\ subsession' = [subsession EXCEPT ![s] = 0]
             /\ conn' = [conn EXCEPT ![s] = d]
    /\ UNCHANGED <<opening, phase, timer, rtspClientCount, exited>>

\* Mutant: the iterator is not advanced.
nextRequestAgain(s, k, n, c, session) ==
    /\ \/ \E j \in (k..n) \ {0}, d \in Sent("SETUP", c, session) :
             /\ request' = [request EXCEPT ![s] = "SETUP"]
             /\ subsession' = [subsession EXCEPT ![s] = j]
             /\ conn' = [conn EXCEPT ![s] = d]
       \/ \E d \in Sent("PLAY", c, session) :
             /\ request' = [request EXCEPT ![s] = "PLAY"]
             /\ subsession' = [subsession EXCEPT ![s] = 0]
             /\ conn' = [conn EXCEPT ![s] = d]
    /\ UNCHANGED <<opening, phase, timer, rtspClientCount, exited>>

nextRequest(s, k, n, c, session) ==
    /\ \/ \E j \in k + 1..n, d \in Sent("SETUP", c, session) :
             /\ request' = [request EXCEPT ![s] = "SETUP"]
             /\ subsession' = [subsession EXCEPT ![s] = j]
             /\ conn' = [conn EXCEPT ![s] = d]
       \/ \E d \in Sent("PLAY", c, session) :
             /\ request' = [request EXCEPT ![s] = "PLAY"]
             /\ subsession' = [subsession EXCEPT ![s] = 0]
             /\ conn' = [conn EXCEPT ![s] = d]
    /\ UNCHANGED <<opening, phase, timer, rtspClientCount, exited>>

(***************************************************************************)
(* The handler of the request is called with an error, with the connection *)
(* in state c.                                                             *)
(***************************************************************************)
requestError(s, c) ==
    \/ shutdownStream(s)
    \/ /\ request[s] = "SETUP"
       /\ nextRequest(s, subsession[s], subs[s], c, inSession[s])
       /\ UNCHANGED <<subs, inSession, sinks, byes>>

-----------------------------------------------------------------------------
(***************************************************************************)
(* The event loop, which runs when openall() has opened every stream.      *)
(***************************************************************************)
looping == opening > NStreams /\ ~exited

\* connectionHandler1(), connected: the waiting command is sent.
Connected(s) ==
    /\ looping /\ conn[s] = "pending"
    /\ \/ /\ "up" \in Sent(request[s], "up", inSession[s])
          /\ conn' = [conn EXCEPT ![s] = "up"]
          /\ UNCHANGED <<opening, phase, request, subs, subsession, inSession, sinks,
                         byes, timer, rtspClientCount, exited>>
       \/ requestError(s, "up")

\* connectionHandler1(), not connected.
ConnectFails(s) ==
    /\ looping /\ conn[s] = "pending"
    /\ requestError(s, "down")

\* handleResponseBytes(): the connection broke, or was closed.
ConnectionLost(s) ==
    /\ looping /\ conn[s] = "up"
    /\ \/ request[s] # "none" /\ requestError(s, "down")
       \/ /\ request[s] = "none"
          /\ conn' = [conn EXCEPT ![s] = "down"]
          /\ UNCHANGED <<opening, phase, request, subs, subsession, inSession, sinks,
                         byes, timer, rtspClientCount, exited>>

awaitsResponse(s) == looping /\ conn[s] = "up" /\ request[s] # "none"

(***************************************************************************)
(* handleResponseBytes() with a response, after which the connection is in *)
(* state c: a response may carry "Connection: Close".                      *)
(***************************************************************************)
\* 401 with a password left to try, 301 or 302 (to a new connection).
SendAgain(s) ==
    /\ awaitsResponse(s)
    /\ \E c \in {"up", "down"} :
          \/ /\ \E d \in Sent(request[s], c, inSession[s]) : conn' = [conn EXCEPT ![s] = d]
             /\ UNCHANGED <<opening, phase, request, subs, subsession, inSession, sinks,
                            byes, timer, rtspClientCount, exited>>
          \/ requestError(s, c)

\* Another response code, or a 200 live555 cannot use.
Refused(s) ==
    /\ awaitsResponse(s)
    /\ \E c \in {"up", "down"} : requestError(s, c)

\* continueAfterDESCRIBE()
Described(s) ==
    /\ awaitsResponse(s) /\ request[s] = "DESCRIBE"
    /\ \/ \E n \in 1..MaxSubs, c \in {"up", "down"} :
             /\ subs' = [subs EXCEPT ![s] = n]
             /\ nextRequest(s, 0, n, c, FALSE)
             /\ UNCHANGED <<inSession, sinks, byes>>
       \/ shutdownStream(s)

\* continueAfterSETUP()
SetUp(s) ==
    /\ awaitsResponse(s) /\ request[s] = "SETUP"
    /\ \/ /\ inSession' = [inSession EXCEPT ![s] = TRUE]
          /\ \E c \in {"up", "down"} : nextRequest(s, subsession[s], subs[s], c, TRUE)
          /\ \/ /\ sinks' = [sinks EXCEPT ![s] = @ \cup {subsession[s]}]
                /\ byes' = [byes EXCEPT ![s] = @ \cup {subsession[s]}]
             \/ LaxServer /\ UNCHANGED <<sinks, byes>>
          /\ UNCHANGED subs
       \/ shutdownStream(s)

\* continueAfterPLAY()
Played(s) ==
    /\ awaitsResponse(s) /\ request[s] = "PLAY"
    /\ request' = [request EXCEPT ![s] = "none"]
    /\ \E c \in {"up", "down"} : conn' = [conn EXCEPT ![s] = c]
    /\ \E timed \in BOOLEAN : timer' = [timer EXCEPT ![s] = timed]
    /\ UNCHANGED <<opening, phase, subs, subsession, inSession, sinks, byes,
                   rtspClientCount, exited>>

\* Mutant: the stream stays open when its last subsession ends.
subsessionAfterPlayingOnly(s, i) ==
    /\ sinks' = [sinks EXCEPT ![s] = @ \ {i}]
    /\ byes' = [byes EXCEPT ![s] = @ \ {i}]
    /\ UNCHANGED <<opening, phase, conn, request, subs, subsession, inSession, timer,
                   rtspClientCount, exited>>

\* subsessionAfterPlaying(): the stream ends with the last sink, also when a
\* later subsession is still being set up.
subsessionAfterPlaying(s, i) ==
    \/ /\ sinks[s] \ {i} # {}
       /\ sinks' = [sinks EXCEPT ![s] = @ \ {i}]
       /\ byes' = [byes EXCEPT ![s] = @ \ {i}]
       /\ UNCHANGED <<opening, phase, conn, request, subs, subsession, inSession, timer,
                      rtspClientCount, exited>>
    \/ sinks[s] \ {i} = {} /\ shutdownStream(s)

\* subsessionByeHandler(), called once
Bye(s) == looping /\ \E i \in byes[s] : subsessionAfterPlaying(s, i)

\* streamTimerHandler()
TimerFires(s) == looping /\ timer[s] /\ shutdownStream(s)

Next ==
    \E s \in Stream :
        \/ openURL(s)
        \/ Connected(s) \/ ConnectFails(s) \/ ConnectionLost(s)
        \/ SendAgain(s) \/ Refused(s) \/ Described(s) \/ SetUp(s) \/ Played(s)
        \/ Bye(s) \/ TimerFires(s)

Spec == Init /\ [][Next]_vars

(***************************************************************************)
(* connect() ends one way or the other, and a camera that is asked again   *)
(* and again comes to an answer that live555 does not answer with the same *)
(* command: it does not redirect or ask for a password for ever.           *)
(***************************************************************************)
Answered(s) == Refused(s) \/ Described(s) \/ SetUp(s) \/ Played(s)

FairSpec ==
    /\ Spec
    /\ \A s \in Stream : /\ WF_vars(openURL(s))
                         /\ WF_vars(Connected(s) \/ ConnectFails(s))
                         /\ SF_vars(Answered(s))

-----------------------------------------------------------------------------
inUse == {s \in Stream : phase[s] = "open"}

\* The count by which the process decides to exit is the number of clients
\* in use, also while a handler that fails at once ends a client that
\* openURL() has not returned from (testRTSPClient.cpp:228, 562).
CountsClients == rtspClientCount = Cardinality(inUse)

\* Nothing is left to call a handler with a client that has been deleted: no
\* request, no timer, no BYE (testRTSPClient.cpp:543, 603).
ClosedStreamsAreSilent ==
    \A s \in Stream : phase[s] # "open" =>
        request[s] = "none" /\ byes[s] = {} /\ ~timer[s] /\ conn[s] = "down"

\* PLAY is never sent for a stream of which nothing was set up
\* (testRTSPClient.cpp:344, RTSPClient.cpp:800), if servers that accept SETUP
\* name a transport.
PlaysWhatItSetUp ==
    ~LaxServer => \A s \in Stream :
        request[s] = "PLAY" /\ conn[s] = "up" => sinks[s] # {}

\* An open stream that waits for no response has a sink that receives: it can
\* still end, and with it the process (testRTSPClient.cpp:341, 457), under the
\* same condition.
IdleStreamsReceive ==
    ~LaxServer => \A s \in Stream :
        phase[s] = "open" /\ request[s] = "none" => sinks[s] # {}

\* The client is a pool of streams.
Pool == INSTANCE StreamPool WITH
    opened  <- {s \in Stream : phase[s] # "unopened"},
    live    <- inUse,
    playing <- {s \in inUse : request[s] = "none"},
    running <- ~exited

ImplementsStreamPool == Pool!Spec

\* No stream stays half open: it comes to play, or it ends, unless the process
\* does first.
StreamsSettle ==
    \A s \in Stream :
        phase[s] = "open" ~> exited \/ phase[s] = "closed" \/ request[s] = "none"
=============================================================================
