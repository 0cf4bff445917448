----------------------------- MODULE StreamPool -----------------------------
(***************************************************************************)
(* What the RTSP client promises the player: streams are opened one after  *)
(* the other, each for once, deliver pictures for a while and end.  The    *)
(* process runs as long as some stream is in use; when one ends and leaves *)
(* none behind it exits, even before the others have been opened.          *)
(***************************************************************************)
CONSTANT Stream

VARIABLES
    opened,    \* the streams opened so far
    live,      \* those in use
    playing,   \* those that deliver pictures
    running    \* the process has not exited

vars == <<opened, live, playing, running>>

Init ==
    /\ opened = {} /\ live = {} /\ playing = {}
    /\ running = TRUE

Open(s) ==
    /\ running /\ s \notin opened
    /\ opened' = opened \cup {s}
    /\ live' = live \cup {s}
    /\ UNCHANGED <<playing, running>>

\* A stream that cannot be opened ends at once.
OpenFails(s) ==
    /\ running /\ s \notin opened
    /\ opened' = opened \cup {s}
    /\ running' = (live # {})
    /\ UNCHANGED <<live, playing>>

Play(s) ==
    /\ running /\ s \in live \ playing
    /\ playing' = playing \cup {s}
    /\ UNCHANGED <<opened, live, running>>

End(s) ==
    /\ running /\ s \in live
    /\ live' = live \ {s}
    /\ playing' = playing \ {s}
    /\ running' = (live' # {})
    /\ UNCHANGED opened

Next == \E s \in Stream : Open(s) \/ OpenFails(s) \/ Play(s) \/ End(s)

Spec == Init /\ [][Next]_vars
=============================================================================
