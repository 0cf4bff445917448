--------------------------- MODULE MCDisplaySwitch --------------------------
(***************************************************************************)
(* DisplaySwitch with one key at a time: a key is pressed when the handler *)
(* of the last one has returned.                                           *)
(***************************************************************************)
EXTENDS DisplaySwitch, TLC

OneAtATime ==
    \/ \E h \in Handlers : Step(h)
    \/ /\ \A h \in Handlers : ~Active(h)
       /\ \E h \in Handlers : \E k \in Keys[h] : Press(h, k)

OneAtATimeSpec == Init /\ [][OneAtATime]_vars

\* One run of a handler at a time per device, named for the device.
ByDevice == [h \in Handlers |-> h]

\* The whole remote, and of the panel the two keys the remote does not have:
\* anticlockwise and clockwise.
AllKeys == "iic" :> 0..11 @@ "key" :> {130, 131}

\* The remote alone.
RemoteKeys == "iic" :> 0..11

\* Moving left; the panel's clockwise key; with the camera and all-screens keys.
LeftKey      == "iic" :> {3}
ClockwiseKey == "key" :> {131}
CameraKeys   == "key" :> {131, 132}
AllKey       == "key" :> {133}
=============================================================================
