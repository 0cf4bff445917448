----------------------------- MODULE RingBuffer -----------------------------
(***************************************************************************)
(* The ring buffer of one channel, between the RTSP client, which appends  *)
(* the frames it receives (DummySink::afterGettingFrame() and              *)
(* readDataToBuff()), and the thread that feeds the decoder                *)
(* (SAMPLE_COMM_VDEC_SendStream()).                                        *)
(*                                                                         *)
(* Neither side ever finds the buffer full.  The reader alone wraps the    *)
(* writer: when it has sent a frame and finds the write index beyond       *)
(* Threshold, it notes the index as the end of the lap and takes it to 0.  *)
(* The mutex is held for each look at and each update of the indices, but  *)
(* not while a frame is searched for and sent.                             *)
(*                                                                         *)
(* A frame is a start code in one cell followed by its payload: cell       *)
(* <<n, k, m>> is the k-th of the n-th frame, of m cells.                  *)
(***************************************************************************)
EXTENDS Integers, FiniteSets

CONSTANTS
    BufSize,      \* BUF_SIZE
    Threshold,    \* 20000000
    MinAvail,     \* 1000
    Sizes,        \* the sizes of frames, start code included
    Lag,          \* assumed: never more than this many frames lie in the buffer
    MaxFrames,    \* bound: the frames received
    MaxSwitches,  \* bound: the operator's layout switches
    IsFirst,      \* TRUE for channel 0, whose windexEndPos follows the mute flags
    IsLast,       \* TRUE for channel 8: pos, bck_not_show and windexEndPos follow
    Damage        \* bound: what a frame written over these leaves there, beside -1

ASSUME SizesAssumption ==
    /\ BufSize \in Nat /\ Threshold \in Nat /\ MinAvail \in Nat
    /\ 0 < MinAvail /\ 0 < Threshold /\ Threshold < BufSize
    /\ Sizes \subseteq Nat \ {0, 1}
    /\ Lag \in Nat /\ MaxFrames \in Nat /\ MaxSwitches \in Nat
    /\ IsFirst \in BOOLEAN /\ IsLast \in BOOLEAN
    /\ Damage \subseteq Nat

VARIABLES
    cells,     \* recv_buf
    w, r,      \* windex, rindex
    endPos,    \* windexEndPos
    flag,      \* bck_not_show: -1 shown, 1 muted
    switches,
    next,      \* the number of frames received
    wpc,       \* the client: "idle", "write", "look" or "clear"
    size,      \* its frame
    rpc,       \* the reader: "wait", "addr", "scan", "send" or "update"
    len, base, \* s32ReadLen, pu8Buf
    sent,      \* history: the last frame handed to the decoder
    whole,     \* history: every frame handed over was whole
    cleared,   \* history: the frames received before the last clear
    spill      \* history: what left the buffer, of "write" and "read"

client == <<wpc, size>>
reader == <<rpc, len, base>>
vars == <<cells, w, r, endPos, flag, switches, next, wpc, size, rpc, len, base,
          sent, whole, cleared, spill>>

\* Mutant: the sum is not taken back into the buffer.
indexAddUnwrapped(a, b) == a + b

indexAdd(a, b) == IF a + b >= BufSize THEN a + b - BufSize ELSE a + b

(* The data between the indices, as the reader computes it under the lock. *)
\* Mutant: the lap is not considered.
AvailOneLap == w - r

Avail == IF w >= r THEN w - r ELSE w + endPos - r

Noise == <<0, 1, 1>>

Init ==
    /\ cells = [i \in 0..BufSize - 1 |-> Noise]
    /\ w = 0 /\ r = 0 /\ endPos = BufSize
    /\ flag = -1 /\ switches = 0
    /\ next = 0 /\ wpc = "idle" /\ size = 0
    /\ rpc = "wait" /\ len = 0 /\ base = 0
    /\ sent = 0 /\ whole = TRUE /\ cleared = 0 /\ spill = {}

(***************************************************************************)
(* The client.  It looks at the mute flag without the lock, twice if the   *)
(* first look does not find -1.                                            *)
(***************************************************************************)
Arrive(n) ==
    /\ wpc = "idle" /\ next < MaxFrames
    /\ size' = n
    /\ wpc' = IF flag = -1 THEN "write" ELSE "look"
    /\ UNCHANGED <<cells, w, r, endPos, flag, switches, next, reader, sent, whole, cleared, spill>>

Look ==
    /\ wpc = "look"
    /\ wpc' = IF flag = 1 THEN "clear" ELSE "idle"
    /\ UNCHANGED <<cells, w, r, endPos, flag, switches, next, size, reader, sent, whole, cleared, spill>>

(* The frames in the buffer, the one being sent included: Lag bounds them. *)
Behind == next - (IF sent > cleared THEN sent ELSE cleared)
               + (IF rpc = "update" THEN 1 ELSE 0)

(* readDataToBuff(): the start code, then the payload, without looking at  *)
(* the read index or at the end of the buffer.  What runs past the end     *)
(* lands in the next channel's buffer, and for the last channel in the     *)
(* cursor, the mute flags and the lap ends; the index goes back by one     *)
(* buffer, which a larger frame leaves outside.                            *)
Write ==
    LET w2    == indexAdd(w, 1)
        to(i) == IF i = 0 THEN w ELSE w2 + i - 1
        over  == w2 + size - 1 > BufSize
    IN
    /\ wpc = "write" /\ Behind < Lag
    /\ cells' = [c \in DOMAIN cells |->
                    IF \E i \in 0..size - 1 : to(i) = c
                    THEN LET k == CHOOSE i \in 0..size - 1 : to(i) = c
                         IN  <<next + 1, k, size>>
                    ELSE cells[c]]
    /\ spill' = spill \cup (IF over THEN {"write"} ELSE {})
    /\ IF over /\ IsLast THEN flag' \in Damage \cup {-1} /\ endPos' \in Damage \cup {-1}
                         ELSE UNCHANGED <<flag, endPos>>
    /\ w' = indexAdd(w2, size - 1)
    /\ next' = next + 1
    /\ wpc' = "idle"
    /\ UNCHANGED <<r, switches, size, reader, sent, whole, cleared>>

Clear ==
    /\ wpc = "clear"
    /\ w' = 0 /\ r' = 0
    /\ cleared' = next
    /\ wpc' = "idle"
    /\ UNCHANGED <<cells, endPos, flag, switches, next, size, reader, sent, whole, spill>>

(***************************************************************************)
(* The operator's switches: response_command() writes the flags, and one   *)
(* word more.                                                              *)
(***************************************************************************)
SwitchLayout(f) ==
    /\ switches < MaxSwitches
    /\ switches' = switches + 1
    /\ flag' = f
    /\ endPos' = IF IsFirst THEN -1 ELSE endPos
    /\ UNCHANGED <<cells, w, r, next, client, reader, sent, whole, cleared, spill>>

(***************************************************************************)
(* The reader.                                                             *)
(***************************************************************************)
Wait ==
    /\ rpc = "wait"
    /\ Avail >= MinAvail
    /\ len' = Avail
    /\ rpc' = "addr"
    /\ UNCHANGED <<cells, w, r, endPos, flag, switches, next, client, base, sent, whole, cleared, spill>>

Addr ==
    /\ rpc = "addr"
    /\ base' = r
    /\ rpc' = "scan"
    /\ UNCHANGED <<cells, w, r, endPos, flag, switches, next, client, len, sent, whole, cleared, spill>>

(* What lies at position i of the memory from pu8Buf on; behind the buffer *)
(* is the next channel's, or the rest of MESSAGE.                          *)
At(i) == IF base + i < BufSize THEN cells[base + i] ELSE Noise

IsStart(i) == At(i)[2] = 0

(* The second start code from pu8Buf on, or all there is.                  *)
SecondStart(j) == IsStart(j) /\ Cardinality({i \in 0..j - 1 : IsStart(i)}) = 1

\* Mutant: one cell short of the next start code.
FrameEndShort == IF \E j \in 1..len - 1 : SecondStart(j)
                 THEN (CHOOSE j \in 1..len - 1 : SecondStart(j)) - 1
                 ELSE len

FrameEnd == IF \E j \in 1..len - 1 : SecondStart(j)
            THEN CHOOSE j \in 1..len - 1 : SecondStart(j)
            ELSE len

Scan ==
    /\ rpc = "scan"
    /\ len' = FrameEnd
    /\ spill' = spill \cup (IF base + len > BufSize THEN {"read"} ELSE {})
    /\ rpc' = "send"
    /\ UNCHANGED <<cells, w, r, endPos, flag, switches, next, client, base, sent, whole, cleared>>

(* HI_MPI_VDEC_SendStream(), retried until the decoder takes the data.     *)
Send ==
    /\ rpc = "send"
    /\ sent' = At(0)[1]
    /\ whole' = (whole /\ At(0)[3] <= len
                       /\ \A i \in 0..At(0)[3] - 1 : At(i) = <<At(0)[1], i, At(0)[3]>>)
    /\ rpc' = "update"
    /\ UNCHANGED <<cells, w, r, endPos, flag, switches, next, client, len, base, cleared, spill>>

(* The writer is wrapped, the lap's end noted, and the reader wrapped when *)
(* it has read up to that end.  The comparison is of unsigned integers.    *)
\* Mutants: wrap only when the buffer is full; note the end after the reset;
\* compare the read index before the read.
WrapsWhenFull  == w >= BufSize - 1
EndAfterReset  == IF w >= Threshold THEN 0 ELSE endPos
NextReadOld(e) == IF e # -1 /\ r >= e THEN 0 ELSE indexAdd(r, len)

Wraps       == w >= Threshold
LapEnd      == IF Wraps THEN w ELSE endPos
NextRead(e) == IF e # -1 /\ indexAdd(r, len) >= e THEN 0 ELSE indexAdd(r, len)

Update ==
    /\ rpc = "update"
    /\ w' = IF Wraps THEN 0 ELSE w
    /\ endPos' = LapEnd
    /\ r' = NextRead(LapEnd)
    /\ rpc' = "wait"
    /\ UNCHANGED <<cells, flag, switches, next, client, len, base, sent, whole, cleared, spill>>

Read == Wait \/ Addr \/ Scan \/ Send \/ Update

Next ==
    \/ \E n \in Sizes : Arrive(n)
    \/ Look \/ Write \/ Clear
    \/ \E f \in {-1, 1} : SwitchLayout(f)
    \/ Read

Spec == Init /\ [][Next]_vars

(***************************************************************************)
(* The reader's thread runs on: its loop polls, and the decoder takes the  *)
(* data after finitely many retries.                                       *)
(***************************************************************************)
FairSpec == Spec /\ WF_vars(Read)
-----------------------------------------------------------------------------
\* The types; and as long as no frame was written past the end, the indices lie
\* in the buffer, however far the reader is behind, wherever a clear or the -1
\* of a switch catches it (do_switch.c:1119, testRTSPClient.cpp:735).
Inside ==
    /\ w \in 0..BufSize - 1 /\ r \in 0..BufSize - 1 /\ base \in 0..BufSize - 1
    /\ endPos \in -1..BufSize
    /\ flag \in {-1, 1}

TypeOK ==
    /\ cells \in [0..BufSize - 1 -> Nat \X Nat \X Nat]
    /\ w \in Nat /\ r \in Nat /\ base \in Nat
    /\ endPos \in Nat \cup {-1} /\ flag \in Nat \cup {-1}
    /\ spill \subseteq {"write", "read"}
    /\ "write" \notin spill => Inside
    /\ switches \in 0..MaxSwitches
    /\ next \in 0..MaxFrames
    /\ wpc \in {"idle", "write", "look", "clear"}
    /\ size \in {0} \cup Sizes
    /\ rpc \in {"wait", "addr", "scan", "send", "update"}
    /\ len \in Nat
    /\ sent \in 0..MaxFrames /\ cleared \in 0..MaxFrames
    /\ whole \in BOOLEAN

(***************************************************************************)
(* No memcpy runs past the end of recv_buf[i] and no scan reads past it,   *)
(* although neither side checks: the wrap at Threshold leaves room.        *)
(***************************************************************************)
StaysInBuffer == spill = {}

(***************************************************************************)
(* Every frame handed to the decoder is whole: none of it was overwritten  *)
(* while the reader searched and sent without the lock.                    *)
(***************************************************************************)
SendsWholeFrames == whole

(***************************************************************************)
(* What the reader measures under the lock is what it has not yet had: the *)
(* Avail cells from the read index on, going round at the end of the lap,  *)
(* are the frames behind, complete, in order and with nothing between.     *)
(***************************************************************************)
DataInOrder ==
    LET at(i) == IF w < r /\ r + i >= endPos THEN r + i - endPos ELSE r + i
        follows(b, a) == \/ a[2] + 1 < a[3] /\ b = <<a[1], a[2] + 1, a[3]>>
                         \/ a[2] + 1 = a[3] /\ b[1] = a[1] + 1 /\ b[2] = 0
    IN  IF Behind = 0 THEN Avail = 0
        ELSE /\ Avail > 0
             /\ \A i \in 0..Avail - 1 : at(i) \in DOMAIN cells
             /\ cells[at(0)][1] = next - Behind + 1 /\ cells[at(0)][2] = 0
             /\ \A i \in 1..Avail - 1 : follows(cells[at(i)], cells[at(i - 1)])
             /\ LET last == cells[at(Avail - 1)] IN last[1] = next /\ last[2] + 1 = last[3]

(***************************************************************************)
(* The buffer is a queue.                                                  *)
(***************************************************************************)
Queue == INSTANCE FrameQueue WITH received <- next, decoded <- sent

ImplementsFrameQueue == Queue!Spec

(***************************************************************************)
(* Frames do not lie in the buffer for good: each is sent once as many     *)
(* have come after it as make up MinAvail cells (a frame has at least two).*)
(***************************************************************************)
FramesGetOut == \A n \in 1..MaxFrames : next >= n + MinAvail \div 2 ~> sent >= n
=============================================================================
