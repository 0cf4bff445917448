-------------------------- MODULE RingBuffer_proofs -------------------------
(***************************************************************************)
(* Theorems about RingBuffer.  The first is about its types, and about its *)
(* indices until a frame is written past the end; it needs nothing.  The   *)
(* others are for a reader that keeps up and a channel whose layout does   *)
(* not change: every frame has at most s cells, and LagFits(s) says that   *)
(* the lag fits the buffer, before and behind the threshold.               *)
(***************************************************************************)
EXTENDS RingLap_proofs

\* The sum of an index and a length of at most two laps is an index.
LEMMA IndexAddInBuffer ==
    ASSUME NEW a \in Nat, NEW b \in Nat, a + b < 2 * BufSize
    PROVE  indexAdd(a, b) \in 0..BufSize - 1
BY SizesAssumption DEF indexAdd

\* The sum of an index outside the buffer and a length is still an offset.
LEMMA IndexAddNat ==
    ASSUME NEW a \in Nat, NEW b \in Nat
    PROVE  indexAdd(a, b) \in Nat
BY SizesAssumption DEF indexAdd

\* The search for the next start code ends within the data.
LEMMA FrameEndBounded ==
    ASSUME len \in Nat
    PROVE  FrameEnd \in 0..len
BY DEF FrameEnd

(***************************************************************************)
(* The inductive invariant.  Beside the types: the cells hold frames that  *)
(* were received; the client only writes when a frame is due; and from the *)
(* moment the reader has measured the data until it updates the indices,   *)
(* read index and length stay below two laps, because only the reader or a *)
(* clear moves the read index.  The last holds until a frame is written    *)
(* past the end.                                                           *)
(***************************************************************************)
CellsReceived == \A i \in 0..BufSize - 1 : cells[i][1] <= next

IInv ==
    /\ TypeOK
    /\ CellsReceived
    /\ wpc = "write" => next < MaxFrames /\ size \in Sizes
    /\ "write" \notin spill => (rpc # "wait" => r + len < 2 * BufSize)

LEMMA InitTyped == Init => IInv
<1> USE SizesAssumption
<1> SUFFICES ASSUME Init PROVE IInv
  OBVIOUS
<1>1. cells \in [0..BufSize - 1 -> Nat \X Nat \X Nat] /\ CellsReceived
  BY DEF Init, Noise, CellsReceived
<1>2. Inside
  BY DEF Init, Inside
<1>3. w \in Nat /\ r \in Nat /\ base \in Nat /\ endPos \in Nat \cup {-1}
  BY DEF Init
<1>4. switches \in 0..MaxSwitches /\ next \in 0..MaxFrames /\ sent \in 0..MaxFrames /\ cleared \in 0..MaxFrames
  BY DEF Init
<1>5. flag \in Nat \cup {-1} /\ size \in {0} \cup Sizes /\ len \in Nat
  BY DEF Init
<1>6. whole \in BOOLEAN /\ spill \subseteq {"write", "read"}
  BY DEF Init
<1>7. wpc = "idle" /\ rpc = "wait"
  BY DEF Init
<1> QED BY <1>1, <1>2, <1>3, <1>4, <1>5, <1>6, <1>7 DEF IInv, TypeOK

LEMMA StepTyped == IInv /\ [Next]_vars => IInv'
<1> USE SizesAssumption
<1> SUFFICES ASSUME IInv, [Next]_vars PROVE IInv'
  OBVIOUS
<1>1. ASSUME NEW n \in Sizes, Arrive(n) PROVE IInv'
  BY <1>1 DEF Arrive, reader, IInv, TypeOK, Inside, CellsReceived
<1>2. ASSUME Look PROVE IInv'
  BY <1>2 DEF Look, reader, IInv, TypeOK, Inside, CellsReceived
<1>3. ASSUME Write PROVE IInv'
  <2>1. next < MaxFrames /\ size \in Nat /\ size >= 2
    <3>1. next < MaxFrames /\ size \in Sizes
      BY <1>3 DEF Write, IInv
    <3> QED BY <3>1
  <2>2. indexAdd(w, 1) \in Nat /\ size - 1 \in Nat /\ w' \in Nat
    <3>1. indexAdd(w, 1) \in Nat
      <4>1. w \in Nat /\ 1 \in Nat
        BY DEF IInv, TypeOK
      <4> QED BY <4>1, IndexAddNat
    <3>3. size - 1 \in Nat
      BY <2>1
    <3>2. w' = indexAdd(indexAdd(w, 1), size - 1)
      BY <1>3 DEF Write
    <3> QED BY <3>1, <3>2, <3>3, IndexAddNat
  <2>3. "write" \notin spill' => /\ "write" \notin spill
                                /\ w' \in 0..BufSize - 1
                                /\ UNCHANGED <<flag, endPos>>
    <3> SUFFICES ASSUME "write" \notin spill'
                 PROVE  /\ "write" \notin spill /\ w' \in 0..BufSize - 1
                        /\ UNCHANGED <<flag, endPos>>
      OBVIOUS
    <3>1. "write" \notin spill /\ ~(indexAdd(w, 1) + size - 1 > BufSize)
      BY <1>3 DEF Write
    <3>2. indexAdd(w, 1) + (size - 1) < 2 * BufSize
      BY <2>1, <2>2, <3>1
    <3>3. indexAdd(indexAdd(w, 1), size - 1) \in 0..BufSize - 1
      BY <2>2, <3>2, IndexAddInBuffer
    <3> QED BY <1>3, <3>1, <3>3 DEF Write
  <2>4. cells' \in [0..BufSize - 1 -> Nat \X Nat \X Nat] /\ CellsReceived'
    <3> DEFINE to(i) == IF i = 0 THEN w ELSE indexAdd(w, 1) + i - 1
               k(c)  == CHOOSE i \in 0..size - 1 : to(i) = c
    <3>1. cells' = [c \in DOMAIN cells |-> IF \E i \in 0..size - 1 : to(i) = c
                                           THEN <<next + 1, k(c), size>>
                                           ELSE cells[c]]
      BY <1>3 DEF Write
    <3>2. \A c : (\E i \in 0..size - 1 : to(i) = c) => k(c) \in 0..size - 1
      <4> SUFFICES ASSUME NEW c, \E i \in 0..size - 1 : to(i) = c
                   PROVE  k(c) \in 0..size - 1
        OBVIOUS
      <4> HIDE DEF to
      <4> QED OBVIOUS
    <3> HIDE DEF to, k
    <3>3. \A c \in 0..BufSize - 1 :
            cells'[c] \in Nat \X Nat \X Nat /\ cells'[c][1] <= next + 1
      <4> SUFFICES ASSUME NEW c \in 0..BufSize - 1
                   PROVE  cells'[c] \in Nat \X Nat \X Nat /\ cells'[c][1] <= next + 1
        OBVIOUS
      <4>1. c \in DOMAIN cells /\ cells[c] \in Nat \X Nat \X Nat /\ cells[c][1] <= next
            /\ next \in Nat
        BY DEF IInv, TypeOK, Inside, CellsReceived
      <4>2. CASE \E i \in 0..size - 1 : to(i) = c
        <5>1. cells'[c] = <<next + 1, k(c), size>>
          BY <3>1, <4>1, <4>2
        <5>2. k(c) \in Nat /\ size \in Nat
          BY <2>1, <3>2, <4>2
        <5> QED BY <4>1, <5>1, <5>2
      <4>3. CASE ~ \E i \in 0..size - 1 : to(i) = c
        BY <3>1, <4>1, <4>3
      <4> QED BY <4>2, <4>3
    <3>4. cells' = [c \in 0..BufSize - 1 |-> cells'[c]]
      BY <3>1 DEF IInv, TypeOK, Inside
    <3> QED BY <1>3, <3>3, <3>4 DEF CellsReceived, Write
  <2>5. next' = next + 1 /\ wpc' = "idle" /\ spill' \subseteq {"write", "read"}
    BY <1>3 DEF Write, IInv, TypeOK
  <2>6. UNCHANGED <<r, switches, size, rpc, len, base, sent, whole, cleared>>
    BY <1>3 DEF Write, reader
  <2>7. flag' \in Nat \cup {-1} /\ endPos' \in Nat \cup {-1}
    BY <1>3 DEF Write, IInv, TypeOK
  <2>8. "write" \notin spill' => Inside'
    BY <2>3, <2>6 DEF IInv, TypeOK, Inside
  <2>9. TypeOK'
    <3>1. next' \in 0..MaxFrames
      BY <2>1, <2>5 DEF IInv, TypeOK
    <3>2. /\ r' \in Nat /\ base' \in Nat /\ switches' \in 0..MaxSwitches
          /\ size' \in {0} \cup Sizes /\ len' \in Nat
          /\ sent' \in 0..MaxFrames /\ cleared' \in 0..MaxFrames /\ whole' \in BOOLEAN
          /\ rpc' \in {"wait", "addr", "scan", "send", "update"}
      BY <2>6 DEF IInv, TypeOK
    <3> QED BY <2>2, <2>4, <2>5, <2>7, <2>8, <3>1, <3>2 DEF TypeOK
  <2>10. "write" \notin spill' => (rpc' # "wait" => r' + len' < 2 * BufSize)
    BY <2>3, <2>6 DEF IInv
  <2> QED BY <2>4, <2>5, <2>9, <2>10 DEF IInv
<1>4. ASSUME Clear PROVE IInv'
  BY <1>4 DEF Clear, reader, IInv, TypeOK, Inside, CellsReceived
<1>5. ASSUME NEW f \in {-1, 1}, SwitchLayout(f) PROVE IInv'
  BY <1>5 DEF SwitchLayout, client, reader, IInv, TypeOK, Inside, CellsReceived
<1>6. ASSUME Wait PROVE IInv'
  <2>1. Avail \in Nat
    BY <1>6 DEF Wait, Avail, IInv, TypeOK
  <2>2. "write" \notin spill => r + Avail < 2 * BufSize
    BY <1>6 DEF Wait, Avail, IInv, TypeOK, Inside
  <2> QED BY <1>6, <2>1, <2>2 DEF Wait, client, IInv, TypeOK, Inside, CellsReceived
<1>7. ASSUME Addr PROVE IInv'
  BY <1>7 DEF Addr, client, IInv, TypeOK, Inside, CellsReceived
<1>8. ASSUME Scan PROVE IInv'
  <2>1. FrameEnd \in 0..len
    BY FrameEndBounded DEF IInv, TypeOK, Inside
  <2> QED BY <1>8, <2>1 DEF Scan, client, IInv, TypeOK, Inside, CellsReceived
<1>9. ASSUME Send PROVE IInv'
  <2>1. At(0)[1] \in 0..MaxFrames
    BY DEF At, Noise, IInv, TypeOK, Inside, CellsReceived
  <2> QED BY <1>9, <2>1 DEF Send, client, IInv, TypeOK, Inside, CellsReceived
<1>10. ASSUME Update PROVE IInv'
  <2>1. "write" \notin spill => /\ indexAdd(r, len) \in 0..BufSize - 1
                               /\ w' \in 0..BufSize - 1 /\ endPos' \in -1..BufSize
    <3>1. "write" \notin spill => indexAdd(r, len) \in 0..BufSize - 1
      BY <1>10, IndexAddInBuffer DEF Update, IInv, TypeOK, Inside
    <3>2. "write" \notin spill => w' \in 0..BufSize - 1
      BY <1>10 DEF Update, IInv, TypeOK, Inside
    <3>3. "write" \notin spill => endPos' \in -1..BufSize
      BY <1>10 DEF Update, LapEnd, IInv, TypeOK, Inside
    <3> QED BY <3>1, <3>2, <3>3
  <2>2. w' \in Nat /\ endPos' \in Nat \cup {-1} /\ indexAdd(r, len) \in Nat
    BY <1>10, IndexAddNat DEF Update, LapEnd, IInv, TypeOK
  <2>3. r' \in {0, indexAdd(r, len)}
    BY <1>10 DEF Update, NextRead
  <2>4. r' \in Nat /\ ("write" \notin spill => r' \in 0..BufSize - 1)
    BY <2>1, <2>2, <2>3
  <2>5. /\ rpc' = "wait"
        /\ UNCHANGED <<cells, flag, switches, next, wpc, size, len, base, sent, whole, cleared, spill>>
    BY <1>10 DEF Update, client
  <2> QED BY <2>1, <2>2, <2>4, <2>5 DEF IInv, TypeOK, Inside, CellsReceived
<1>11. CASE UNCHANGED vars
  BY <1>11 DEF vars, client, reader, IInv, TypeOK, Inside, CellsReceived
<1> QED BY <1>1, <1>2, <1>3, <1>4, <1>5, <1>6, <1>7, <1>8, <1>9, <1>10, <1>11 DEF Next, Read

(* Until a frame is written past the end the indices stay inside the       *)
(* buffer, whatever is lost, cleared or overtaken.                         *)
THEOREM RingTypeCorrect == Spec => []TypeOK
<1>1. IInv => TypeOK
  BY DEF IInv
<1> QED BY <1>1, InitTyped, StepTyped, PTL DEF Spec
-----------------------------------------------------------------------------
(***************************************************************************)
(* The inductive invariant of a reader that keeps up.                      *)
(***************************************************************************)
FirstBehind == IF rpc = "update" THEN sent ELSE sent + 1

Calm == flag = -1 /\ cleared = 0 /\ wpc \in {"idle", "write"}

Measured ==
    /\ rpc \in {"addr", "scan"} => Covers(cells, w, r, endPos, len)
    /\ rpc \in {"send", "update"} => Cuts(cells, w, r, endPos, len)
    /\ rpc \in {"scan", "send"} => base = r

RingInv(s) ==
    /\ IInv
    /\ Calm
    /\ StaysInBuffer /\ SendsWholeFrames
    /\ Laid(cells, w, r, endPos, next, s)
    /\ FirstAt(cells, w, r, next, FirstBehind)
    /\ Room(w, r, endPos, next, FirstBehind, s)
    /\ Measured

\* The types the lemmas ask for.
LEMMA RingTypes ==
    ASSUME IInv, StaysInBuffer
    PROVE  /\ cells \in CellSeqs
           /\ w \in 0..BufSize - 1 /\ r \in 0..BufSize - 1 /\ base \in 0..BufSize - 1
           /\ len \in Nat /\ next \in Nat /\ sent \in Nat /\ FirstBehind \in Nat
           /\ endPos \in -1..BufSize
BY DEF IInv, TypeOK, Inside, StaysInBuffer, CellSeqs, FirstBehind

\* The invariant holds at first ...
LEMMA InitRing ==
    ASSUME NEW s \in Nat, LagFits(s), Init
    PROVE  RingInv(s)
<1> USE SizesAssumption
<1>1. IInv
  BY InitTyped
<1>2. Calm /\ StaysInBuffer /\ SendsWholeFrames
  BY DEF Init, Calm, StaysInBuffer, SendsWholeFrames
<1>3. w = 0 /\ r = 0 /\ endPos = BufSize /\ next = 0 /\ FirstBehind = 1 /\ rpc = "wait"
  BY DEF Init, FirstBehind
<1>4. Laid(cells, 0, 0, endPos, 0, s)
  BY DEF Laid, DataAt
<1>5. FirstAt(cells, 0, 0, 0, 1)
  BY DEF FirstAt
<1>6. Room(0, 0, BufSize, 0, 1, s)
  <2>1. 0 - 1 + 1 = 0 /\ 0 * s = 0
    OBVIOUS
  <2> QED BY <2>1 DEF Room
<1>7. Measured
  BY <1>3 DEF Measured
<1> QED BY <1>1, <1>2, <1>3, <1>4, <1>5, <1>6, <1>7 DEF RingInv

\* readDataToBuff() writes into free cells, without wrapping.
LEMMA WriteAppends ==
    ASSUME NEW s \in Nat, LagFits(s), RingInv(s), Write
    PROVE  /\ size \in Sizes /\ w' = w + size /\ next' = next + 1
           /\ w + size < BufSize /\ (w < r => w + size < r)
           /\ Room(w + size, r, endPos, next + 1, FirstBehind, s)
           /\ \A p \in DataAt(w, r, endPos) : cells'[p] = cells[p]
           /\ \A j \in 0..size - 1 : cells'[w + j] = <<next + 1, j, size>>
           /\ spill' = {} /\ UNCHANGED <<flag, endPos>>
<1> USE SizesAssumption
<1>1. /\ cells \in CellSeqs /\ w \in 0..BufSize - 1 /\ r \in 0..BufSize - 1
      /\ next \in Nat /\ FirstBehind \in Nat /\ endPos \in 0..BufSize
  <2>1. Threshold <= endPos
    BY DEF RingInv, Room
  <2> QED BY <2>1, RingTypes DEF RingInv
<1>2. size \in Sizes /\ size \in Nat /\ size >= 2
  <2>1. size \in Sizes
    BY DEF RingInv, IInv, Write
  <2> QED BY <2>1
<1>3. next - FirstBehind + 1 < Lag
  BY <1>1 DEF Write, Behind, FirstBehind, RingInv, Calm, IInv, TypeOK
<1>4. /\ w + size < BufSize /\ (w < r => w + size < r)
      /\ Room(w + size, r, endPos, next + 1, FirstBehind, s)
  BY <1>1, <1>2, <1>3, WriteFits DEF RingInv
<1>5. indexAdd(w, 1) = w + 1 /\ indexAdd(w + 1, size - 1) = w + size
  BY <1>1, <1>2, <1>4 DEF indexAdd
<1>6. w' = w + size /\ next' = next + 1 /\ spill' = {} /\ UNCHANGED <<flag, endPos>>
  <2>1. w' = indexAdd(indexAdd(w, 1), size - 1) /\ next' = next + 1
    BY DEF Write
  <2>2. ~(indexAdd(w, 1) + size - 1 > BufSize)
    BY <1>1, <1>2, <1>4, <1>5
  <2>4. spill' = spill /\ UNCHANGED <<flag, endPos>>
    BY <2>2 DEF Write
  <2>3. spill = {}
    BY DEF RingInv, StaysInBuffer
  <2> QED BY <2>1, <2>3, <2>4, <1>5
<1> DEFINE to(i) == IF i = 0 THEN w ELSE w + 1 + i - 1
<1>7. \A i \in 0..size - 1 : to(i) = w + i
  BY <1>1
<1>8. cells' = [p \in DOMAIN cells |->
                  IF \E i \in 0..size - 1 : to(i) = p
                  THEN <<next + 1, CHOOSE i \in 0..size - 1 : to(i) = p, size>>
                  ELSE cells[p]]
  BY <1>5 DEF Write
<1> HIDE DEF to
<1>9. DOMAIN cells = 0..BufSize - 1
  BY <1>1 DEF CellSeqs
<1>10. ASSUME NEW p \in DataAt(w, r, endPos) PROVE cells'[p] = cells[p]
  <2>1. p \in DOMAIN cells
    BY <1>1, <1>9 DEF DataAt
  <2>2. ~ \E i \in 0..size - 1 : to(i) = p
    <3>1. p \notin w..w + size - 1
      BY <1>1, <1>2, <1>4 DEF DataAt
    <3> QED BY <3>1, <1>1, <1>2, <1>7
  <2> QED BY <2>1, <2>2, <1>8
<1>11. ASSUME NEW j \in 0..size - 1 PROVE cells'[w + j] = <<next + 1, j, size>>
  <2>1. w + j \in DOMAIN cells
    BY <1>1, <1>2, <1>4, <1>9
  <2>2. to(j) = w + j
    BY <1>7
  <2>3. (CHOOSE i \in 0..size - 1 : to(i) = w + j) = j
    <3> DEFINE k == CHOOSE i \in 0..size - 1 : to(i) = w + j
    <3>1. k \in 0..size - 1 /\ to(k) = w + j
      BY <2>2
    <3>2. to(k) = w + k
      BY <3>1, <1>7
    <3> HIDE DEF k
    <3>3. k = j
      BY <3>1, <3>2, <1>1, <1>2
    <3> QED BY <3>3 DEF k
  <2> QED BY <2>1, <2>2, <2>3, <1>8
<1> QED BY <1>2, <1>4, <1>6, <1>10, <1>11

\* A longer lap leaves what the reader measured as it is.
LEMMA AppendKeepsMeasure ==
    ASSUME NEW c \in CellSeqs, NEW c2 \in CellSeqs,
           NEW a \in 0..BufSize - 1, NEW b \in 0..BufSize - 1, NEW e \in 0..BufSize,
           NEW l \in Nat, NEW m \in Nat, m > 0, a < b => a + m < b /\ b < e,
           \A p \in DataAt(a, b, e) : c2[p] = c[p]
    PROVE  /\ Covers(c, a, b, e, l) => Covers(c2, a + m, b, e, l)
           /\ Cuts(c, a, b, e, l) => Cuts(c2, a + m, b, e, l)
<1> USE SizesAssumption
<1>1. a # b => c2[b] = c[b] /\ a + m # b
  BY DEF DataAt
<1>2. c[b][3] \in Nat
  BY DEF CellSeqs
<1> QED BY <1>1, <1>2 DEF Covers, Cuts

\* The frame at the read index.
LEMMA FrameToSend ==
    ASSUME NEW s \in Nat, LagFits(s), RingInv(s), w # r
    PROVE  /\ cells[r][3] \in 2..s
           /\ \A j \in 0..cells[r][3] - 1 : cells[r + j] = <<FirstBehind, j, cells[r][3]>>
           /\ r + cells[r][3] <= IF w < r THEN endPos ELSE w
           /\ FirstBehind <= next
           /\ FrameInOrder(cells, r, w, r, endPos, next)
           /\ After(cells, r, w, r, endPos)
                 = IF w < r /\ r + cells[r][3] = endPos THEN 0 ELSE r + cells[r][3]
<1> USE SizesAssumption
<1>1. /\ Laid(cells, w, r, endPos, next, s) /\ FirstAt(cells, w, r, next, FirstBehind)
      /\ Threshold <= endPos /\ (w < r => r < endPos)
  BY DEF RingInv, Room
<1>2. /\ cells \in CellSeqs /\ w \in 0..BufSize - 1 /\ r \in 0..BufSize - 1
      /\ next \in Nat /\ FirstBehind \in Nat /\ endPos \in 0..BufSize
  BY <1>1, RingTypes DEF RingInv
<1>3. /\ cells[r][3] \in 2..s
      /\ r + cells[r][3] <= IF w < r THEN endPos ELSE w
      /\ FirstBehind <= next
  BY <1>1, <1>2, FirstFrame
<1>4. ASSUME NEW j \in 0..cells[r][3] - 1
      PROVE  cells[r + j] = <<FirstBehind, j, cells[r][3]>>
  <2>1. r \in DataAt(w, r, endPos) /\ cells[r][1] = FirstBehind /\ cells[r][2] = 0
    BY <1>1, <1>2 DEF FirstAt, DataAt
  <2>2. r - cells[r][2] + j = r + j
    BY <2>1, <1>2
  <2>3. cells[r - cells[r][2] + j] = <<cells[r][1], j, cells[r][3]>>
    BY <2>1, <1>1 DEF Laid, FrameWhole
  <2> QED BY <2>1, <2>2, <2>3
<1>5. FrameInOrder(cells, r, w, r, endPos, next)
  BY <1>1, <1>2, FirstFrame
<1>6. After(cells, r, w, r, endPos)
        = IF w < r /\ r + cells[r][3] = endPos THEN 0 ELSE r + cells[r][3]
  BY <1>1, <1>2, FirstFrame
<1> QED BY <1>3, <1>4, <1>5, <1>6

\* The search ends at the end of the frame at the read index, or beyond it if
\* that frame is the last of its lap.
LEMMA ScanFindsFrame ==
    ASSUME NEW s \in Nat, LagFits(s), RingInv(s), Scan
    PROVE  Cuts(cells, w, r, endPos, FrameEnd)
<1> USE SizesAssumption
<1>1. base = r
  BY DEF Scan, RingInv, Measured
<1>2. /\ w \in 0..BufSize - 1 /\ r \in 0..BufSize - 1 /\ len \in Nat
      /\ endPos \in -1..BufSize
  BY RingTypes DEF RingInv
<1>3. Covers(cells, w, r, endPos, len)
  BY DEF Scan, RingInv, Measured
<1> DEFINE m == cells[r][3]
<1>4. w # r /\ r + len <= BufSize /\ m <= len
      /\ (IF w < r THEN endPos <= r + len ELSE r + len <= w)
  BY <1>3 DEF Covers
<1>5. /\ m \in 2..s
      /\ \A j \in 0..m - 1 : cells[r + j] = <<FirstBehind, j, m>>
      /\ r + m <= IF w < r THEN endPos ELSE w
      /\ FrameInOrder(cells, r, w, r, endPos, next)
      /\ After(cells, r, w, r, endPos) = IF w < r /\ r + m = endPos THEN 0 ELSE r + m
  BY <1>4, FrameToSend
<1>6. /\ FrameEnd \in m..len
      /\ m = len => FrameEnd = m
      /\ m < len /\ r + m < BufSize /\ cells[r + m][2] = 0 => FrameEnd = m
  <2>1. \A j \in 0..m - 1 : cells[base + j][2] = j
    BY <1>1, <1>5
  <2>2. m \in Nat /\ 2 <= m /\ base + m <= BufSize
    BY <1>1, <1>4, <1>5, <1>2
  <2> HIDE DEF m
  <2> QED BY <2>1, <2>2, <1>1, <1>4, <1>2, FrameEndIsFrame
<1>7. FrameEnd = m \/ (w < r /\ r + m = endPos)
  <2>1. CASE m < len /\ ~(w < r /\ r + m = endPos)
    <3>1. After(cells, r, w, r, endPos) = r + m /\ r + m # w
      <4> HIDE DEF m
      <4> QED BY <2>1, <1>4, <1>5, <1>2
    <3>2. r + m \in DataAt(w, r, endPos) /\ cells[r + m][2] = 0
      BY <3>1, <1>5 DEF FrameInOrder
    <3>3. r + m < BufSize
      <4> HIDE DEF m
      <4> QED BY <3>2, <1>2 DEF DataAt
    <3> QED BY <2>1, <3>2, <3>3, <1>6
  <2>2. m < len \/ m = len
    <3> HIDE DEF m
    <3> QED BY <1>4, <1>5, <1>2
  <2> QED BY <2>1, <2>2, <1>6
<1>8. Cuts(cells, w, r, endPos, FrameEnd)
  <2>1. r + FrameEnd <= BufSize /\ m <= FrameEnd
    <3> HIDE DEF m
    <3> QED BY <1>4, <1>5, <1>6, <1>2
  <2> QED BY <2>1, <1>4, <1>7 DEF Cuts
<1> QED BY <1>8

\* What is sent is the frame at the read index, the next in order, whole.
LEMMA SendIsWhole ==
    ASSUME NEW s \in Nat, LagFits(s), RingInv(s), Send
    PROVE  sent' = FirstBehind /\ FirstBehind <= next /\ whole'
<1> USE SizesAssumption
<1>1. base = r /\ Cuts(cells, w, r, endPos, len)
  BY DEF Send, RingInv, Measured
<1>2. w \in 0..BufSize - 1 /\ r \in 0..BufSize - 1 /\ endPos \in -1..BufSize
  BY RingTypes DEF RingInv
<1> DEFINE m == cells[r][3]
<1>3. w # r /\ m <= len
  BY <1>1 DEF Cuts
<1>4. /\ m \in 2..s
      /\ \A j \in 0..m - 1 : cells[r + j] = <<FirstBehind, j, m>>
      /\ r + m <= IF w < r THEN endPos ELSE w
      /\ FirstBehind <= next
  BY <1>3, FrameToSend
<1>5. \A j \in 0..m - 1 : At(j) = <<FirstBehind, j, m>>
  <2> SUFFICES ASSUME NEW j \in 0..m - 1 PROVE At(j) = <<FirstBehind, j, m>>
    OBVIOUS
  <2>1. base + j < BufSize
    <3> HIDE DEF m
    <3> QED BY <1>1, <1>4, <1>2
  <2> QED BY <2>1, <1>1, <1>4 DEF At
<1>6. At(0) = <<FirstBehind, 0, m>>
  <2>1. 0 \in 0..m - 1
    BY <1>4
  <2> QED BY <2>1, <1>5
<1>7. sent' = FirstBehind /\ whole'
  <2>1. sent' = At(0)[1]
    BY DEF Send
  <2>2. whole' = (whole /\ At(0)[3] <= len
                    /\ \A i \in 0..At(0)[3] - 1 : At(i) = <<At(0)[1], i, At(0)[3]>>)
    BY DEF Send
  <2>3. whole
    BY DEF RingInv, SendsWholeFrames
  <2>4. At(0)[1] = FirstBehind /\ At(0)[3] = m
    BY <1>6
  <2>5. m <= len /\ \A i \in 0..m - 1 : At(i) = <<FirstBehind, i, m>>
    BY <1>3, <1>5
  <2> HIDE DEF m
  <2>6. whole' = (whole /\ m <= len /\ \A i \in 0..m - 1 : At(i) = <<FirstBehind, i, m>>)
    BY <2>2, <2>4
  <2>7. whole'
    BY <2>3, <2>5, <2>6, Zenon
  <2> QED BY <2>1, <2>4, <2>7
<1> QED BY <1>4, <1>7

\* ... and every step keeps it.
LEMMA StepRing ==
    ASSUME NEW s \in Nat, LagFits(s), MaxSwitches = 0, RingInv(s), [Next]_vars
    PROVE  RingInv(s)'
<1> USE SizesAssumption
<1>0. IInv'
  BY StepTyped DEF RingInv
<1>1. /\ cells \in CellSeqs
      /\ w \in 0..BufSize - 1 /\ r \in 0..BufSize - 1 /\ base \in 0..BufSize - 1
      /\ len \in Nat /\ next \in Nat /\ sent \in Nat /\ FirstBehind \in Nat
      /\ endPos \in 0..BufSize
  <2>1. Threshold <= endPos
    BY DEF RingInv, Room
  <2> QED BY <2>1, RingTypes DEF RingInv
<1>2. ASSUME NEW n \in Sizes, Arrive(n) PROVE RingInv(s)'
  <2>1. Calm'
    BY <1>2 DEF RingInv, Calm, Arrive
  <2> QED BY <2>1, <1>0, <1>2 DEF RingInv, Arrive, reader, StaysInBuffer, SendsWholeFrames, FirstBehind, Measured
<1>3. ASSUME Look PROVE RingInv(s)'
  BY <1>3 DEF Look, RingInv, Calm
<1>4. ASSUME Write PROVE RingInv(s)'
  <2>1. /\ size \in Sizes /\ w' = w + size /\ next' = next + 1
        /\ w + size < BufSize /\ (w < r => w + size < r)
        /\ Room(w + size, r, endPos, next + 1, FirstBehind, s)
        /\ \A p \in DataAt(w, r, endPos) : cells'[p] = cells[p]
        /\ \A j \in 0..size - 1 : cells'[w + j] = <<next + 1, j, size>>
        /\ spill' = {} /\ UNCHANGED <<flag, endPos>>
    BY <1>4, WriteAppends
  <2>2. UNCHANGED <<r, endPos, flag, rpc, len, base, sent, whole, cleared, FirstBehind>>
    BY <1>4, <2>1 DEF Write, reader, FirstBehind
  <2>3. cells' \in CellSeqs
    BY <1>0 DEF IInv, TypeOK, CellSeqs
  <2>4. size <= s /\ size \in Nat /\ size > 0
    <3>1. size \in Nat \ {0, 1}
      BY <2>1
    <3>2. size <= s
      BY <2>1 DEF LagFits
    <3> QED BY <3>1, <3>2
  <2>5. w < r => r < endPos
    BY DEF RingInv, Room
  <2>6. Laid(cells', w + size, r, endPos, next + 1, s)
    BY <2>1, <2>3, <2>4, <2>5, <1>1, AppendFrame DEF RingInv
  <2>7. FirstAt(cells', w + size, r, next + 1, FirstBehind)
    <3>1. FirstAt(cells, w, r, next, FirstBehind)
      BY DEF RingInv
    <3>2. CASE w = r
      <4>1. 0 \in 0..size - 1 /\ w + 0 = w
        BY <2>4, <1>1
      <4>2. cells'[r] = <<next + 1, 0, size>>
        BY <4>1, <2>1, <3>2
      <4> QED BY <4>2, <3>1, <3>2, <1>1, <2>4 DEF FirstAt
    <3>3. CASE w # r
      <4>1. cells'[r] = cells[r] /\ w + size # r
        BY <3>3, <2>1, <2>4, <2>5, <1>1 DEF DataAt
      <4> QED BY <4>1, <3>1, <3>3 DEF FirstAt
    <3> QED BY <3>2, <3>3
  <2>8. /\ rpc \in {"addr", "scan"} => Covers(cells', w + size, r, endPos, len)
        /\ rpc \in {"send", "update"} => Cuts(cells', w + size, r, endPos, len)
    BY <2>1, <2>3, <2>4, <2>5, <1>1, AppendKeepsMeasure DEF RingInv, Measured
  <2>9. Measured'
    BY <2>1, <2>2, <2>8 DEF RingInv, Measured
  <2>10. Calm' /\ StaysInBuffer' /\ SendsWholeFrames'
    BY <1>4, <2>1, <2>2 DEF RingInv, Calm, StaysInBuffer, SendsWholeFrames, Write
  <2> QED BY <1>0, <2>1, <2>2, <2>6, <2>7, <2>9, <2>10 DEF RingInv
<1>5. ASSUME Clear PROVE RingInv(s)'
  BY <1>5 DEF Clear, RingInv, Calm
<1>6. ASSUME NEW f \in {-1, 1}, SwitchLayout(f) PROVE RingInv(s)'
  <2>1. switches \in 0..0 /\ switches < 0
    BY <1>6 DEF SwitchLayout, RingInv, IInv, TypeOK
  <2> QED BY <2>1
<1>7. ASSUME Wait PROVE RingInv(s)'
  <2>1. Avail >= MinAvail /\ len' = Avail /\ rpc = "wait" /\ rpc' = "addr"
    BY <1>7 DEF Wait
  <2>2. w # r
    BY <2>1, <1>1 DEF Avail
  <2>3. Covers(cells, w, r, endPos, len')
    <3>1. Covers(cells, w, r, endPos, IF w >= r THEN w - r ELSE w + endPos - r)
      BY <2>2, <1>1, ReadFits DEF RingInv
    <3> QED BY <2>1, <3>1 DEF Avail
  <2>4. UNCHANGED <<cells, w, r, endPos, flag, next, wpc, sent, whole, cleared, spill>>
    BY <1>7 DEF Wait, client
  <2>5. FirstBehind' = FirstBehind
    BY <2>1, <2>4 DEF FirstBehind
  <2>6. Measured'
    BY <2>1, <2>3, <2>4 DEF Measured
  <2> QED BY <1>0, <2>4, <2>5, <2>6 DEF RingInv, Calm, StaysInBuffer, SendsWholeFrames
<1>8. ASSUME Addr PROVE RingInv(s)'
  <2>1. rpc = "addr" /\ rpc' = "scan" /\ base' = r
    BY <1>8 DEF Addr
  <2>2. UNCHANGED <<cells, w, r, endPos, flag, next, wpc, len, sent, whole, cleared, spill>>
    BY <1>8 DEF Addr, client
  <2>3. FirstBehind' = FirstBehind
    BY <2>1, <2>2 DEF FirstBehind
  <2>4. Measured'
    BY <2>1, <2>2 DEF RingInv, Measured
  <2> QED BY <1>0, <2>2, <2>3, <2>4 DEF RingInv, Calm, StaysInBuffer, SendsWholeFrames
<1>9. ASSUME Scan PROVE RingInv(s)'
  <2>1. rpc = "scan" /\ rpc' = "send" /\ base = r
    BY <1>9 DEF Scan, RingInv, Measured
  <2>2. UNCHANGED <<cells, w, r, endPos, flag, next, wpc, base, sent, whole, cleared>>
    BY <1>9 DEF Scan, client
  <2>3. Cuts(cells, w, r, endPos, FrameEnd)
    BY <1>9, ScanFindsFrame
  <2>4. spill' = {} /\ len' = FrameEnd
    <3>2. ~(base + len > BufSize)
      BY <2>1, <1>1 DEF RingInv, Measured, Covers
    <3>1. spill' = spill /\ len' = FrameEnd
      BY <1>9, <3>2 DEF Scan
    <3> QED BY <3>1, <3>2 DEF RingInv, StaysInBuffer
  <2>5. FirstBehind' = FirstBehind
    BY <2>1, <2>2 DEF FirstBehind
  <2>6. Measured'
    BY <2>1, <2>2, <2>3, <2>4 DEF Measured
  <2> QED BY <1>0, <2>2, <2>4, <2>5, <2>6 DEF RingInv, Calm, StaysInBuffer, SendsWholeFrames
<1>10. ASSUME Send PROVE RingInv(s)'
  <2>1. rpc = "send" /\ rpc' = "update" /\ Cuts(cells, w, r, endPos, len)
    BY <1>10 DEF Send, RingInv, Measured
  <2>2. UNCHANGED <<cells, w, r, endPos, flag, next, wpc, len, cleared, spill>>
    BY <1>10 DEF Send, client
  <2>3. sent' = FirstBehind /\ whole'
    BY <1>10, SendIsWhole
  <2>4. FirstBehind' = FirstBehind
    BY <2>1, <2>3 DEF FirstBehind
  <2>5. Measured'
    BY <2>1, <2>2 DEF Measured
  <2> QED BY <1>0, <2>2, <2>3, <2>4, <2>5 DEF RingInv, Calm, StaysInBuffer, SendsWholeFrames
<1>11. ASSUME Update PROVE RingInv(s)'
  <2>1. rpc = "update" /\ rpc' = "wait" /\ Cuts(cells, w, r, endPos, len)
    BY <1>11 DEF Update, RingInv, Measured
  <2>2. UNCHANGED <<cells, flag, next, wpc, sent, whole, cleared, spill>>
    BY <1>11 DEF Update, client
  <2>3. /\ endPos' = IF w >= Threshold THEN w ELSE endPos
        /\ w' = IF w >= Threshold THEN 0 ELSE w
        /\ r' = IF endPos' # -1 /\ indexAdd(r, len) >= endPos' THEN 0 ELSE indexAdd(r, len)
    BY <1>11 DEF Update, Wraps, LapEnd, NextRead
  <2>4. FirstBehind' = FirstBehind + 1
    BY <2>1, <2>2 DEF FirstBehind
  <2>5. /\ Laid(cells, w', r', endPos', next, s)
        /\ FirstAt(cells, w', r', next, FirstBehind + 1)
        /\ Room(w', r', endPos', next, FirstBehind + 1, s)
    BY <2>1, <2>3, <1>1, ReaderAdvances DEF RingInv
  <2>6. Measured'
    BY <2>1 DEF Measured
  <2> QED BY <1>0, <2>2, <2>4, <2>5, <2>6 DEF RingInv, Calm, StaysInBuffer, SendsWholeFrames
<1>12. CASE UNCHANGED vars
  BY <1>0, <1>12 DEF vars, client, reader, RingInv, Calm, StaysInBuffer, SendsWholeFrames, FirstBehind, Measured
<1> QED BY <1>2, <1>3, <1>4, <1>5, <1>6, <1>7, <1>8, <1>9, <1>10, <1>11, <1>12 DEF Next, Read

(* No memcpy of the client and no scan of the reader leaves the buffer, if  *)
(* the lag fits.                                                           *)
THEOREM RingStaysInBuffer ==
    ASSUME NEW CONSTANT s \in Nat, LagFits(s), MaxSwitches = 0
    PROVE  Spec => []StaysInBuffer
<1>1. Init => RingInv(s)
  BY InitRing
<1>2. RingInv(s) /\ [Next]_vars => RingInv(s)'
  BY StepRing
<1>3. RingInv(s) => StaysInBuffer
  BY DEF RingInv
<1> QED BY <1>1, <1>2, <1>3, PTL DEF Spec

(* Every frame handed to the decoder is whole, although neither the client *)
(* nor the reader holds the lock while it copies, searches or sends.       *)
THEOREM RingSendsWhole ==
    ASSUME NEW CONSTANT s \in Nat, LagFits(s), MaxSwitches = 0
    PROVE  Spec => []SendsWholeFrames
<1>1. Init => RingInv(s)
  BY InitRing
<1>2. RingInv(s) /\ [Next]_vars => RingInv(s)'
  BY StepRing
<1>3. RingInv(s) => SendsWholeFrames
  BY DEF RingInv
<1> QED BY <1>1, <1>2, <1>3, PTL DEF Spec

\* The invariant speaks of positions, DataInOrder of distances from the read
\* index.
LEMMA InvGivesOrder ==
    ASSUME NEW s \in Nat, LagFits(s), RingInv(s)
    PROVE  DataInOrder
<1> USE SizesAssumption
<1>1. /\ cells \in CellSeqs
      /\ w \in 0..BufSize - 1 /\ r \in 0..BufSize - 1
      /\ next \in Nat /\ FirstBehind \in Nat /\ endPos \in 0..BufSize
  <2>1. Threshold <= endPos
    BY DEF RingInv, Room
  <2> QED BY <2>1, RingTypes DEF RingInv
<1>2. Behind = next - FirstBehind + 1
  BY <1>1, RingTypes DEF Behind, FirstBehind, RingInv, Calm
<1>3. w < r => r < endPos
  BY DEF RingInv, Room
<1>4. FirstAt(cells, w, r, next, FirstBehind)
  BY DEF RingInv
<1>5. CASE w = r
  BY <1>5, <1>4, <1>2, <1>1 DEF FirstAt, Avail, DataInOrder
<1>6. CASE w # r
  <2> DEFINE at(i) == IF w < r /\ r + i >= endPos THEN r + i - endPos ELSE r + i
             follows(b, a) == \/ a[2] + 1 < a[3] /\ b = <<a[1], a[2] + 1, a[3]>>
                              \/ a[2] + 1 = a[3] /\ b[1] = a[1] + 1 /\ b[2] = 0
             data == DataAt(w, r, endPos)
  <2>1. FirstBehind <= next /\ Behind > 0
    <3>1. FirstBehind <= next
      BY <1>1, <1>3, <1>6, FirstFrame DEF RingInv
    <3> QED BY <3>1, <1>1, <1>2
  <2>2. Avail \in Nat /\ Avail > 0
    BY <1>1, <1>3, <1>6 DEF Avail
  <2>3. \A i \in 0..Avail - 1 : at(i) \in data
    BY <1>1, <1>3, <1>6 DEF Avail, DataAt
  <2>4. data \subseteq 0..BufSize - 1 /\ DOMAIN cells = 0..BufSize - 1
    BY <1>1 DEF DataAt, CellSeqs
  <2>5. at(0) = r
    BY <1>1, <1>3
  <2>6. cells[at(0)][1] = next - Behind + 1 /\ cells[at(0)][2] = 0
    BY <2>5, <1>1, <1>2, <1>4, <1>6 DEF FirstAt
  <2>7. ASSUME NEW i \in 0..Avail - 1
        PROVE  LET p == at(i)
                   y == cells[p][2]
                   z == cells[p][3]
               IN  /\ y \in Nat /\ z \in Nat /\ y < z
                   /\ y + 1 < z => p + 1 \in data /\ cells[p + 1] = <<cells[p][1], y + 1, z>>
                   /\ y + 1 = z => LET q == IF w < r /\ p + 1 = endPos THEN 0 ELSE p + 1
                                   IN  IF q = w THEN cells[p][1] = next
                                       ELSE cells[q][1] = cells[p][1] + 1 /\ cells[q][2] = 0
    <3> DEFINE p == at(i)
               y == cells[p][2]
               z == cells[p][3]
               q == IF w < r /\ p + 1 = endPos THEN 0 ELSE p + 1
    <3>1. p \in data /\ p \in 0..BufSize - 1
      BY <2>3, <2>4
    <3>2. y \in Nat /\ z \in Nat
      BY <3>1, <1>1 DEF CellSeqs
    <3>3. FrameWhole(cells, p, w, r, endPos) /\ FrameInOrder(cells, p, w, r, endPos, next)
      BY <3>1 DEF RingInv, Laid
    <3> HIDE DEF p
    <3>4. y < z
      BY <3>3 DEF FrameWhole
    <3>5. ASSUME y + 1 < z
          PROVE  p + 1 \in data /\ cells[p + 1] = <<cells[p][1], y + 1, z>>
      <4>1. y + 1 \in 0..z - 1 /\ p - y + (y + 1) = p + 1
        BY <3>1, <3>2, <3>5
      <4>2. \A j \in 0..z - 1 : p - y + j \in data /\ cells[p - y + j] = <<cells[p][1], j, z>>
        BY <3>3 DEF FrameWhole
      <4> QED BY <4>1, <4>2
    <3>6. ASSUME y + 1 = z
          PROVE  IF q = w THEN cells[p][1] = next
                 ELSE cells[q][1] = cells[p][1] + 1 /\ cells[q][2] = 0
      <4>1. After(cells, p, w, r, endPos) = q
        <5>1. p - y + z = p + 1
          BY <3>1, <3>2, <3>6
        <5> QED BY <5>1 DEF After
      <4> QED BY <4>1, <3>3 DEF FrameInOrder
    <3> QED BY <3>2, <3>4, <3>5, <3>6 DEF p
  <2>8. ASSUME NEW i \in 1..Avail - 1
        PROVE  follows(cells[at(i)], cells[at(i - 1)])
    <3> DEFINE p == at(i - 1)
    <3>1. i - 1 \in 0..Avail - 1
      BY <2>2
    <3>2. at(i) = IF w < r /\ p + 1 = endPos THEN 0 ELSE p + 1
      BY <1>1, <1>3, <2>2 DEF Avail
    <3>3. at(i) # w
      BY <1>1, <1>3, <2>2 DEF Avail
    <3>4. p + 1 \in data => p + 1 = at(i)
      BY <3>2, <1>1, <1>3 DEF DataAt
    <3> HIDE DEF at
    <3> QED BY <2>7, <3>1, <3>2, <3>3, <3>4
  <2>9. cells[at(Avail - 1)][1] = next /\ cells[at(Avail - 1)][2] + 1 = cells[at(Avail - 1)][3]
    <3> DEFINE p == at(Avail - 1)
    <3>1. Avail - 1 \in 0..Avail - 1
      BY <2>2
    <3>2. (IF w < r /\ p + 1 = endPos THEN 0 ELSE p + 1) = w
      BY <1>1, <1>3, <1>6 DEF Avail
    <3>3. p + 1 \notin data
      BY <3>2, <1>1, <1>3, <1>6 DEF DataAt
    <3> HIDE DEF at
    <3> QED BY <2>7, <3>1, <3>2, <3>3
  <2> HIDE DEF at, follows
  <2>10. \A i \in 0..Avail - 1 : at(i) \in DOMAIN cells
    BY <2>3, <2>4
  <2> QED BY <2>1, <2>2, <2>6, <2>8, <2>9, <2>10 DEF DataInOrder, at, follows
<1> QED BY <1>5, <1>6

(* The Avail cells from the read index on are the frames not yet sent.     *)
THEOREM RingDataInOrder ==
    ASSUME NEW CONSTANT s \in Nat, LagFits(s), MaxSwitches = 0
    PROVE  Spec => []DataInOrder
<1>1. Init => RingInv(s)
  BY InitRing
<1>2. RingInv(s) /\ [Next]_vars => RingInv(s)'
  BY StepRing
<1>3. RingInv(s) => DataInOrder
  BY InvGivesOrder
<1> QED BY <1>1, <1>2, <1>3, PTL DEF Spec

\* The client's write receives a frame, the reader's send decodes the next one.
LEMMA StepQueue ==
    ASSUME NEW s \in Nat, LagFits(s), MaxSwitches = 0, RingInv(s), [Next]_vars
    PROVE  [Queue!Receive \/ Queue!Decode]_<<next, sent>>
<1> USE SizesAssumption
<1>1. next \in Nat /\ sent \in Nat
  BY RingTypes DEF RingInv
<1>2. CASE Write
  BY <1>2 DEF Write, Queue!Receive
<1>3. CASE Send
  <2>1. rpc = "send" /\ next' = next
    BY <1>3 DEF Send
  <2>2. sent' = sent + 1 /\ sent + 1 <= next
    BY <2>1, <1>3, SendIsWhole DEF FirstBehind
  <2> QED BY <1>1, <2>1, <2>2 DEF Queue!Decode
<1>4. CASE UNCHANGED <<next, sent>>
  BY <1>4
<1> QED BY <1>2, <1>3, <1>4 DEF Next, Read, Arrive, Look, Clear, SwitchLayout, Wait, Addr, Scan, Update, vars

(* The ring buffer implements the queue: each frame is decoded once, in    *)
(* the order received, none before it is there.                            *)
THEOREM RingIsQueue ==
    ASSUME NEW CONSTANT s \in Nat, LagFits(s), MaxSwitches = 0
    PROVE  Spec => ImplementsFrameQueue
<1>1. Init => RingInv(s) /\ Queue!Init
  BY InitRing DEF Init, Queue!Init
<1>2. RingInv(s) /\ [Next]_vars => RingInv(s)' /\ [Queue!Receive \/ Queue!Decode]_<<next, sent>>
  BY StepRing, StepQueue
<1> QED BY <1>1, <1>2, PTL DEF Spec, ImplementsFrameQueue, Queue!Spec
=============================================================================
