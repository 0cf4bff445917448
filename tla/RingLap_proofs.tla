---------------------------- MODULE RingLap_proofs --------------------------
(***************************************************************************)
(* The data of RingBuffer as a function of its indices, and what writing a *)
(* frame, dropping one and turning the lap do to it; RingBuffer_proofs     *)
(* applies this to the steps.                                              *)
(*                                                                         *)
(* Throughout, c are the cells, a the write and b the read index, e the    *)
(* end of the lap, n the last frame received, f the first frame behind.    *)
(* With a >= b both indices are in one lap; with a < b the reader is still *)
(* in the lap that ends at e.                                              *)
(***************************************************************************)
EXTENDS RingBuffer, FiniteSetTheorems, TLAPS

CellSeqs == [0..BufSize - 1 -> Nat \X Nat \X Nat]

DataAt(a, b, e) == IF a >= b THEN b..a - 1 ELSE (b..e - 1) \cup (0..a - 1)

\* The cells from p up to the write index.
Ahead(p, a, b, e) == IF a < b /\ p >= b THEN e - p + a ELSE a - p

\* Where the frame behind that of cell p starts.
After(c, p, a, b, e) ==
    LET q == p - c[p][2] + c[p][3] IN IF a < b /\ q = e THEN 0 ELSE q

(* Of each cell of the data: its frame is there, in consecutive cells; the *)
(* next frame follows it, or it is the last; and what lies ahead are at    *)
(* most as many cells as the frames from its own on may have.  The bound   *)
(* on the whole buffer is a sum over its frames; said of each cell, it is  *)
(* kept by every step without a sum.                                       *)
FrameWhole(c, p, a, b, e) ==
    /\ c[p][3] \in Sizes /\ c[p][2] < c[p][3]
    /\ \A j \in 0..c[p][3] - 1 :
          /\ p - c[p][2] + j \in DataAt(a, b, e)
          /\ c[p - c[p][2] + j] = <<c[p][1], j, c[p][3]>>

FrameInOrder(c, p, a, b, e, n) ==
    LET q == After(c, p, a, b, e)
    IN  IF q = a THEN c[p][1] = n
        ELSE q \in DataAt(a, b, e) /\ c[q][1] = c[p][1] + 1 /\ c[q][2] = 0

FrameNear(c, p, a, b, e, n, s) ==
    Ahead(p, a, b, e) <= (n - c[p][1]) * s + c[p][3] - c[p][2]

Laid(c, a, b, e, n, s) ==
    \A p \in DataAt(a, b, e) : /\ FrameWhole(c, p, a, b, e)
                               /\ FrameInOrder(c, p, a, b, e, n)
                               /\ FrameNear(c, p, a, b, e, n, s)

FirstAt(c, a, b, n, f) ==
    IF a = b THEN n = f - 1 ELSE c[b][1] = f /\ c[b][2] = 0

(* What the lag must leave room for: the frames behind are shorter than a  *)
(* lap, and behind the threshold there is room for the frames that a lap's *)
(* end may hold and, in one scan, for those of the next lap as well.  The  *)
(* run Ring meets it with s = 3 and not one cell to spare.                 *)
LagFits(s) ==
    /\ \A m \in Sizes : m <= s
    /\ Lag * s < Threshold
    /\ Threshold + Lag * s <= BufSize
    /\ Threshold + (2 * Lag - 1) * s <= BufSize + 1

\* How far the write index and the end of the lap may be.
Room(a, b, e, n, f, s) ==
    /\ n - f + 1 \in 0..Lag
    /\ a < Threshold + (n - f + 1) * s
    /\ Threshold <= e
    /\ a < b => b < e /\ e < Threshold + Lag * s

\* The length l that the reader measured holds its next frame.
Covers(c, a, b, e, l) ==
    /\ a # b /\ b + l <= BufSize /\ c[b][3] <= l
    /\ IF a < b THEN e <= b + l ELSE b + l <= a

\* The length l that it searched ends with that frame or, behind the last
\* frame of a lap, somewhere in what is left of an older one.
Cuts(c, a, b, e, l) ==
    /\ a # b /\ b + l <= BufSize /\ c[b][3] <= l
    /\ l = c[b][3] \/ (a < b /\ b + c[b][3] = e)
-----------------------------------------------------------------------------
\* Bounds on products with s, which the arithmetic below needs.
LEMMA OneMore ==
    ASSUME NEW k \in Int, NEW s \in Nat
    PROVE  (k + 1) * s = k * s + s
OBVIOUS

\* A frame written behind the data, in free cells, keeps the data in order.
LEMMA AppendFrame ==
    ASSUME NEW c \in CellSeqs, NEW c2 \in CellSeqs,
           NEW a \in 0..BufSize - 1, NEW b \in 0..BufSize - 1, NEW e \in 0..BufSize,
           NEW n \in Nat, NEW s \in Nat, NEW m \in Sizes,
           Laid(c, a, b, e, n, s),
           m <= s, a + m < BufSize, a < b => a + m < b /\ b < e,
           \A p \in DataAt(a, b, e) : c2[p] = c[p],
           \A j \in 0..m - 1 : c2[a + j] = <<n + 1, j, m>>
    PROVE  Laid(c2, a + m, b, e, n + 1, s)
<1> USE SizesAssumption
<1> DEFINE old == DataAt(a, b, e)
           new == DataAt(a + m, b, e)
<1>1. m \in Nat /\ m >= 2
  OBVIOUS
<1>2. \A p \in Int : p \in new <=> p \in old \/ p \in a..a + m - 1
  BY <1>1 DEF DataAt
<1>3. old \subseteq 0..BufSize - 1 /\ new \subseteq 0..BufSize - 1
  BY <1>1 DEF DataAt
<1>4. a \in new /\ a \notin old
  BY <1>1, <1>2 DEF DataAt
<1>5. ASSUME NEW p \in old
      PROVE  FrameWhole(c2, p, a + m, b, e) /\ FrameInOrder(c2, p, a + m, b, e, n + 1)
             /\ FrameNear(c2, p, a + m, b, e, n + 1, s)
  <2>1. p \in 0..BufSize - 1 /\ c2[p] = c[p] /\ c[p] \in Nat \X Nat \X Nat
    BY <1>3 DEF CellSeqs
  <2> DEFINE x == c[p][1]
             y == c[p][2]
             z == c[p][3]
  <2>2. x \in Nat /\ y \in Nat /\ z \in Nat
    BY <2>1
  <2>3. FrameWhole(c, p, a, b, e) /\ FrameInOrder(c, p, a, b, e, n) /\ FrameNear(c, p, a, b, e, n, s)
    BY DEF Laid
  <2>4. FrameWhole(c2, p, a + m, b, e)
    <3> SUFFICES ASSUME NEW j \in 0..z - 1
                 PROVE  p - y + j \in new /\ c2[p - y + j] = <<x, j, z>>
      BY <2>1, <2>3 DEF FrameWhole
    <3>1. p - y + j \in old /\ c[p - y + j] = <<x, j, z>>
      BY <2>3 DEF FrameWhole
    <3> QED BY <3>1, <1>2, <2>1, <2>2
  <2>5. FrameInOrder(c2, p, a + m, b, e, n + 1)
    <3> DEFINE q == After(c, p, a, b, e)
    <3>0. q \in Int
      BY <2>1, <2>2 DEF After
    <3>1. After(c2, p, a + m, b, e) = q /\ q # a + m
      <4> DEFINE t == p - y + z
      <4>1. a < b <=> a + m < b
        BY <1>1
      <4>2. q = (IF a < b /\ t = e THEN 0 ELSE t) /\ After(c2, p, a + m, b, e) = q
        BY <4>1, <2>1 DEF After
      <4>3. t - 1 \in old /\ t \in Int
        <5>1. p - y + (z - 1) \in old
          BY <2>2, <2>3 DEF FrameWhole
        <5>2. p - y + (z - 1) = t - 1
          BY <2>1, <2>2
        <5> QED BY <5>1, <5>2, <2>1, <2>2
      <4> HIDE DEF q, t
      <4> QED BY <4>1, <4>2, <4>3, <1>1 DEF DataAt
    <3>2. CASE q = a
      <4>1. x = n
        BY <3>2, <2>3 DEF FrameInOrder
      <4>2. c2[a] = <<n + 1, 0, m>>
        <5>1. 0 \in 0..m - 1 /\ a + 0 = a
          BY <1>1
        <5> QED BY <5>1
      <4> QED BY <4>1, <4>2, <3>1, <3>2, <1>4, <2>1 DEF FrameInOrder
    <3>3. CASE q # a
      <4>1. q \in old /\ c[q][1] = x + 1 /\ c[q][2] = 0
        BY <3>3, <2>3 DEF FrameInOrder
      <4>2. q \in new /\ c2[q] = c[q]
        BY <4>1, <3>0, <1>2
      <4> QED BY <4>1, <4>2, <3>1, <2>1 DEF FrameInOrder
    <3> QED BY <3>2, <3>3
  <2>6. FrameNear(c2, p, a + m, b, e, n + 1, s)
    <3>1. Ahead(p, a + m, b, e) = Ahead(p, a, b, e) + m /\ Ahead(p, a, b, e) \in Int
      BY <1>1, <2>1 DEF Ahead, DataAt
    <3>2. Ahead(p, a, b, e) <= (n - x) * s + z - y
      BY <2>3 DEF FrameNear
    <3>3. (n + 1 - x) * s = (n - x) * s + s /\ (n - x) * s \in Int
      <4>1. n - x \in Int /\ n + 1 - x = n - x + 1
        BY <2>2
      <4> HIDE DEF x
      <4> QED BY <4>1, OneMore
    <3>4. Ahead(p, a + m, b, e) <= (n + 1 - x) * s + z - y
      <4> HIDE DEF x, y, z
      <4> QED BY <3>1, <3>2, <3>3, <2>2, <1>1
    <3> QED BY <3>4, <2>1 DEF FrameNear
  <2> QED BY <2>4, <2>5, <2>6
<1>6. ASSUME NEW p \in a..a + m - 1
      PROVE  FrameWhole(c2, p, a + m, b, e) /\ FrameInOrder(c2, p, a + m, b, e, n + 1)
             /\ FrameNear(c2, p, a + m, b, e, n + 1, s)
  <2>1. p - a \in 0..m - 1 /\ a + (p - a) = p
    BY <1>1
  <2>2. c2[p] = <<n + 1, p - a, m>>
    BY <2>1
  <2>3. FrameWhole(c2, p, a + m, b, e)
    <3>1. p - c2[p][2] = a
      BY <2>1, <2>2
    <3>2. \A j \in 0..m - 1 : a + j \in new
      BY <1>1, <1>2
    <3> QED BY <2>1, <2>2, <3>1, <3>2, <1>1 DEF FrameWhole
  <2>4. After(c2, p, a + m, b, e) = a + m
    BY <2>1, <2>2, <1>1 DEF After
  <2>5. FrameInOrder(c2, p, a + m, b, e, n + 1)
    BY <2>2, <2>4 DEF FrameInOrder
  <2>6. FrameNear(c2, p, a + m, b, e, n + 1, s)
    <3>1. Ahead(p, a + m, b, e) = m - (p - a)
      BY <1>1 DEF Ahead
    <3>2. (n + 1 - (n + 1)) * s = 0
      OBVIOUS
    <3> QED BY <2>2, <3>1, <3>2, <1>1 DEF FrameNear
  <2> QED BY <2>3, <2>5, <2>6
<1>7. ASSUME NEW p \in new
      PROVE  FrameWhole(c2, p, a + m, b, e) /\ FrameInOrder(c2, p, a + m, b, e, n + 1)
             /\ FrameNear(c2, p, a + m, b, e, n + 1, s)
  <2>1. p \in old \/ p \in a..a + m - 1
    BY <1>2, <1>3
  <2> HIDE DEF old, new
  <2> QED BY <1>5, <1>6, <2>1
<1> QED BY <1>7 DEF Laid

\* So does taking the first frame away.
LEMMA DropFrame ==
    ASSUME NEW c \in CellSeqs,
           NEW a \in 0..BufSize - 1, NEW b \in 0..BufSize - 1, NEW e \in 0..BufSize,
           NEW n \in Nat, NEW s \in Nat,
           Laid(c, a, b, e, n, s), a # b, a < b => b < e, c[b][2] = 0
    PROVE  /\ After(c, b, a, b, e) \in 0..BufSize - 1
           /\ a < After(c, b, a, b, e) => a < b /\ After(c, b, a, b, e) < e
           /\ Laid(c, a, After(c, b, a, b, e), e, n, s)
<1> USE SizesAssumption
<1> DEFINE old == DataAt(a, b, e)
           q   == After(c, b, a, b, e)
           new == DataAt(a, q, e)
           m   == c[b][3]
<1>1. b \in old /\ old \subseteq 0..BufSize - 1 /\ c[b] \in Nat \X Nat \X Nat
  <2>1. b \in old
    BY DEF DataAt
  <2>2. old \subseteq 0..BufSize - 1
    BY DEF DataAt
  <2>3. c[b] \in Nat \X Nat \X Nat
    BY DEF CellSeqs
  <2> QED BY <2>1, <2>2, <2>3
<1>2. FrameWhole(c, b, a, b, e)
  BY <1>1 DEF Laid
<1>3. m \in Nat /\ m > 0 /\ b - c[b][2] = b
  BY <1>1, <1>2 DEF FrameWhole
<1>4. \A j \in 0..m - 1 : b + j \in old /\ c[b + j] = <<c[b][1], j, m>>
  BY <1>2, <1>3 DEF FrameWhole
<1>5. q = IF a < b /\ b + m = e THEN 0 ELSE b + m
  BY <1>1, <1>3 DEF After
<1>6. b + (m - 1) \in old
  BY <1>3, <1>4
<1>7. b + m <= IF a < b THEN e ELSE a
  <2>1. a < b => b + (m - 1) \notin 0..a - 1
    BY <1>3
  <2> HIDE DEF m, q
  <2> QED BY <1>3, <1>6, <2>1 DEF DataAt
<1>8. q \in 0..BufSize - 1 /\ (a < q => a < b /\ q < e)
  <2> HIDE DEF m, q
  <2> QED BY <1>3, <1>5, <1>7
<1>9. \A p \in Int : p \in new <=> p \in old /\ p \notin b..b + m - 1
  <2> HIDE DEF m, q
  <2> QED BY <1>3, <1>5, <1>7 DEF DataAt
<1>10. ASSUME NEW p \in new
       PROVE  FrameWhole(c, p, a, q, e) /\ FrameInOrder(c, p, a, q, e, n) /\ FrameNear(c, p, a, q, e, n, s)
  <2>1. p \in old /\ p \in 0..BufSize - 1 /\ c[p] \in Nat \X Nat \X Nat
    <3>1. p \in Int
      BY <1>8 DEF DataAt
    <3> QED BY <3>1, <1>1, <1>9 DEF CellSeqs
  <2> DEFINE x == c[p][1]
             y == c[p][2]
             z == c[p][3]
  <2>2. x \in Nat /\ y \in Nat /\ z \in Nat
    BY <2>1
  <2>3. FrameWhole(c, p, a, b, e) /\ FrameInOrder(c, p, a, b, e, n) /\ FrameNear(c, p, a, b, e, n, s)
    BY <2>1 DEF Laid
  <2>4. \A j \in 0..z - 1 : p - y + j \in old /\ c[p - y + j] = <<x, j, z>>
    BY <2>3 DEF FrameWhole
  <2>5. y < z
    BY <2>3 DEF FrameWhole
  <2>6. \A j \in 0..z - 1 : p - y + j \notin b..b + m - 1
    \* Such a cell would be cell j of p's frame and of the frame at b.
    <3> SUFFICES ASSUME NEW j \in 0..z - 1, p - y + j \in b..b + m - 1
                 PROVE  FALSE
      OBVIOUS
    <3> DEFINE i == p - y + j - b
    <3>1. i \in 0..m - 1 /\ b + i = p - y + j
      BY <2>1, <2>2, <1>3
    <3>2. c[b + i] = <<c[b][1], i, m>> /\ c[b + i] = <<x, j, z>>
      <4> HIDE DEF i
      <4>1. c[b + i] = <<c[b][1], i, m>>
        BY <3>1, <1>4
      <4>2. c[b + i] = <<x, j, z>>
        BY <3>1, <2>4
      <4> QED BY <4>1, <4>2
    <3>3. i = j /\ m = z
      <4> HIDE DEF i, m, x, z
      <4> QED BY <3>2
    <3>4. p - y = b /\ y \in 0..m - 1
      BY <3>1, <3>3, <2>1, <2>2, <2>5
    <3>5. p \in b..b + m - 1
      BY <3>4, <2>1, <2>2, <1>3
    <3> QED BY <3>5, <1>9, <2>1
  <2>7. FrameWhole(c, p, a, q, e)
    <3>1. \A j \in 0..z - 1 : p - y + j \in new
      <4> SUFFICES ASSUME NEW j \in 0..z - 1 PROVE p - y + j \in new
        OBVIOUS
      <4>1. p - y + j \in old /\ p - y + j \notin b..b + m - 1 /\ p - y + j \in Int
        BY <2>1, <2>2, <2>4, <2>6
      <4> QED BY <4>1, <1>9
    <3> QED BY <3>1, <2>3 DEF FrameWhole
  <2>8. After(c, p, a, q, e) = After(c, p, a, b, e) /\ After(c, p, a, b, e) \in Int
    \* With the lap's last frame dropped, no frame ends at the lap's end.
    <3> DEFINE t == p - y + z
    <3>1. p - y + (z - 1) \in new
      BY <2>2, <2>5, <2>7 DEF FrameWhole
    <3>0. t \in Int
      BY <2>1, <2>2
    <3>2. a < b /\ t = e => a < q
      <4>1. p - y + (z - 1) = t - 1
        BY <2>1, <2>2
      <4>2. t - 1 \in new
        BY <3>1, <4>1
      <4> HIDE DEF q, m, t
      <4> QED BY <4>2, <3>0, <1>3, <1>5, <1>7 DEF DataAt
    <3> HIDE DEF q, m
    <3> QED BY <3>0, <3>2, <1>8 DEF After
  <2>9. FrameInOrder(c, p, a, q, e, n)
    <3> DEFINE t == After(c, p, a, b, e)
    <3>1. CASE t = a
      BY <3>1, <2>3, <2>8 DEF FrameInOrder
    <3>2. CASE t # a
      <4>1. t \in old /\ c[t][1] = x + 1 /\ c[t][2] = 0
        BY <3>2, <2>3 DEF FrameInOrder
      <4>2. t \notin b..b + m - 1
        \* Its only start is b, which follows no frame that is left.
        <5> SUFFICES ASSUME t \in b..b + m - 1 PROVE FALSE
          OBVIOUS
        <5>1. t - b \in 0..m - 1 /\ b + (t - b) = t
          BY <1>3, <2>8
        <5>2. c[t] = <<c[b][1], t - b, m>>
          BY <5>1, <1>4
        <5>3. t = b
          BY <5>2, <5>1, <4>1
        <5>4. p - y + (z - 1) \in new /\ p - y \in new
          <6>1. p - y + 0 \in new
            BY <2>2, <2>5, <2>7 DEF FrameWhole
          <6> QED BY <6>1, <2>1, <2>2, <2>5, <2>7 DEF FrameWhole
        <5>5. p - y + z = b
          <6>1. b = 0 => a >= b
            OBVIOUS
          <6> QED BY <5>3, <6>1 DEF After
        <5>6. b - 1 \in new
          BY <5>4, <5>5, <2>1, <2>2
        <5> HIDE DEF q, m
        <5> QED BY <5>6, <1>3, <1>5, <1>7 DEF DataAt
      <4>3. t \in new
        BY <4>1, <4>2, <1>9, <2>8
      <4> QED BY <4>1, <4>3, <2>8, <3>2 DEF FrameInOrder
    <3> QED BY <3>1, <3>2
  <2>10. FrameNear(c, p, a, q, e, n, s)
    <3>1. Ahead(p, a, q, e) = Ahead(p, a, b, e)
      <4> HIDE DEF q, m
      <4> QED BY <1>3, <1>5, <1>7, <2>1 DEF Ahead, DataAt
    <3> QED BY <3>1, <2>3 DEF FrameNear
  <2> QED BY <2>7, <2>9, <2>10
<1> QED BY <1>8, <1>10 DEF Laid

\* A lap that ends at the write index is the same data.
LEMMA TurnLap ==
    ASSUME NEW c \in CellSeqs,
           NEW a \in 0..BufSize - 1, NEW b \in 0..BufSize - 1, NEW e \in 0..BufSize,
           NEW n \in Nat, NEW s \in Nat,
           Laid(c, a, b, e, n, s), 0 < b, b < a
    PROVE  Laid(c, 0, b, a, n, s)
<1> USE SizesAssumption
<1> DEFINE data == DataAt(a, b, e)
<1>1. DataAt(0, b, a) = data /\ data \subseteq 0..BufSize - 1 /\ data = b..a - 1
  BY DEF DataAt
<1> SUFFICES ASSUME NEW p \in data
             PROVE  FrameWhole(c, p, 0, b, a) /\ FrameInOrder(c, p, 0, b, a, n) /\ FrameNear(c, p, 0, b, a, n, s)
  BY <1>1 DEF Laid
<1>2. p \in 0..BufSize - 1 /\ c[p] \in Nat \X Nat \X Nat
  BY <1>1 DEF CellSeqs
<1>3. FrameWhole(c, p, a, b, e) /\ FrameInOrder(c, p, a, b, e, n) /\ FrameNear(c, p, a, b, e, n, s)
  BY DEF Laid
<1>4. FrameWhole(c, p, 0, b, a)
  BY <1>1, <1>3 DEF FrameWhole
<1>5. FrameInOrder(c, p, 0, b, a, n)
  <2> DEFINE t == After(c, p, a, b, e)
  <2>1. t = p - c[p][2] + c[p][3]
    BY DEF After
  <2>2. After(c, p, 0, b, a) = IF t = a THEN 0 ELSE t
    BY <2>1 DEF After
  <2>3. CASE t = a
    BY <2>2, <2>3, <1>3 DEF FrameInOrder
  <2>4. CASE t # a
    <3>1. t \in data /\ c[t][1] = c[p][1] + 1 /\ c[t][2] = 0
      BY <2>4, <1>3 DEF FrameInOrder
    <3>2. t # 0
      BY <3>1, <1>1
    <3> QED BY <3>1, <3>2, <2>2, <2>4, <1>1 DEF FrameInOrder
  <2> QED BY <2>3, <2>4
<1>6. FrameNear(c, p, 0, b, a, n, s)
  <2>1. Ahead(p, 0, b, a) = Ahead(p, a, b, e)
    BY <1>1, <1>2 DEF Ahead
  <2> QED BY <2>1, <1>3 DEF FrameNear
<1> QED BY <1>4, <1>5, <1>6

LEMMA Times ==
    ASSUME NEW i \in Int, NEW k \in Int, NEW s \in Nat, i <= k
    PROVE  i * s \in Int /\ i * s <= k * s
OBVIOUS

\* The first frame of the data lies in one lap, and bounds the data.
LEMMA FirstFrame ==
    ASSUME NEW c \in CellSeqs,
           NEW a \in 0..BufSize - 1, NEW b \in 0..BufSize - 1, NEW e \in 0..BufSize,
           NEW n \in Nat, NEW f \in Nat, NEW s \in Nat,
           LagFits(s), Laid(c, a, b, e, n, s), FirstAt(c, a, b, n, f),
           a # b, a < b => b < e
    PROVE  /\ c[b][3] \in Sizes /\ c[b][3] \in 2..s
           /\ b + c[b][3] <= IF a < b THEN e ELSE a
           /\ f <= n
           /\ a < b => e - b + a <= (n - f + 1) * s /\ a <= (n - f) * s
           /\ FrameInOrder(c, b, a, b, e, n)
           /\ After(c, b, a, b, e) = IF a < b /\ b + c[b][3] = e THEN 0 ELSE b + c[b][3]
<1> USE SizesAssumption
<1> DEFINE m == c[b][3]
<1>1. b \in DataAt(a, b, e) /\ c[b] \in Nat \X Nat \X Nat /\ c[b][1] = f /\ c[b][2] = 0
  <2>1. b \in DataAt(a, b, e)
    BY DEF DataAt
  <2>2. c[b] \in Nat \X Nat \X Nat
    BY DEF CellSeqs
  <2> QED BY <2>1, <2>2 DEF FirstAt
<1>2. FrameWhole(c, b, a, b, e) /\ FrameInOrder(c, b, a, b, e, n) /\ FrameNear(c, b, a, b, e, n, s)
  BY <1>1 DEF Laid
<1>3. m \in Sizes /\ m \in 2..s /\ b - c[b][2] = b
  <2>1. m \in Sizes
    BY <1>2 DEF FrameWhole
  <2> QED BY <2>1, <1>1 DEF LagFits
<1>4. \A j \in 0..m - 1 : b + j \in DataAt(a, b, e) /\ c[b + j] = <<f, j, m>>
  BY <1>1, <1>2, <1>3 DEF FrameWhole
<1>5. b + m <= IF a < b THEN e ELSE a
  <2>1. b + (m - 1) \in DataAt(a, b, e)
    BY <1>3, <1>4
  <2> HIDE DEF m
  <2> QED BY <1>3, <2>1 DEF DataAt
<1>6. Ahead(b, a, b, e) <= (n - f) * s + m
  <2>1. Ahead(b, a, b, e) <= (n - f) * s + m - c[b][2]
    <3>1. Ahead(b, a, b, e) <= (n - c[b][1]) * s + m - c[b][2]
      BY <1>2 DEF FrameNear
    <3> QED BY <3>1, <1>1
  <2>2. (n - f) * s \in Int
    BY Times
  <2> HIDE DEF m
  <2> QED BY <2>1, <2>2, <1>1, <1>3
<1>7. /\ (n - f) * s \in Int /\ (n - f + 1) * s = (n - f) * s + s
      /\ n - f <= -1 => (n - f) * s <= (-1) * s
  BY OneMore, Times
<1>8. f <= n
  <2>1. Ahead(b, a, b, e) >= 1
    BY DEF Ahead
  <2>2. (-1) * s = -s
    OBVIOUS
  <2> HIDE DEF m
  <2> QED BY <1>3, <1>6, <1>7, <2>1, <2>2 DEF Ahead
<1>9. ASSUME a < b PROVE e - b + a <= (n - f + 1) * s /\ a <= (n - f) * s
  <2>1. Ahead(b, a, b, e) = e - b + a
    BY <1>9 DEF Ahead
  <2> HIDE DEF m
  <2> QED BY <1>3, <1>5, <1>6, <1>7, <1>9, <2>1
<1>10. After(c, b, a, b, e) = IF a < b /\ b + m = e THEN 0 ELSE b + m
  BY <1>1, <1>3 DEF After
<1> QED BY <1>2, <1>3, <1>4, <1>5, <1>8, <1>9, <1>10

\* With less than Lag frames behind, one more fits, and leaves the reader's
\* frames alone.
LEMMA WriteFits ==
    ASSUME NEW c \in CellSeqs,
           NEW a \in 0..BufSize - 1, NEW b \in 0..BufSize - 1, NEW e \in 0..BufSize,
           NEW n \in Nat, NEW f \in Nat, NEW s \in Nat, NEW m \in Sizes,
           LagFits(s), Laid(c, a, b, e, n, s), FirstAt(c, a, b, n, f), Room(a, b, e, n, f, s),
           n - f + 1 < Lag
    PROVE  a + m < BufSize /\ (a < b => a + m < b) /\ Room(a + m, b, e, n + 1, f, s)
<1> USE SizesAssumption
<1>1. m \in 2..s
  BY DEF LagFits
<1>2. /\ (n + 1 - f + 1) * s = (n - f + 1) * s + s
      /\ (n - f + 1) * s \in Int /\ (n - f + 1) * s + s <= Lag * s /\ Lag * s \in Int
  <2>1. n - f + 1 \in Int /\ n + 1 - f + 1 = n - f + 1 + 1
    OBVIOUS
  <2>2. (n - f + 1 + 1) * s = (n - f + 1) * s + s /\ (n - f + 1) * s \in Int
    BY <2>1, OneMore, Times
  <2>3. n - f + 1 + 1 <= Lag
    OBVIOUS
  <2>4. (n - f + 1 + 1) * s <= Lag * s /\ Lag * s \in Int
    BY <2>3, Times
  <2> QED BY <2>1, <2>2, <2>4
<1>3. a + m < Threshold + ((n - f + 1) * s + s) /\ a + m < BufSize
  BY <1>1, <1>2 DEF Room, LagFits
<1>4. ASSUME a < b PROVE a + m < b
  <2>1. e - b + a <= (n - f + 1) * s
    BY <1>4, FirstFrame DEF Room
  <2>2. Lag * s < e
    BY <1>2 DEF Room, LagFits
  <2> QED BY <1>1, <1>2, <2>1, <2>2
<1>5. Room(a + m, b, e, n + 1, f, s)
  <2>1. n + 1 - f + 1 \in 0..Lag /\ Threshold <= e
    BY DEF Room
  <2>2. a + m < Threshold + (n + 1 - f + 1) * s
    BY <1>2, <1>3
  <2>3. a + m < b => a < b
    BY <1>1
  <2> QED BY <2>1, <2>2, <2>3 DEF Room
<1> QED BY <1>3, <1>4, <1>5

\* The data the reader measures lies in the buffer even where its scan runs on
\* past the end of the lap.
LEMMA ReadFits ==
    ASSUME NEW c \in CellSeqs,
           NEW a \in 0..BufSize - 1, NEW b \in 0..BufSize - 1, NEW e \in 0..BufSize,
           NEW n \in Nat, NEW f \in Nat, NEW s \in Nat,
           LagFits(s), Laid(c, a, b, e, n, s), FirstAt(c, a, b, n, f), Room(a, b, e, n, f, s),
           a # b
    PROVE  Covers(c, a, b, e, IF a >= b THEN a - b ELSE a + e - b)
<1> USE SizesAssumption
<1>1. /\ c[b][3] \in 2..s
      /\ b + c[b][3] <= IF a < b THEN e ELSE a
      /\ a < b => a <= (n - f) * s
  BY FirstFrame DEF Room
<1>2. CASE a >= b
  BY <1>1, <1>2 DEF Covers
<1>3. CASE a < b
  <2>1. n - f <= Lag - 1
    BY DEF Room
  <2>2. (n - f) * s <= (Lag - 1) * s /\ (Lag - 1) * s \in Int /\ (n - f) * s \in Int
    BY <2>1, Times
  <2>3. (2 * Lag - 1) * s = Lag * s + (Lag - 1) * s /\ Lag * s \in Int
    OBVIOUS
  <2>4. e < Threshold + Lag * s /\ Threshold + (2 * Lag - 1) * s <= BufSize + 1
    BY <1>3 DEF Room, LagFits
  <2>5. a + e <= BufSize
    BY <1>1, <1>3, <2>2, <2>3, <2>4
  <2> QED BY <1>1, <1>3, <2>5 DEF Covers
<1> QED BY <1>2, <1>3

\* The reader's update drops exactly the frame it sent, turns the lap if it is
\* due, and leaves a state with the same guarantees.
LEMMA ReaderAdvances ==
    ASSUME NEW c \in CellSeqs,
           NEW a \in 0..BufSize - 1, NEW b \in 0..BufSize - 1, NEW e \in 0..BufSize,
           NEW n \in Nat, NEW f \in Nat, NEW s \in Nat, NEW l \in Nat,
           LagFits(s), Laid(c, a, b, e, n, s), FirstAt(c, a, b, n, f), Room(a, b, e, n, f, s),
           Cuts(c, a, b, e, l),
           NEW a2, NEW b2, NEW e2,
           e2 = IF a >= Threshold THEN a ELSE e,
           a2 = IF a >= Threshold THEN 0 ELSE a,
           b2 = IF e2 # -1 /\ indexAdd(b, l) >= e2 THEN 0 ELSE indexAdd(b, l)
    PROVE  Laid(c, a2, b2, e2, n, s) /\ FirstAt(c, a2, b2, n, f + 1) /\ Room(a2, b2, e2, n, f + 1, s)
<1> USE SizesAssumption
<1> DEFINE m == c[b][3]
           q == After(c, b, a, b, e)
<1>1. /\ m \in 2..s
      /\ b + m <= IF a < b THEN e ELSE a
      /\ f <= n
      /\ a < b => a <= (n - f) * s
      /\ FrameInOrder(c, b, a, b, e, n)
      /\ q = IF a < b /\ b + m = e THEN 0 ELSE b + m
  <2>1. a # b /\ (a < b => b < e)
    BY DEF Room, Cuts
  <2> HIDE DEF q
  <2> QED BY <2>1, FirstFrame DEF q
<1>2. /\ q \in 0..BufSize - 1
      /\ a < q => a < b /\ q < e
      /\ Laid(c, a, q, e, n, s)
  BY DropFrame DEF Room, Cuts, FirstAt
<1>3. FirstAt(c, a, q, n, f + 1)
  <2>1. c[b][1] = f
    BY DEF FirstAt, Cuts
  <2>2. q = a => n = f
    BY <1>1, <2>1 DEF FrameInOrder
  <2>3. q # a => c[q][1] = f + 1 /\ c[q][2] = 0
    BY <1>1, <2>1 DEF FrameInOrder
  <2> HIDE DEF q
  <2> QED BY <2>2, <2>3, <1>1 DEF FirstAt
<1>4. /\ n - (f + 1) + 1 = n - f /\ n - f \in 0..Lag
      /\ (n - f) * s \in Nat /\ (n - f) * s <= Lag * s /\ Lag * s \in Nat
      /\ (n - f + 1) * s <= Lag * s
  <2>1. n - f \in 0..Lag /\ n - f + 1 <= Lag /\ n - f + 1 \in Int
    BY <1>1 DEF Room
  <2>2. 0 * s = 0
    OBVIOUS
  <2> QED BY <2>1, <2>2, Times
<1>5. Threshold <= e
  BY DEF Room
<1>6. b + l <= BufSize /\ (l = m \/ (a < b /\ b + m = e /\ m <= l))
  BY DEF Cuts
<1>7. CASE a >= Threshold
  <2>1. a >= b
    BY <1>1, <1>4, <1>7 DEF LagFits
  <2>2. q = b + m /\ l = m /\ indexAdd(b, l) = b + m /\ b + m <= a
    <3>1. q = b + m /\ l = m /\ b + m <= a
      BY <1>1, <1>6, <2>1
    <3> HIDE DEF m, q
    <3> QED BY <3>1, <1>1 DEF indexAdd
  <2>3. e2 = a /\ a2 = 0 /\ b2 = IF q = a THEN 0 ELSE q
    <3> HIDE DEF m, q
    <3> QED BY <1>7, <2>2
  <2>4. CASE q = a
    <3>1. b2 = 0 /\ n = f
      BY <2>3, <2>4, <1>3 DEF FirstAt
    <3>2. DataAt(0, 0, a) = {}
      BY DEF DataAt
    <3>3. Laid(c, a2, b2, e2, n, s)
      BY <2>3, <3>1, <3>2 DEF Laid
    <3>4. FirstAt(c, a2, b2, n, f + 1)
      BY <2>3, <3>1 DEF FirstAt
    <3>5. Room(a2, b2, e2, n, f + 1, s)
      BY <2>3, <3>1, <1>4, <1>7 DEF Room
    <3> QED BY <3>3, <3>4, <3>5
  <2>5. CASE q # a
    <3>1. b2 = q /\ 0 < q /\ q < a
      <4> HIDE DEF m, q
      <4> QED BY <2>2, <2>3, <2>5, <1>1
    <3>2. Laid(c, a2, b2, e2, n, s)
      <4> HIDE DEF q
      <4> QED BY <2>3, <3>1, <1>2, TurnLap
    <3>3. FirstAt(c, a2, b2, n, f + 1)
      <4> HIDE DEF q
      <4> QED BY <2>3, <3>1, <1>3 DEF FirstAt
    <3>4. a < Threshold + Lag * s
      BY <1>4 DEF Room
    <3>5. Room(a2, b2, e2, n, f + 1, s)
      <4> HIDE DEF q
      <4> QED BY <2>3, <3>1, <3>4, <1>4, <1>7 DEF Room
    <3> QED BY <3>2, <3>3, <3>5
  <2> QED BY <2>4, <2>5
<1>8. CASE a < Threshold
  <2>1. e2 = e /\ a2 = a
    BY <1>8
  <2>2. b2 = q
    <3> HIDE DEF m, q
    <3>1. CASE a >= b
      <4>1. l = m /\ q = b + m /\ b + m <= a
        BY <1>1, <1>6, <3>1
      <4>2. indexAdd(b, l) = b + m
        BY <4>1, <1>1 DEF indexAdd
      <4> QED BY <4>1, <4>2, <2>1, <1>1, <1>5, <1>8
    <3>2. CASE a < b /\ b + m < e
      <4>1. l = m /\ q = b + m
        BY <1>1, <1>6, <3>2
      <4>2. indexAdd(b, l) = b + m
        BY <4>1, <3>2, <1>1 DEF indexAdd
      <4> QED BY <4>1, <4>2, <2>1, <3>2, <1>1
    <3>3. CASE a < b /\ b + m = e
      <4>1. q = 0 /\ e <= b + l
        BY <1>1, <1>6, <3>3
      <4>2. indexAdd(b, l) = 0 \/ indexAdd(b, l) >= e
        BY <4>1, <1>6 DEF indexAdd
      <4> QED BY <4>1, <4>2, <2>1
    <3> QED BY <3>1, <3>2, <3>3, <1>1
  <2>3. Room(a, q, e, n, f + 1, s)
    <3>1. a < q => q < e /\ e < Threshold + Lag * s
      BY <1>2 DEF Room
    <3> HIDE DEF q
    <3> QED BY <3>1, <1>4, <1>5, <1>8 DEF Room
  <2> QED BY <2>1, <2>2, <2>3, <1>2, <1>3
<1> QED BY <1>7, <1>8

\* The search for the second start code finds the end of the first frame.
LEMMA FrameEndIsFrame ==
    ASSUME len \in Nat, base \in 0..BufSize - 1,
           NEW m \in Nat, 2 <= m, m <= len, base + m <= BufSize,
           \A j \in 0..m - 1 : cells[base + j][2] = j
    PROVE  /\ FrameEnd \in m..len
           /\ m = len => FrameEnd = m
           /\ m < len /\ base + m < BufSize /\ cells[base + m][2] = 0 => FrameEnd = m
<1> USE SizesAssumption
<1>1. \A j \in 0..m - 1 : IsStart(j) <=> j = 0
  BY DEF IsStart, At
<1>2. \A j \in 1..m - 1 : ~SecondStart(j)
  BY <1>1 DEF SecondStart
<1>3. FrameEnd \in m..len
  <2>1. CASE \E j \in 1..len - 1 : SecondStart(j)
    <3>1. FrameEnd \in 1..len - 1 /\ SecondStart(FrameEnd)
      BY <2>1 DEF FrameEnd
    <3>2. FrameEnd \notin 1..m - 1
      BY <1>2, <3>1
    <3> QED BY <3>1, <3>2
  <2>2. CASE ~ \E j \in 1..len - 1 : SecondStart(j)
    BY <2>2 DEF FrameEnd
  <2> QED BY <2>1, <2>2
<1>4. ASSUME m < len, base + m < BufSize, cells[base + m][2] = 0
      PROVE  FrameEnd = m
  <2>1. IsStart(m)
    BY <1>4 DEF IsStart, At
  <2>2. SecondStart(m)
    <3>1. {i \in 0..m - 1 : IsStart(i)} = {0}
      BY <1>1
    <3> QED BY <2>1, <3>1, FS_Singleton DEF SecondStart
  <2>3. ASSUME NEW j \in m + 1..len - 1, SecondStart(j)
        PROVE  FALSE
    <3> DEFINE starts == {i \in 0..j - 1 : IsStart(i)}
    <3>1. 0 \in starts /\ m \in starts
      BY <1>1, <2>1
    <3>2. IsFiniteSet(starts)
      <4>1. IsFiniteSet(0..j - 1) /\ starts \subseteq 0..j - 1
        BY FS_Interval
      <4> QED BY <4>1, FS_Subset
    <3>3. Cardinality(starts) = 1
      BY <2>3 DEF SecondStart
    <3>4. PICK x : starts = {x}
      <4> HIDE DEF starts
      <4> QED BY <3>2, <3>3, FS_Singleton
    <3> QED BY <3>1, <3>4
  <2>4. \E j \in 1..len - 1 : SecondStart(j)
    BY <2>2, <1>4
  <2>5. FrameEnd \in 1..len - 1 /\ SecondStart(FrameEnd)
    BY <2>4 DEF FrameEnd
  <2> QED BY <2>3, <2>5, <1>3
<1> QED BY <1>3, <1>4
=============================================================================
