--------------------------- MODULE Capture_proofs ---------------------------
(***************************************************************************)
(* Proofs about a capture stream: first the StereoRing its worker writes,  *)
(* then CaptureRecovery, the life of the worker.                           *)
(*                                                                         *)
(* For every capacity and cursor size that RingAssumption allows -- 2^32   *)
(* and any power of two below it -- the ring is race-free and reads frames *)
(* in the order they were written.  For any number of sources, any         *)
(* endpoints and names, and any number of plugs, edits, clicks and faults, *)
(* the workers follow the selection and show their end.                    *)
(***************************************************************************)
EXTENDS StereoRing, CaptureRecovery, FiniteSetTheorems, TLAPS

-----------------------------------------------------------------------------
(* StereoRing: remainders.                                                 *)

(* Every natural number is a quotient and a remainder.                     *)
LEMMA DivMod ==
  ASSUME NEW a \in Nat, NEW m \in Nat, m > 0
  PROVE  \E q \in Nat, r \in 0 .. m - 1 : a = m * q + r /\ a % m = r
<1> DEFINE q == a \div m   r == a % m
<1>1. q \in Int /\ r \in 0 .. m - 1
  BY SMTT(30)
<1>2. a = m * q + r
  BY SMTT(30)
<1>3. q >= 0
  <2> HIDE DEF q, r
  <2> SUFFICES ASSUME q <= -1 PROVE FALSE
    BY <1>1
  <2>1. m * q <= -m
    BY <1>1, SMTT(30)
  <2> QED
    BY <1>1, <1>2, <2>1
<1> QED
  BY <1>1, <1>2, <1>3

(* The quotient and the remainder are the only such pair.                  *)
LEMMA ModUnique ==
  ASSUME NEW m \in Nat, m > 0, NEW q \in Nat, NEW r \in 0 .. m - 1,
         NEW x, x = m * q + r
  PROVE  x % m = r
BY SMTT(30)

LEMMA MulAdd ==
  ASSUME NEW m \in Int, NEW p \in Int, NEW q \in Int
  PROVE  /\ m * p \in Int /\ m * q \in Int
         /\ m * (p + q) = m * p + m * q
         /\ m * (p - q) = m * p - m * q
         /\ m * (1 + p) = m + m * p
OBVIOUS

LEMMA MulMul ==
  ASSUME NEW m \in Nat, NEW p \in Nat, NEW q \in Nat
  PROVE  p * q \in Nat /\ (m * p) * q = m * (p * q)
OBVIOUS

(* Multiples of m lie at least m apart.                                    *)
LEMMA ProductGrows ==
  ASSUME NEW m \in Nat, m > 0, NEW p \in Int, NEW q \in Int, p < q
  PROVE  m * p + m <= m * q
<1>1. m * q = m * p + m + m * (q - p - 1)
  BY SMTT(30)
<1>2. m * (q - p - 1) >= 0
  BY SMTT(30)
<1> QED
  BY <1>1, <1>2, SMTT(30)

LEMMA ModRange ==
  ASSUME NEW a \in Nat, NEW m \in Nat, m > 0
  PROVE  a % m \in 0 .. m - 1 /\ a % m \in Nat
<1>1. PICK q \in Nat, r \in 0 .. m - 1 : a = m * q + r /\ a % m = r
  BY DivMod
<1> QED
  BY <1>1

LEMMA ModSmall ==
  ASSUME NEW m \in Nat, m > 0, NEW r \in 0 .. m - 1
  PROVE  r % m = r
<1>1. r = m * 0 + r
  OBVIOUS
<1> QED
  BY <1>1, ModUnique

(* Wrapping a cursor before it is advanced changes nothing.                *)
LEMMA ModAdd ==
  ASSUME NEW a \in Nat, NEW n \in Nat, NEW m \in Nat, m > 0
  PROVE  ((a % m) + n) % m = (a + n) % m
<1>1. PICK q \in Nat, s \in 0 .. m - 1 : a = m * q + s /\ a % m = s
  BY DivMod
<1>2. s \in Nat /\ s + n \in Nat
  OBVIOUS
<1>3. PICK p \in Nat, r \in 0 .. m - 1 : s + n = m * p + r /\ (s + n) % m = r
  BY <1>2, DivMod
<1>4. m * (q + p) = m * q + m * p /\ m * q \in Int /\ m * p \in Int
  BY MulAdd
<1>5. a + n = m * (q + p) + r /\ q + p \in Nat
  BY <1>1, <1>2, <1>3, <1>4
<1>6. (a + n) % m = r
  BY <1>5, ModUnique
<1> QED
  BY <1>1, <1>3, <1>6

(* The distance of two wrapped cursors that are less than a turn apart.    *)
LEMMA ModDistance ==
  ASSUME NEW w \in Nat, NEW r \in Nat, NEW m \in Nat, m > 0,
         r <= w, w - r < m
  PROVE  ((w % m) + m - (r % m)) % m = w - r
<1>1. PICK a \in Nat, x \in 0 .. m - 1 : w = m * a + x /\ w % m = x
  BY DivMod
<1>2. PICK b \in Nat, y \in 0 .. m - 1 : r = m * b + y /\ r % m = y
  BY DivMod
<1> DEFINE k == 1 + (b - a)
<1>3. k \in Int /\ m * a \in Int /\ m * b \in Int /\ m * k = m + m * b - m * a
  <2>1. m * (b - a) = m * b - m * a /\ b - a \in Int
    BY MulAdd
  <2>2. m * (1 + (b - a)) = m + m * (b - a)
    BY <2>1, MulAdd
  <2> QED
    BY <2>1, <2>2, MulAdd
<1> HIDE DEF k
<1>4. x + m - y = m * k + (w - r) /\ w - r \in 0 .. m - 1
  BY <1>1, <1>2, <1>3
<1>5. k >= 0
  <2> SUFFICES ASSUME k < 0 PROVE FALSE
    BY <1>3
  <2>1. m * k + m <= m * 0 /\ m * 0 = 0 /\ m * k \in Int
    BY <1>3, ProductGrows
  <2> QED
    BY <1>4, <2>1
<1>6. k \in Nat
  BY <1>3, <1>5
<1>7. (x + m - y) % m = w - r
  BY <1>4, <1>6, ModUnique
<1> QED
  BY <1>1, <1>2, <1>7

LEMMA Turns ==
  ASSUME NEW m \in Nat, NEW c \in Nat, c > 0, m % c = 0
  PROVE  \E k \in Nat : m = c * k
<1>1. PICK k \in Nat, z \in 0 .. c - 1 : m = c * k + z /\ m % c = z
  BY DivMod
<1>2. c * k \in Int
  BY MulAdd
<1> QED
  BY <1>1, <1>2

(* Frames less than a ring apart have different slots.                     *)
LEMMA ModDistinct ==
  ASSUME NEW x \in Nat, NEW y \in Nat, NEW c \in Nat, c > 0,
         x < y, y - x < c
  PROVE  x % c # y % c
<1> SUFFICES ASSUME x % c = y % c PROVE FALSE
  OBVIOUS
<1>1. PICK p \in Nat, s \in 0 .. c - 1 : x = c * p + s /\ x % c = s
  BY DivMod
<1>2. PICK q \in Nat, t \in 0 .. c - 1 : y = c * q + t /\ y % c = t
  BY DivMod
<1>3. c * p \in Int /\ c * q \in Int
  BY MulAdd
<1>4. CASE p < q
  <2>1. c * p + c <= c * q
    BY <1>4, ProductGrows
  <2> QED
    BY <1>1, <1>2, <1>3, <2>1
<1>5. CASE q < p
  <2>1. c * q + c <= c * p
    BY <1>5, ProductGrows
  <2> QED
    BY <1>1, <1>2, <1>3, <2>1
<1>6. CASE p = q
  BY <1>1, <1>2, <1>6
<1> QED
  BY <1>4, <1>5, <1>6

-----------------------------------------------------------------------------
(* StereoRing: the inductive invariant.                                    *)

(* The cursors are the counts of frames, wrapped.                          *)
Wrapped ==
  /\ write = sent % CursorSize
  /\ read = removed % CursorSize

Bounded ==
  /\ removed <= sent
  /\ sent <= removed + Capacity

(* Every frame from the oldest to the last one written is in its slot.     *)
Stored ==
  \A k \in Nat :
    removed <= k /\ k < sent + pCount => data[k % Capacity] = k + 1

(* The headroom a producer was given stays true while it writes.           *)
Producer ==
  /\ pPc = "idle" => pSpace = 0 /\ pCount = 0
  /\ sent + pSpace <= removed + Capacity
  /\ pCount <= pSpace
  /\ sent + pCount <= MaxFrames

(* So do the frames a consumer was told of.                                *)
Consumer ==
  /\ cAvail <= sent - removed
  /\ Len(cBuf) <= cAvail
  /\ \A i \in 1 .. Len(cBuf) : cBuf[i] = removed + i

RInv == RingTypeOK /\ Wrapped /\ Bounded /\ Stored /\ Producer /\ Consumer

LEMMA Constants ==
  /\ Capacity \in Nat /\ Capacity > 0
  /\ CursorSize \in Nat /\ CursorSize > Capacity /\ CursorSize > 0
  /\ CursorSize % Capacity = 0
  /\ MaxFrames \in Nat
BY RingAssumption DEF RingAssumption

LEMMA TypeFacts ==
  ASSUME RingTypeOK
  PROVE  /\ sent \in Nat /\ removed \in Nat
         /\ pSpace \in Nat /\ pCount \in Nat /\ cAvail \in Nat
         /\ write \in Nat /\ read \in Nat
         /\ Len(cBuf) \in Nat
BY Constants DEF RingTypeOK, Frames, Cursors

(* The distance of the cursors is the number of frames published and not   *)
(* removed, whether or not a cursor has wrapped.                           *)
LEMMA DistanceIs ==
  ASSUME RingTypeOK, Wrapped, Bounded
  PROVE  Distance(write, read) = sent - removed
<1>1. sent \in Nat /\ removed \in Nat
  BY TypeFacts
<1>2. removed <= sent /\ sent - removed < CursorSize
  BY <1>1, Constants DEF Bounded
<1>3. ((sent % CursorSize) + CursorSize - (removed % CursorSize)) % CursorSize
        = sent - removed
  BY <1>1, <1>2, Constants, ModDistance
<1> QED
  BY <1>3 DEF Wrapped, Distance, Wrap

(* The slot of a wrapped cursor is the slot of the count it wraps.         *)
LEMMA SlotOfCount ==
  \A a \in Nat, i \in Nat :
    ((a % CursorSize) + i) % Capacity = (a + i) % Capacity
<1> SUFFICES ASSUME NEW a \in Nat, NEW i \in Nat
             PROVE  ((a % CursorSize) + i) % Capacity = (a + i) % Capacity
  OBVIOUS
<1> DEFINE c == Capacity   m == CursorSize
<1>0. c \in Nat /\ c > 0 /\ m \in Nat /\ m > 0
  BY Constants
<1>1. PICK k \in Nat : m = c * k
  BY Constants, Turns
<1> HIDE DEF c, m
<1>2. PICK q \in Nat, s \in 0 .. m - 1 : a = m * q + s /\ a % m = s
  BY <1>0, DivMod
<1>3. s \in Nat /\ s + i \in Nat
  BY <1>0
<1>4. PICK p \in Nat, r \in 0 .. c - 1 : s + i = c * p + r /\ (s + i) % c = r
  BY <1>0, <1>3, DivMod
<1>5. k * q \in Nat /\ m * q = c * (k * q)
  BY <1>0, <1>1, MulMul
<1>6. /\ c * (k * q + p) = c * (k * q) + c * p
      /\ c * (k * q) \in Int /\ c * p \in Int
  BY <1>0, <1>5, MulAdd
<1>7. a + i = c * (k * q + p) + r
  BY <1>2, <1>3, <1>4, <1>5, <1>6
<1>8. \A x : x = a + i => x % c = r
  <2> SUFFICES ASSUME NEW x, x = a + i PROVE x % c = r
    OBVIOUS
  <2> DEFINE j == k * q + p
  <2>1. j \in Nat
    BY <1>5
  <2>2. x = c * j + r
    BY <1>7
  <2> HIDE DEF j
  <2>3. r \in 0 .. c - 1
    OBVIOUS
  <2> QED
    BY ONLY <1>0, <2>1, <2>2, <2>3, ModUnique
<1>9. ((a % m) + i) % c = (a + i) % c
  BY <1>2, <1>4, <1>8
<1> QED
  BY <1>9 DEF c, m

LEMMA SlotIs ==
  ASSUME RingTypeOK, Wrapped, NEW i \in Nat
  PROVE  /\ Slot(write, i) = (sent + i) % Capacity
         /\ Slot(read, i) = (removed + i) % Capacity
<1>1. sent \in Nat /\ removed \in Nat
  BY TypeFacts
<1>2. ((sent % CursorSize) + i) % Capacity = (sent + i) % Capacity
  BY <1>1, SlotOfCount
<1>3. ((removed % CursorSize) + i) % Capacity = (removed + i) % Capacity
  BY <1>1, SlotOfCount
<1> QED
  BY <1>2, <1>3 DEF Wrapped, Slot

LEMMA SlotInRing ==
  ASSUME NEW n \in Nat
  PROVE  n % Capacity \in Slots
BY Constants, ModRange DEF Slots

(* Advancing a cursor keeps it the remainder of its count.                 *)
LEMMA Advance ==
  ASSUME NEW a \in Nat, NEW n \in Nat
  PROVE  /\ Wrap((a % CursorSize) + n) = (a + n) % CursorSize
         /\ Wrap((a % CursorSize) + n) \in Cursors
<1>1. ((a % CursorSize) + n) % CursorSize = (a + n) % CursorSize
  BY Constants, ModAdd
<1>2. (a + n) % CursorSize \in Cursors
  BY Constants, ModRange DEF Cursors
<1> QED
  BY <1>1, <1>2 DEF Wrap

LEMMA RingStarts == RingInit => RInv
<1> SUFFICES ASSUME RingInit PROVE RInv
  OBVIOUS
<1> USE DEF RingInit
<1>1. 0 % CursorSize = 0
  BY Constants, ModSmall
<1>2. RingTypeOK
  BY Constants DEF RingTypeOK, Slots, Frames, Cursors
<1>3. Wrapped
  BY <1>1 DEF Wrapped
<1>4. Bounded /\ Stored /\ Producer /\ Consumer
  BY Constants DEF Bounded, Stored, Producer, Consumer
<1> QED
  BY <1>2, <1>3, <1>4 DEF RInv

LEMMA RingStep == RInv /\ [RingNext]_ringVars => RInv'
<1> SUFFICES ASSUME RInv, [RingNext]_ringVars PROVE RInv'
  OBVIOUS
<1>t. RingTypeOK /\ Wrapped /\ Bounded /\ Stored /\ Producer /\ Consumer
  BY DEF RInv
<1>n. /\ sent \in Nat /\ removed \in Nat
      /\ pSpace \in Nat /\ pCount \in Nat /\ cAvail \in Nat
      /\ Len(cBuf) \in Nat
  BY <1>t, TypeFacts
<1>d. Distance(write, read) = sent - removed
  BY <1>t, DistanceIs
<1>1. CASE BeginWrite
  <2> USE <1>1 DEF BeginWrite, prodVars, consVars
  <2>1. pSpace' = Capacity - (sent - removed)
    BY <1>d DEF Headroom
  <2>2. pSpace' \in 0 .. Capacity
    BY <2>1, <1>t, <1>n, Constants DEF Bounded
  <2>3. RingTypeOK'
    BY <2>2, <1>t, Constants DEF RingTypeOK
  <2>4. Wrapped' /\ Bounded' /\ Consumer'
    BY <1>t DEF Wrapped, Bounded, Consumer
  <2>5. Stored'
    BY <1>t, <1>n DEF Stored
  <2>6. Producer'
    BY <2>1, <1>t, <1>n, Constants DEF Producer, Bounded
  <2> QED
    BY <2>3, <2>4, <2>5, <2>6 DEF RInv
<1>2. CASE WriteFrame
  <2> USE <1>2 DEF WriteFrame, prodVars, consVars
  <2> DEFINE f == sent + pCount   s == Slot(write, pCount)
  <2>1. f \in Nat /\ f < MaxFrames /\ pCount < pSpace
    BY <1>n
  <2>2. s = f % Capacity /\ s \in Slots
    BY <1>t, <1>n, <2>1, SlotIs, SlotInRing
  <2>3. data' = [data EXCEPT ![s] = f + 1] /\ data \in [Slots -> Frames]
    BY <1>t DEF RingTypeOK
  <2>4. RingTypeOK'
    <3>1. f + 1 \in Frames
      BY <2>1, Constants DEF Frames
    <3>2. data' \in [Slots -> Frames]
      BY <2>3, <3>1
    <3>3. pCount' \in 0 .. Capacity
      BY <2>1, <1>t, <1>n, Constants DEF RingTypeOK
    <3> QED
      BY <3>2, <3>3, <1>t DEF RingTypeOK
  <2>5. Wrapped' /\ Bounded' /\ Consumer'
    BY <1>t DEF Wrapped, Bounded, Consumer
  <2>6. Stored'
    <3> SUFFICES ASSUME NEW k \in Nat, removed <= k, k < f + 1
                 PROVE  data'[k % Capacity] = k + 1
      BY <1>n DEF Stored
    <3>1. CASE k = f
      BY <3>1, <2>2, <2>3
    <3>2. CASE k < f
      <4>1. f - k < Capacity
        BY <3>2, <2>1, <1>t, <1>n, Constants DEF Producer
      <4>2. k % Capacity # f % Capacity
        BY <3>2, <4>1, <2>1, Constants, ModDistinct
      <4>3. k % Capacity \in Slots /\ data[k % Capacity] = k + 1
        BY <3>2, <1>t, SlotInRing DEF Stored
      <4> HIDE DEF f, s
      <4> QED
        BY <4>2, <4>3, <2>2, <2>3
    <3> QED
      BY <3>1, <3>2, <2>1
  <2>7. Producer'
    BY <2>1, <1>t, <1>n, Constants DEF Producer
  <2> QED
    BY <2>4, <2>5, <2>6, <2>7 DEF RInv
<1>3. CASE EndWrite
  <2> USE <1>3 DEF EndWrite, Published, prodVars, consVars
  <2>1. write' = (sent + pCount) % CursorSize /\ write' \in Cursors
    BY <1>t, <1>n, Advance DEF Wrapped
  <2>2. sent' = sent + pCount /\ sent' \in Nat /\ sent' <= MaxFrames
    BY <1>t, <1>n DEF Producer
  <2>3. RingTypeOK'
    BY <2>1, <2>2, <1>t, Constants DEF RingTypeOK, Frames
  <2>4. Wrapped'
    BY <2>1, <2>2, <1>t DEF Wrapped
  <2>5. Bounded' /\ Producer' /\ Consumer'
    BY <2>2, <1>t, <1>n, Constants DEF Bounded, Producer, Consumer
  <2>6. Stored'
    BY <2>2, <1>t, <1>n DEF Stored
  <2> QED
    BY <2>3, <2>4, <2>5, <2>6 DEF RInv
<1>4. CASE BeginRead
  <2> USE <1>4 DEF BeginRead, prodVars, consVars
  <2>1. cAvail' = sent - removed /\ cAvail' \in 0 .. Capacity
    BY <1>d, <1>t, <1>n, Constants DEF Bounded
  <2>2. RingTypeOK'
    BY <2>1, <1>t DEF RingTypeOK
  <2>3. Wrapped' /\ Bounded' /\ Stored' /\ Producer'
    BY <1>t DEF Wrapped, Bounded, Stored, Producer
  <2>4. Consumer'
    BY <2>1, <1>n DEF Consumer
  <2> QED
    BY <2>2, <2>3, <2>4 DEF RInv
<1>5. CASE ReadFrame
  <2> USE <1>5 DEF ReadFrame, prodVars, consVars
  <2> DEFINE k == removed + Len(cBuf)
  <2>1. k \in Nat /\ removed <= k /\ k < sent + pCount
    BY <1>t, <1>n DEF Consumer
  <2>2. Slot(read, Len(cBuf)) = k % Capacity /\ k % Capacity \in Slots
    BY <2>1, <1>t, <1>n, SlotIs, SlotInRing
  <2>3. data[k % Capacity] = k + 1 /\ data[k % Capacity] \in Frames
    BY <2>1, <2>2, <1>t DEF Stored, RingTypeOK
  <2>4. cBuf' = Append(cBuf, k + 1) /\ k + 1 \in Frames /\ cBuf \in Seq(Frames)
    BY <2>2, <2>3, <1>t DEF RingTypeOK
  <2>5. RingTypeOK'
    BY <2>4, <1>t DEF RingTypeOK
  <2>6. Wrapped' /\ Bounded' /\ Stored' /\ Producer'
    BY <1>t DEF Wrapped, Bounded, Stored, Producer
  <2>7. Consumer'
    BY <2>4, <1>t, <1>n DEF Consumer
  <2> QED
    BY <2>5, <2>6, <2>7 DEF RInv
<1>6. ASSUME NEW n \in 0 .. Capacity, EndRead(n)
      PROVE  RInv'
  <2> USE <1>6 DEF EndRead, prodVars, consVars
  <2>1. n \in Nat /\ n <= cAvail
    BY Constants
  <2>2. read' = (removed + n) % CursorSize /\ read' \in Cursors
    BY <2>1, <1>t, <1>n, Advance DEF Wrapped
  <2>3. removed' = removed + n /\ removed' \in Nat /\ removed' <= sent
    BY <2>1, <1>t, <1>n DEF Consumer
  <2>4. taken' \in Seq(Frames)
    <3>1. CASE cBuf = <<>>
      BY <3>1
    <3>2. CASE cBuf # <<>>
      <4>1. n <= Len(cBuf) /\ cBuf \in Seq(Frames)
        BY <3>2, <1>t DEF RingTypeOK
      <4> QED
        BY <3>2, <4>1, <2>1
    <3> QED
      BY <3>1, <3>2
  <2>5. RingTypeOK'
    BY <2>2, <2>3, <2>4, <1>t, <1>n, Constants DEF RingTypeOK, Frames
  <2>6. Wrapped'
    BY <2>2, <2>3, <1>t DEF Wrapped
  <2>7. Bounded' /\ Producer'
    BY <2>1, <2>3, <1>t, <1>n, Constants DEF Bounded, Producer
  <2>8. Stored'
    BY <2>1, <2>3, <1>t, <1>n DEF Stored
  <2>9. Consumer'
    BY <2>3, <1>n DEF Consumer
  <2> QED
    BY <2>5, <2>6, <2>7, <2>8, <2>9 DEF RInv
<1>7. CASE DropLoad
  <2> USE <1>7 DEF DropLoad, prodVars, consVars
  <2>1. cAvail' = sent - removed /\ cAvail' \in 0 .. Capacity
    BY <1>d, <1>t, <1>n, Constants DEF Bounded
  <2>2. RingTypeOK'
    BY <2>1, <1>t DEF RingTypeOK
  <2>3. Wrapped' /\ Bounded' /\ Stored' /\ Producer'
    BY <1>t DEF Wrapped, Bounded, Stored, Producer
  <2>4. Consumer'
    BY <2>1, <1>n DEF Consumer
  <2> QED
    BY <2>2, <2>3, <2>4 DEF RInv
<1>8. CASE DropStore
  <2> USE <1>8 DEF DropStore, prodVars, consVars
  <2>2. read' = (removed + cAvail) % CursorSize /\ read' \in Cursors
    BY <1>t, <1>n, Advance DEF Wrapped
  <2>3. removed' = removed + cAvail /\ removed' \in Nat /\ removed' <= sent
    BY <1>t, <1>n DEF Consumer
  <2>5. RingTypeOK'
    BY <2>2, <2>3, <1>t, <1>n, Constants DEF RingTypeOK, Frames
  <2>6. Wrapped'
    BY <2>2, <2>3, <1>t DEF Wrapped
  <2>7. Bounded' /\ Producer'
    BY <2>3, <1>t, <1>n, Constants DEF Bounded, Producer
  <2>8. Stored'
    BY <2>3, <1>t, <1>n DEF Stored
  <2>9. Consumer'
    BY <2>3, <1>n DEF Consumer
  <2> QED
    BY <2>5, <2>6, <2>7, <2>8, <2>9 DEF RInv
<1>9. CASE UNCHANGED ringVars
  BY <1>9, <1>t DEF ringVars, prodVars, consVars, RInv, RingTypeOK, Wrapped, Bounded,
     Stored, Producer, Consumer, Slots, Frames, Cursors
<1> QED
  BY <1>1, <1>2, <1>3, <1>4, <1>5, <1>6, <1>7, <1>8, <1>9 DEF RingNext

THEOREM RingInvariant == RingSpec => []RInv
BY RingStarts, RingStep, PTL DEF RingSpec

(* The type invariant of the ring.                                         *)
THEOREM RingTypes == RingSpec => []RingTypeOK
<1>1. RInv => RingTypeOK
  BY DEF RInv
<1> QED
  BY <1>1, RingInvariant, PTL

(* Producer and consumer never touch the same slot, for any capacity and   *)
(* cursor width: StereoRing needs no lock.                                 *)
THEOREM RaceFree == RingSpec => []NoRace
<1>1. RInv => NoRace
  <2> SUFFICES ASSUME RInv,
                      NEW i \in pCount .. pSpace - 1, NEW j \in 0 .. cAvail - 1
               PROVE  Slot(write, i) # Slot(read, j)
    BY DEF NoRace
  <2>1. RingTypeOK /\ Wrapped /\ Bounded /\ Producer /\ Consumer
    BY DEF RInv
  <2>2. /\ sent \in Nat /\ removed \in Nat /\ pCount \in Nat /\ pSpace \in Nat
        /\ cAvail \in Nat /\ Capacity \in Nat /\ Capacity > 0
    BY <2>1, TypeFacts, Constants
  <2>3. i \in Nat /\ j \in Nat /\ i < pSpace /\ j < cAvail
    BY <2>2
  <2>4. /\ removed + j < sent + i /\ (sent + i) - (removed + j) < Capacity
        /\ removed + j \in Nat /\ sent + i \in Nat
    BY <2>1, <2>2, <2>3 DEF Producer, Consumer
  <2>5. (removed + j) % Capacity # (sent + i) % Capacity
    BY <2>2, <2>4, ModDistinct
  <2> QED
    BY <2>1, <2>3, <2>5, SlotIs
<1> QED
  BY <1>1, RingInvariant, PTL

(* What the consumer has read in its batch are the oldest frames, in order.*)
THEOREM OldestFirst == RingSpec => []ReadsInOrder
<1>1. RInv => ReadsInOrder
  BY DEF RInv, Consumer, ReadsInOrder
<1> QED
  BY <1>1, RingInvariant, PTL

-----------------------------------------------------------------------------
(* Refinement.                                                             *)

(* The published frames are consecutive.                                   *)
Run(first, n) == [k \in 1 .. n |-> first + k]

LEMMA RunAppend ==
  ASSUME NEW r \in Nat, NEW l \in Nat, NEW n \in Nat
  PROVE  Run(r, l + n) = Run(r, l) \o [i \in 1 .. n |-> (r + l) + i]
BY DEF Run

LEMMA RunPrefix ==
  ASSUME NEW r \in Nat, NEW l \in Nat, NEW n \in 0 .. l
  PROVE  SubSeq(Run(r, l), 1, n) = Run(r, n)
BY DEF Run

LEMMA RunSuffix ==
  ASSUME NEW r \in Nat, NEW l \in Nat, NEW n \in 0 .. l
  PROVE  SubSeq(Run(r, l), n + 1, Len(Run(r, l))) = Run(r + n, l - n)
BY DEF Run

LEMMA RunLen ==
  ASSUME NEW r \in Nat, NEW l \in Nat
  PROVE  Len(Run(r, l)) = l
BY DEF Run

LEMMA ContentsIs == RInv => Contents = Run(removed, sent - removed)
<1> SUFFICES ASSUME RInv PROVE Contents = Run(removed, sent - removed)
  OBVIOUS
<1>1. RingTypeOK /\ Wrapped /\ Bounded /\ Stored
  BY DEF RInv
<1>2. sent \in Nat /\ removed \in Nat /\ pCount \in Nat
  BY <1>1, TypeFacts
<1>3. Distance(write, read) = sent - removed
  BY <1>1, DistanceIs
<1>4. ASSUME NEW k \in 1 .. (sent - removed)
      PROVE  data[Slot(read, k - 1)] = removed + k
  <2>1. k - 1 \in Nat /\ removed + (k - 1) \in Nat
        /\ removed <= removed + (k - 1) /\ removed + (k - 1) < sent + pCount
    BY <1>2
  <2>2. Slot(read, k - 1) = (removed + (k - 1)) % Capacity
    BY <1>1, <2>1, SlotIs
  <2>3. data[(removed + (k - 1)) % Capacity] = (removed + (k - 1)) + 1
    BY <1>1, <2>1 DEF Stored
  <2> QED
    BY <1>2, <2>2, <2>3
<1> QED
  BY <1>3, <1>4 DEF Contents, Run

(* What a consumer has read is a run of frames too.                        *)
LEMMA ReadIs ==
  ASSUME RInv
  PROVE  cBuf = Run(removed, Len(cBuf))
<1>1. cBuf \in Seq(Frames) /\ \A i \in 1 .. Len(cBuf) : cBuf[i] = removed + i
  BY DEF RInv, RingTypeOK, Consumer
<1> QED
  BY <1>1 DEF Run

(* A removal of n frames by the consumer, whatever it had read of them.    *)
LEMMA RemoveStep ==
  ASSUME RInv, RInv',
         NEW n \in Nat, n <= cAvail, NEW m \in 0 .. n,
         removed' = removed + n, sent' = sent,
         taken' = Run(removed, m)
  PROVE  Fifo!Remove(n, m)
<1> DEFINE l == sent - removed
<1>1. /\ sent \in Nat /\ removed \in Nat /\ cAvail \in Nat
      /\ cAvail <= l
  BY TypeFacts DEF RInv, Consumer
<1>2. l \in Nat /\ n \in 0 .. l /\ m \in 0 .. l /\ sent - (removed + n) = l - n
  BY <1>1
<1> HIDE DEF l
<1>3. Contents = Run(removed, l)
  BY ContentsIs DEF l
<1>4. Contents' = Run(removed + n, l - n)
  <2>1. (Contents = Run(removed, sent - removed))'
    BY ContentsIs, PTL
  <2> QED
    BY <2>1, <1>2
<1>5. n <= Len(Contents)
  BY <1>1, <1>2, <1>3, RunLen
<1>6. taken' = SubSeq(Contents, 1, m)
  BY <1>1, <1>2, <1>3, RunPrefix
<1>7. Contents' = SubSeq(Contents, n + 1, Len(Contents))
  BY <1>1, <1>2, <1>3, <1>4, RunSuffix
<1> QED
  BY <1>5, <1>6, <1>7 DEF Fifo!Remove

LEMMA StepSimulates ==
  RInv /\ RInv' /\ [RingNext]_ringVars => [Fifo!Next]_(Fifo!fifoVars)
<1> SUFFICES ASSUME RInv, RInv', [RingNext]_ringVars
             PROVE  Fifo!Next \/ UNCHANGED Fifo!fifoVars
  OBVIOUS
<1>n. /\ sent \in Nat /\ removed \in Nat /\ pCount \in Nat /\ pSpace \in Nat
      /\ cAvail \in Nat /\ Len(cBuf) \in Nat
      /\ cAvail \in 0 .. Capacity
  BY TypeFacts DEF RInv, RingTypeOK
<1>q. Contents = Run(removed, sent - removed)
  BY ContentsIs
<1>p. (Contents = Run(removed, sent - removed))'
  BY ContentsIs, PTL
<1>s. ASSUME sent' = sent, removed' = removed, taken' = taken
      PROVE  UNCHANGED Fifo!fifoVars
  BY <1>q, <1>p, <1>s DEF Fifo!fifoVars
<1>1. CASE BeginWrite \/ WriteFrame \/ BeginRead \/ ReadFrame \/ DropLoad
  BY <1>1, <1>s DEF BeginWrite, WriteFrame, BeginRead, ReadFrame, DropLoad
<1>2. CASE EndWrite
  <2> DEFINE n == pCount   l == sent - removed
  <2>1. sent' = sent + n /\ removed' = removed /\ taken' = taken
    BY <1>2 DEF EndWrite, Published
  <2>2. l \in Nat /\ l + n <= Capacity /\ n \in 0 .. Capacity
        /\ sent' - removed' = l + n /\ removed + l = sent
    BY <2>1, <1>n, Constants DEF RInv, Bounded, Producer
  <2> HIDE DEF n, l
  <2>3. Contents = Run(removed, l) /\ Len(Contents) = l
    BY <1>n, <1>q, <2>2, RunLen DEF l
  <2>4. Contents' = Run(removed, l + n)
    BY <1>p, <2>1, <2>2
  <2>5. Contents' = Contents \o [i \in 1 .. n |-> sent + i]
    <3>1. n \in Nat /\ Run(removed, l + n) = Run(removed, l)
                          \o [i \in 1 .. n |-> (removed + l) + i]
      BY <1>n, <2>2, RunAppend DEF n
    <3> QED
      BY <3>1, <2>2, <2>3, <2>4
  <2>6. Fifo!Put(n)
    BY <2>1, <2>2, <2>3, <2>5 DEF Fifo!Put
  <2> QED
    BY <2>2, <2>6 DEF Fifo!Next
<1>3. ASSUME NEW n \in 0 .. Capacity, EndRead(n)
      PROVE  Fifo!Next
  <2>1. n \in Nat /\ n <= cAvail /\ removed' = removed + n /\ sent' = sent
    BY <1>3, Constants DEF EndRead
  <2>2. CASE cBuf = <<>>
    <3>1. taken' = Run(removed, 0) /\ 0 \in 0 .. n
      BY <1>3, <2>1, <2>2 DEF EndRead, Run
    <3>2. Fifo!Remove(n, 0)
      BY <2>1, <3>1, RemoveStep
    <3> QED
      BY <3>1, <3>2 DEF Fifo!Next
  <2>3. CASE cBuf # <<>>
    <3>1. n \in 0 .. Len(cBuf) /\ taken' = SubSeq(cBuf, 1, n)
      BY <1>3, <1>n, <2>1, <2>3 DEF EndRead
    <3>2. taken' = Run(removed, n) /\ n \in 0 .. n
      <4>1. SubSeq(Run(removed, Len(cBuf)), 1, n) = Run(removed, n)
        BY <3>1, <1>n, RunPrefix
      <4> QED
        BY <3>1, <2>1, <4>1, ReadIs
    <3>3. Fifo!Remove(n, n)
      BY <2>1, <3>2, RemoveStep
    <3> QED
      BY <3>2, <3>3 DEF Fifo!Next
  <2> QED
    BY <2>2, <2>3
<1>4. CASE DropStore
  <2>1. /\ removed' = removed + cAvail /\ sent' = sent
        /\ taken' = Run(removed, 0) /\ 0 \in 0 .. cAvail
    BY <1>4, <1>n DEF DropStore, Run
  <2>2. Fifo!Remove(cAvail, 0)
    BY <1>n, <2>1, RemoveStep
  <2> QED
    BY <1>n, <2>1, <2>2 DEF Fifo!Next
<1>5. CASE UNCHANGED ringVars
  BY <1>5, <1>s DEF ringVars
<1> QED
  BY <1>1, <1>2, <1>3, <1>4, <1>5 DEF RingNext

(* The ring implements a bounded queue of frames: nothing is lost,         *)
(* duplicated or reordered between endWrite and endRead, for any capacity  *)
(* and cursor width.                                                       *)
THEOREM RingIsFifo == RingSpec => IsFifo
<1>1. RingInit => Fifo!Init
  <2> SUFFICES ASSUME RingInit PROVE Fifo!Init
    OBVIOUS
  <2>1. Contents = Run(removed, sent - removed)
    BY RingStarts, ContentsIs
  <2> QED
    BY <2>1 DEF RingInit, Fifo!Init, Run
<1> QED
  BY <1>1, StepSimulates, RingInvariant, PTL DEF RingSpec, IsFifo, Fifo!Spec

-----------------------------------------------------------------------------
(* CaptureRecovery: the inductive invariant.                               *)

(* The selections, the streams and the locals of each thread keep their    *)
(* types; the timers are nobody's concern here.                            *)
Typed ==
  /\ wanted \in [Sources -> Refs] /\ enabled \in [Sources -> BOOLEAN]
  /\ saved \in [Sources -> Endpoints \cup {NoEndpoint}]
  /\ lock \in {"free", "ui", "sup"}
  /\ uiPc \in {"idle", "restart", "stop", "save"}
  /\ supPc \in {"wait", "debounce", "begin", "sync", "pass", "join"}
  /\ supSrc \in Nat /\ supRef \in Refs \cup {NoRef}
  /\ resolved \in [Sources -> Endpoints \cup {NoEndpoint}]
  /\ wPc \in [Sources -> {"none", "open", "activate", "refused", "running",
                          "closing"}]
  /\ wRef \in [Sources -> Refs \cup {NoRef}]
  /\ wFound \in [Sources -> Endpoints \cup {NoEndpoint}]

(* Who holds configMutex_, and for which source.                           *)
LockOwner ==
  /\ lock = "ui" <=> uiPc \in {"restart", "stop"}
  /\ lock = "sup" <=> supPc = "join"
UiHolds ==
  /\ uiPc # "idle" => uiSrc \in Sources
  /\ uiPc = "restart" => enabled[uiSrc]
SupHolds ==
  supPc = "join" =>
    supSrc \in Sources /\ enabled[supSrc] /\ supRef = wanted[supSrc]

(* A worker runs for the selection its source has, until a choice of the   *)
(* user is about to replace it, and never for a disabled source.           *)
Restarting(s) == uiPc = "restart" /\ uiSrc = s
Stopping(s)   == uiPc = "stop" /\ uiSrc = s
WorkerFollows ==
  \A s \in Sources : wPc[s] # "none" =>
    /\ ~Restarting(s) => wRef[s] = wanted[s]
    /\ ~Stopping(s) => enabled[s]

(* What a stream has found belongs to the selection as well: a choice      *)
(* forgets it before the lock is released.                                 *)
FoundSelected ==
  \A s \in Sources :
    /\ resolved[s] # NoEndpoint /\ ~Restarting(s) =>
         resolved[s] \in Answers(wanted[s])
    /\ resolved[s] # NoEndpoint /\ ~Stopping(s) => enabled[s]

IInv ==
  /\ Typed /\ LockOwner /\ UiHolds /\ SupHolds
  /\ WorkerFollows /\ FoundSelected /\ SavedIdSelected

-----------------------------------------------------------------------------
(* Matching.                                                               *)

(* The endpoint a selection resolves to is one that answers to it.         *)
LEMMA MatchAnswers ==
  ASSUME NEW ref \in Refs \cup {NoRef}, Resolves(ref)
  PROVE  /\ Match(ref) \in Answers(ref)
         /\ Match(ref) \in Endpoints \cup {NoEndpoint}
<1>1. ref \in Ref
  BY RecoveryAssumption DEF Ref, NoRef
<1>2. Candidates(ref) # {}
  BY FS_EmptySet DEF Resolves
<1>3. Match(ref) \in Candidates(ref)
  BY <1>2 DEF Match
<1>4. ref.id \in Endpoints \cup {NoEndpoint}
      /\ ref.name \in Names \cup {NoName}
  BY <1>1 DEF Ref
<1>5. CASE ById(ref)
  BY <1>3, <1>4, <1>5 DEF Candidates, Answers
<1>6. CASE ~ById(ref)
  <2>1. Match(ref) \in NameMatches(ref.name)
    BY <1>3, <1>6 DEF Candidates
  <2>2. ref.name # NoName
        /\ Match(ref) \in FullName[ref.name] \cup PartName[ref.name]
    BY <2>1 DEF NameMatches
  <2>3. ref.name \in Names
    BY <1>4, <2>2
  <2> QED
    BY <2>2, <2>3, RecoveryAssumption DEF Answers
<1> QED
  BY <1>5, <1>6

LEMMA InitInv == Init => IInv
<1> SUFFICES ASSUME Init PROVE IInv
  OBVIOUS
<1> USE DEF Init
<1>1. \A ref \in Refs : ref.id \in Endpoints \cup {NoEndpoint}
  BY RecoveryAssumption DEF Ref
<1>2. Typed
  BY <1>1 DEF Typed
<1>3. LockOwner /\ UiHolds /\ SupHolds
  BY DEF LockOwner, UiHolds, SupHolds
<1>4. WorkerFollows /\ FoundSelected /\ SavedIdSelected
  BY <1>1 DEF WorkerFollows, FoundSelected, SavedIdSelected, Answers
<1> QED
  BY <1>2, <1>3, <1>4 DEF IInv

-----------------------------------------------------------------------------
(* The steps of the UI thread.                                             *)

LEMMA UiInv ==
  ASSUME IInv, UiCall \/ UiStep
  PROVE  IInv'
<1> USE DEF IInv, Typed, LockOwner, UiHolds, SupHolds, WorkerFollows,
            FoundSelected, SavedIdSelected, Restarting, Stopping, UiFrame,
            configVars, uiVars, wakeVars, supVars, streamVars, workVars
<1>1. \A ref \in Refs : ref.id \in Endpoints \cup {NoEndpoint}
  BY RecoveryAssumption DEF Ref
<1>2. ASSUME NEW s \in Sources, NEW ref \in Refs, SetChannelDevice(s, ref)
      PROVE  IInv'
  <2> USE <1>2 DEF SetChannelDevice, Edit, LockFree
  <2>1. Typed'
    BY <1>1
  <2>2. LockOwner' /\ UiHolds' /\ SupHolds'
    OBVIOUS
  <2>3. WorkerFollows'
    OBVIOUS
  <2>4. FoundSelected'
    OBVIOUS
  <2>5. SavedIdSelected'
    BY DEF Answers
  <2> QED
    BY <2>1, <2>2, <2>3, <2>4, <2>5
<1>3. ASSUME NEW s \in Sources, NEW on \in BOOLEAN, SetEnabled(s, on)
      PROVE  IInv'
  <2> USE <1>3 DEF SetEnabled, Edit, LockFree
  <2>1. Typed'
    OBVIOUS
  <2>2. LockOwner' /\ UiHolds' /\ SupHolds'
    OBVIOUS
  <2>3. WorkerFollows'
    OBVIOUS
  <2>4. FoundSelected' /\ SavedIdSelected'
    OBVIOUS
  <2> QED
    BY <2>1, <2>2, <2>3, <2>4
<1>4. CASE UiRestart
  <2> USE <1>4 DEF UiRestart, StartWorker, Forget
  <2>1. Typed'
    OBVIOUS
  <2>2. LockOwner' /\ UiHolds' /\ SupHolds'
    OBVIOUS
  <2>3. WorkerFollows'
    OBVIOUS
  <2>4. FoundSelected' /\ SavedIdSelected'
    OBVIOUS
  <2> QED
    BY <2>1, <2>2, <2>3, <2>4
<1>5. CASE UiStop
  <2> USE <1>5 DEF UiStop, StopWorker, Forget, Joined
  <2>1. Typed'
    OBVIOUS
  <2>2. LockOwner' /\ UiHolds' /\ SupHolds'
    OBVIOUS
  <2>3. WorkerFollows'
    OBVIOUS
  <2>4. FoundSelected' /\ SavedIdSelected'
    OBVIOUS
  <2> QED
    BY <2>1, <2>2, <2>3, <2>4
<1>6. ASSUME NEW s \in Sources, UiSave(s) PROVE IInv'
  BY <1>6 DEF UiSave
<1>7. CASE UiSaveId
  <2>1. Refreshed(uiSrc) = saved[uiSrc]
        \/ Refreshed(uiSrc) \in Answers(wanted[uiSrc])
    BY <1>7 DEF UiSaveId, Refreshed
  <2>2. Refreshed(uiSrc) \in Endpoints \cup {NoEndpoint}
    BY <1>7 DEF UiSaveId, Refreshed
  <2> QED
    BY <1>7, <2>1, <2>2 DEF UiSaveId
<1>8. CASE Click
  BY <1>8 DEF Click
<1> QED
  BY <1>2, <1>3, <1>4, <1>5, <1>6, <1>7, <1>8 DEF UiCall, UiStep

-----------------------------------------------------------------------------
(* The steps of the supervisor.                                            *)

LEMMA SupInv ==
  ASSUME IInv, SupStep \/ SupPoll
  PROVE  IInv'
<1> USE DEF IInv, Typed, LockOwner, UiHolds, SupHolds, WorkerFollows,
            FoundSelected, SavedIdSelected, Restarting, Stopping, SupFrame,
            StreamsAlone, configVars, uiVars, wakeVars, streamVars, workVars
<1>1. CASE SupWake \/ SupPoll \/ SupDebounce
  BY <1>1 DEF SupWake, SupPoll, SupDebounce
<1>2. CASE SupBegin \/ SupSync
  BY <1>2 DEF SupBegin, SupSync
<1>3. CASE SupSkip \/ SupPassed
  BY <1>3 DEF SupSkip, SupPassed
<1>4. CASE SupStop
  BY <1>4 DEF SupStop, LockFree, Settled
<1>5. CASE SupRestart
  <2> USE <1>5 DEF SupRestart, StartWorker, Forget
  <2>1. Typed'
    OBVIOUS
  <2>2. LockOwner' /\ UiHolds' /\ SupHolds'
    OBVIOUS
  <2>3. WorkerFollows'
    OBVIOUS
  <2>4. FoundSelected' /\ SavedIdSelected'
    OBVIOUS
  <2> QED
    BY <2>1, <2>2, <2>3, <2>4
<1> QED
  BY <1>1, <1>2, <1>3, <1>4, <1>5 DEF SupStep

-----------------------------------------------------------------------------
(* The steps of the capture workers.                                       *)

LEMMA WorkerInv ==
  ASSUME IInv, NEW s \in Sources, WorkerStep(s) \/ WError(s)
  PROVE  IInv'
<1> USE DEF IInv, Typed, LockOwner, UiHolds, SupHolds, WorkerFollows,
            FoundSelected, SavedIdSelected, Restarting, Stopping, WorkFrame,
            Goto, configVars, uiVars, supVars
<1>1. CASE WResolve(s)
  <2>1. CASE Resolves(wRef[s])
    <3>1. /\ Match(wRef[s]) \in Answers(wRef[s])
          /\ Match(wRef[s]) \in Endpoints \cup {NoEndpoint}
      BY <2>1, MatchAnswers
    <3>2. /\ resolved' = [resolved EXCEPT ![s] = Match(wRef[s])]
          /\ wFound' = [wFound EXCEPT ![s] = Match(wRef[s])]
          /\ wPc' = [wPc EXCEPT ![s] = "activate"]
      BY <1>1, <2>1 DEF WResolve
    <3>3. wPc[s] = "open" /\ wRef' = wRef
      BY <1>1 DEF WResolve
    <3>4. UNCHANGED <<configVars, lock, uiVars, supVars>>
      BY <1>1 DEF WResolve
    <3>5. Typed'
      BY <3>1, <3>2, <3>3, <3>4
    <3>6. FoundSelected'
      BY <3>1, <3>2, <3>3, <3>4
    <3> QED
      BY <3>2, <3>3, <3>4, <3>5, <3>6
  <2>2. CASE ~Resolves(wRef[s])
    BY <1>1, <2>2 DEF WResolve
  <2> QED
    BY <2>1, <2>2
<1>2. CASE WActivate(s)
  BY <1>2 DEF WActivate
<1>3. CASE WRefused(s) \/ WQuit(s)
  BY <1>3 DEF WRefused, WQuit
<1>4. CASE WGone(s) \/ WError(s)
  BY <1>4 DEF WGone, WError, LoopFails
<1>5. CASE WClose(s)
  BY <1>5 DEF WClose
<1> QED
  BY <1>1, <1>2, <1>3, <1>4, <1>5 DEF WorkerStep

-----------------------------------------------------------------------------
LEMMA NextInv == IInv /\ [Next]_vars => IInv'
<1> SUFFICES ASSUME IInv, [Next]_vars PROVE IInv'
  OBVIOUS
<1>1. ASSUME UNCHANGED <<configVars, lock, uiVars, supVars, streamVars,
                         workVars>>
      PROVE  IInv'
  BY <1>1
  DEF IInv, Typed, LockOwner, UiHolds, SupHolds, WorkerFollows,
      FoundSelected, SavedIdSelected, Restarting, Stopping, configVars,
      uiVars, supVars, streamVars, workVars
<1>2. CASE UNCHANGED vars
  BY <1>1, <1>2 DEF vars
<1>3. ASSUME NEW e \in Endpoints, Plug(e) PROVE IInv'
  BY <1>1, <1>3 DEF Plug, WinFrame
<1>4. CASE Notify
  BY <1>1, <1>4 DEF Notify, WinFrame
<1> QED
  BY <1>2, <1>3, <1>4, UiInv, SupInv, WorkerInv DEF Next

THEOREM Invariant == Spec => []IInv
BY InitInv, NextInv, PTL DEF Spec

(* Whatever fails, vanishes or is retried, and whenever the user chooses,  *)
(* a stream that nobody is restarting runs for the selection made last.    *)
THEOREM RetriesFollowTheUser == Spec => []StreamFollowsSelection
<1>1. IInv => StreamFollowsSelection
  BY DEF IInv, LockOwner, WorkerFollows, Restarting, Stopping, BeingChanged,
         StreamFollowsSelection
<1> QED
  BY <1>1, Invariant, PTL

(* No interleaving of choices, restarts and the saving of runtime ids puts *)
(* an id on disk that does not answer to the selection it is saved for.    *)
THEOREM SavedIdsAnswer == Spec => []SavedIdSelected
<1>1. IInv => SavedIdSelected
  BY DEF IInv
<1> QED
  BY <1>1, Invariant, PTL

-----------------------------------------------------------------------------
(* What a stream shows, on top of that invariant.                          *)

(* The state at each step of the worker; a worker is told to stop only by  *)
(* a thread that is changing its source, or it belongs to a disabled one.  *)
Shown ==
  /\ state \in [Sources -> StreamState] /\ quit \in [Sources -> BOOLEAN]
  /\ uiPc = "stop" => ~enabled[uiSrc] /\ quit[uiSrc]
  /\ \A s \in Sources :
       /\ wPc[s] \in {"open", "activate", "refused"} => state[s] = "Opening"
       /\ wPc[s] = "running" => state[s] = "Running"
       /\ wPc[s] \in {"closing", "none"} => state[s] = "Failed" \/ quit[s]
       /\ ~BeingChanged(s) =>
            IF enabled[s] THEN ~quit[s]
                          ELSE wPc[s] = "none" /\ state[s] = "Stopped"

LEMMA ShownInit == Init => Shown
  BY DEF Init, Shown, StreamState, BeingChanged

LEMMA ShownStep == IInv /\ Shown /\ [Next]_vars => Shown'
<1> SUFFICES ASSUME IInv, Shown, [Next]_vars PROVE Shown'
  OBVIOUS
<1> USE DEF IInv, Typed, LockOwner, UiHolds, SupHolds, Shown, StreamState,
            BeingChanged
<1>1. ASSUME UNCHANGED <<enabled, lock, uiPc, uiSrc, supSrc, state, quit, wPc>>
      PROVE  Shown'
  BY <1>1
<1>2. CASE UNCHANGED vars
  BY <1>1, <1>2 DEF vars, configVars, uiVars, supVars, streamVars, workVars
<1>3. ASSUME (\E e \in Endpoints : Plug(e)) \/ Notify PROVE Shown'
  BY <1>1, <1>3 DEF Plug, Notify, WinFrame, configVars, uiVars, supVars,
     streamVars, workVars
<1>4. CASE UiCall \/ UiStep
  <2> USE DEF UiFrame, Edit, LockFree, AskStop, configVars, uiVars, supVars,
              streamVars, workVars
  <2>1. ASSUME NEW s \in Sources, NEW ref \in Refs, SetChannelDevice(s, ref)
        PROVE  Shown'
    <3>1. CASE enabled[s]
      <4>1. /\ lock = "free" /\ lock' = "ui" /\ uiPc' = "restart" /\ uiSrc' = s
            /\ quit' = [quit EXCEPT ![s] = TRUE]
            /\ UNCHANGED <<enabled, supSrc, state, wPc>>
        BY <2>1, <3>1 DEF SetChannelDevice
      <4>2. quit' \in [Sources -> BOOLEAN] /\ quit'[s]
            /\ \A t \in Sources : t # s => quit'[t] = quit[t]
        BY <4>1
      <4> QED
        BY <4>1, <4>2
    <3>2. CASE ~enabled[s]
      BY <2>1, <3>2 DEF SetChannelDevice
    <3> QED
      BY <3>1, <3>2
  <2>2. ASSUME NEW s \in Sources, NEW on \in BOOLEAN, SetEnabled(s, on)
        PROVE  Shown'
    BY <2>2 DEF SetEnabled
  <2>3. CASE UiRestart
    BY <2>3 DEF UiRestart, StartWorker
  <2>4. CASE UiStop
    BY <2>4 DEF UiStop, StopWorker, Joined
  <2>5. ASSUME (\E s \in Sources : UiSave(s)) \/ UiSaveId \/ Click PROVE Shown'
    BY <2>5 DEF UiSave, UiSaveId, Click
  <2> QED
    BY <1>4, <2>1, <2>2, <2>3, <2>4, <2>5 DEF UiCall, UiStep
<1>5. CASE SupStep \/ SupPoll
  <2> USE DEF SupFrame, StreamsAlone, configVars, uiVars, streamVars, workVars
  <2>1. CASE SupWake \/ SupPoll \/ SupDebounce \/ SupBegin \/ SupSync
    BY <2>1 DEF SupWake, SupPoll, SupDebounce, SupBegin, SupSync
  <2>2. CASE SupSkip \/ SupPassed
    BY <2>2 DEF SupSkip, SupPassed, LockFree
  <2>3. CASE SupStop
    BY <2>3 DEF SupStop, AskStop, LockFree
  <2>4. CASE SupRestart
    BY <2>4 DEF SupRestart, StartWorker
  <2> QED
    BY <1>5, <2>1, <2>2, <2>3, <2>4 DEF SupStep
<1>6. ASSUME NEW s \in Sources, WorkerStep(s) \/ WError(s) PROVE Shown'
  <2> USE DEF WorkFrame, Goto, configVars, uiVars, supVars
  <2>1. CASE WResolve(s)
    BY <2>1 DEF WResolve
  <2>2. CASE WActivate(s)
    BY <2>2 DEF WActivate
  <2>3. CASE WRefused(s) \/ WQuit(s)
    BY <2>3 DEF WRefused, WQuit
  <2>4. CASE WGone(s) \/ WError(s)
    BY <2>4 DEF WGone, WError, LoopFails
  <2>5. CASE WClose(s)
    BY <2>5 DEF WClose
  <2> QED
    BY <1>6, <2>1, <2>2, <2>3, <2>4, <2>5 DEF WorkerStep
<1> QED
  BY <1>2, <1>3, <1>4, <1>5, <1>6 DEF Next

(* No capture dies unseen: one that nobody is restarting and that has lost *)
(* its worker is Failed, or its source is disabled and it is Stopped.      *)
THEOREM CapturesShowTheirEnd == Spec => []EndsAreFailures
<1>1. IInv /\ Shown => EndsAreFailures
  BY DEF Shown, EndsAreFailures
<1> QED
  BY <1>1, Invariant, ShownInit, ShownStep, PTL DEF Spec
=============================================================================
