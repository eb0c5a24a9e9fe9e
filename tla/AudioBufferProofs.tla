------------------------- MODULE AudioBufferProofs -------------------------
(***************************************************************************)
(* The ring buffer implements LossyFifo, for every capacity, target and    *)
(* margin and for batches and requests of every size.                      *)
(***************************************************************************)
EXTENDS AudioBuffer, TLAPS

(***************************************************************************)
(* What is needed of sequences.  The library's module is not extended: its *)
(* theorems would come with every instance of this module.                 *)
(***************************************************************************)

LEMMA SeqLength ==
    ASSUME NEW S, NEW s \in Seq(S)
    PROVE  Len(s) \in Nat /\ s \in [1 .. Len(s) -> S]
OBVIOUS

LEMMA SeqElement ==
    ASSUME NEW S, NEW s \in Seq(S), NEW i \in 1 .. Len(s)
    PROVE  s[i] \in S
OBVIOUS

LEMMA SeqEmpty == ASSUME NEW S PROVE <<>> \in Seq(S) /\ Len(<<>>) = 0
OBVIOUS

LEMMA SeqSame ==
    ASSUME NEW S, NEW s \in Seq(S), NEW t \in Seq(S),
           Len(s) = Len(t), \A i \in 1 .. Len(s) : s[i] = t[i]
    PROVE  s = t
OBVIOUS

LEMMA SeqJoined ==
    ASSUME NEW S, NEW s \in Seq(S), NEW t \in Seq(S)
    PROVE  /\ s \o t \in Seq(S)
           /\ Len(s \o t) = Len(s) + Len(t)
           /\ \A i \in 1 .. Len(s) + Len(t) :
                (s \o t)[i] = IF i <= Len(s) THEN s[i] ELSE t[i - Len(s)]
OBVIOUS

LEMMA SeqPart ==
    ASSUME NEW S, NEW s \in Seq(S), NEW a \in Nat, NEW b \in Nat, a <= b, b <= Len(s)
    PROVE  /\ SubSeq(s, a + 1, b) \in Seq(S)
           /\ Len(SubSeq(s, a + 1, b)) = b - a
           /\ \A i \in 1 .. b - a : SubSeq(s, a + 1, b)[i] = s[a + i]
OBVIOUS

(***************************************************************************)
(* Positions and slots.                                                    *)
(***************************************************************************)

\* Two positions less than one round apart have different slots.
LEMMA SlotDecides ==
    ASSUME NEW N \in Nat \ {0}, NEW a \in Nat, NEW b \in Nat,
           a % N = b % N, a - b < N, b - a < N
    PROVE  a = b
<1> DEFINE q(x) == x \div N
<1>1. ASSUME NEW x \in Nat PROVE q(x) \in Nat /\ x = N * q(x) + (x % N)
    BY SMT
<1>2. q(a) \in Nat /\ q(b) \in Nat /\ a - b = N * (q(a) - q(b))
    BY <1>1, SMT
<1>3. ASSUME NEW d \in Int, N * d < N, -N < N * d PROVE d = 0
    BY <1>3, SMT
<1> HIDE DEF q
<1>4. q(a) - q(b) = 0
    BY <1>2, <1>3
<1> QED BY <1>2, <1>4

\* Every position has a slot.
LEMMA SlotOfPosition ==
    ASSUME SizesOK, NEW i \in Nat
    PROVE  i % Capacity \in Slot
BY SMT DEF SizesOK, Slot

(***************************************************************************)
(* The invariant: the last Capacity samples written are in the ring, each  *)
(* in the slot of its position, and the reader is among them.              *)
(***************************************************************************)

Positions ==
    /\ writePos \in Nat /\ readPos \in Nat
    /\ readPos <= writePos
    /\ writePos - readPos <= Capacity

RingHolds ==
    \A i \in 0 .. writePos - 1 :
      i >= writePos - Capacity => buf[i % Capacity] = input[i + 1]

RingInv ==
    /\ Positions
    /\ input \in Seq(Sample) /\ Len(input) = writePos
    /\ buf \in [Slot -> Sample]
    /\ RingHolds

\* However large a batch is, a write moves the reader forward, not past the
\* writer, and leaves no more than the ring holds.
LEMMA WritePositions ==
    ASSUME SizesOK, Positions, NEW n \in Nat
    PROVE  /\ ReaderAfter(n) \in Nat
           /\ readPos <= ReaderAfter(n)
           /\ ReaderAfter(n) <= writePos + n
           /\ writePos + n - ReaderAfter(n) <= Capacity
<1>1. Preempt(n) \in Nat /\ Preempt(n) <= writePos - readPos
    BY SMT DEF SizesOK, Positions, Preempt, Lesser, Fill
<1>2. /\ Overrun(n) \in Nat
      /\ readPos <= Overrun(n)
      /\ Overrun(n) <= writePos + n
      /\ writePos + n - Overrun(n) <= Capacity
    BY <1>1, SMT DEF SizesOK, Positions, Overrun, Greater
<1> DEFINE f == writePos + n - Overrun(n)
<1>3. f \in Nat
    BY <1>2, SMT DEF Positions
<1> HIDE DEF f
<1>4. Backlog(f) \in Nat /\ Backlog(f) <= f
    BY <1>3, SMT DEF SizesOK, Backlog, Lesser
<1>5. ReaderAfter(n) = Overrun(n) + Backlog(f)
    BY DEF f, ReaderAfter
<1>6. f = writePos + n - Overrun(n)
    BY DEF f
<1> QED BY <1>2, <1>3, <1>4, <1>5, <1>6, SMT DEF Positions, SizesOK

LEMMA AdvancePositions ==
    ASSUME SizesOK, Positions, NEW n \in Nat
    PROVE  /\ Lesser(n, Fill) \in Nat
           /\ Lesser(n, Fill) <= Fill
BY SMT DEF Positions, Lesser, Fill

\* A write keeps the ring: what it overwrites is out of the reader's reach.
LEMMA WriteKeepsRing ==
    ASSUME SizesOK, RingInv, NEW s \in Seq(Sample), Write(s)
    PROVE  RingInv'
<1> DEFINE n == Len(s)
           here(k) == {j \in 1 .. n : j > n - Capacity /\ (writePos + j - 1) % Capacity = k}
<1>1. n \in Nat /\ writePos \in Nat /\ Capacity \in Nat \ {0}
    BY SMT DEF SizesOK, RingInv, Positions
<1>2. Positions'
  <2>1. writePos' = writePos + n /\ readPos' = ReaderAfter(n)
      BY DEF Write
  <2> HIDE DEF n
  <2>2. /\ ReaderAfter(n) \in Nat
        /\ ReaderAfter(n) <= writePos + n
        /\ writePos + n - ReaderAfter(n) <= Capacity
      BY Zenon, <1>1, WritePositions DEF RingInv
  <2> QED BY <1>1, <2>1, <2>2, SMT DEF Positions
<1>3. /\ input' \in Seq(Sample) /\ Len(input') = writePos'
      /\ \A i \in 1 .. writePos : input'[i] = input[i]
      /\ \A j \in 1 .. n : input'[writePos + j] = s[j]
  <2>1. /\ input \in Seq(Sample) /\ Len(input) = writePos
        /\ input' = input \o s /\ writePos' = writePos + n
      BY DEF Write, RingInv
  <2>2. /\ input' \in Seq(Sample) /\ Len(input') = writePos + n
        /\ \A i \in 1 .. writePos + n :
             input'[i] = IF i <= writePos THEN input[i] ELSE s[i - writePos]
      BY SMTT(30), <2>1, SeqJoined
  <2> HIDE DEF n
  <2>3. ASSUME NEW i \in 1 .. writePos PROVE input'[i] = input[i]
    <3>1. i \in 1 .. writePos + n /\ i <= writePos
        BY <1>1, SMT
    <3> QED BY <2>2, <3>1
  <2>4. ASSUME NEW j \in 1 .. n PROVE input'[writePos + j] = s[j]
    <3>1. writePos + j \in 1 .. writePos + n /\ ~(writePos + j <= writePos)
          /\ (writePos + j) - writePos = j
        BY <1>1, SMT
    <3> QED BY <2>2, <3>1
  <2> QED BY Zenon, <2>1, <2>2, <2>3, <2>4
<1>4. \A k \in Slot : buf'[k] = IF here(k) = {} THEN buf[k] ELSE s[CHOOSE j \in here(k) : TRUE]
    BY DEF Write, Stored
<1>5. ASSUME NEW k, here(k) # {} PROVE (CHOOSE j \in here(k) : TRUE) \in here(k)
    BY <1>5
<1>6. buf' \in [Slot -> Sample]
  <2>1. ASSUME NEW k \in Slot PROVE buf'[k] \in Sample
    <3>1. CASE here(k) = {}
        BY SMTT(30), <3>1, <1>4 DEF RingInv
    <3>2. CASE here(k) # {}
      <4>1. (CHOOSE j \in here(k) : TRUE) \in 1 .. n
          BY <3>2, <1>5
      <4> QED BY <4>1, <3>2, <1>4, SeqElement
    <3> QED BY <3>1, <3>2
  <2>2. buf' = [k \in Slot |-> buf'[k]]
      BY DEF Write, Stored
  <2> QED BY <2>1, <2>2
<1>7. RingHolds'
  <2> SUFFICES ASSUME NEW i \in 0 .. writePos' - 1, i >= writePos' - Capacity
               PROVE  buf'[i % Capacity] = input'[i + 1]
      BY DEF RingHolds
  <2>1. writePos' = writePos + n
      BY DEF Write
  <2>2. i \in Nat /\ i % Capacity \in Slot
    <3>1. i \in Nat
        BY <1>1, <2>1
    <3> QED BY <3>1, SlotOfPosition
  <2>3. ASSUME NEW j \in here(i % Capacity) PROVE writePos + j - 1 = i
    <3> DEFINE p == writePos + j - 1
    <3>1. p \in Nat /\ p % Capacity = i % Capacity /\ p - i < Capacity /\ i - p < Capacity
        BY <1>1, <2>1, <2>2, <2>3, SMT
    <3> HIDE DEF p
    <3>2. p = i
        BY Zenon, <1>1, <2>2, <3>1, SlotDecides
    <3> QED BY <3>2 DEF p
  <2>4. CASE i < writePos
    <3>1. here(i % Capacity) = {}
      <4>1. ASSUME NEW j \in here(i % Capacity) PROVE FALSE
        <5>1. writePos + j - 1 = i /\ j \in 1 .. n
            BY <2>3, <4>1
        <5> HIDE DEF n, here
        <5> QED BY <1>1, <2>2, <2>4, <5>1, SMT
      <4> QED BY <4>1
    <3>2. buf'[i % Capacity] = buf[i % Capacity]
        BY <1>4, <2>2, <3>1
    <3>3. i \in 0 .. writePos - 1 /\ i >= writePos - Capacity /\ i + 1 \in 1 .. writePos
        BY <1>1, <2>1, <2>2, <2>4, SMT
    <3> QED BY <1>3, <3>2, <3>3 DEF RingInv, RingHolds
  <2>5. CASE i >= writePos
    <3> DEFINE j == i - writePos + 1
    <3>1. j \in 1 .. n /\ j > n - Capacity /\ writePos + j - 1 = i /\ writePos + j = i + 1
        BY <1>1, <2>1, <2>2, <2>5, SMT
    <3>2. j \in here(i % Capacity)
        BY <3>1
    <3>3. ASSUME NEW x \in here(i % Capacity) PROVE x = j
      <4>1. writePos + x - 1 = i /\ x \in 1 .. n
          BY <2>3, <3>3
      <4> QED BY <4>1, <1>1, <2>2, SMT
    <3>4. (CHOOSE x \in here(i % Capacity) : TRUE) = j
        BY <3>2, <3>3, <1>5
    <3>5. buf'[i % Capacity] = s[j]
        BY <1>4, <2>2, <3>2, <3>4
    <3> HIDE DEF j
    <3> QED BY <1>3, <3>1, <3>5
  <2> QED BY <1>1, <2>2, <2>4, <2>5, SMT
<1> QED BY <1>2, <1>3, <1>6, <1>7 DEF RingInv

LEMMA AdvanceKeepsRing ==
    ASSUME SizesOK, RingInv, NEW n \in Nat, Advance(n)
    PROVE  RingInv'
<1>1. Lesser(n, Fill) \in Nat /\ Lesser(n, Fill) <= Fill
    BY AdvancePositions DEF RingInv
<1>2. Positions'
    BY <1>1, SMT DEF RingInv, Positions, Advance, Fill, SizesOK
<1>3. RingHolds'
    BY DEF RingInv, RingHolds, Advance
<1> QED BY <1>2, <1>3 DEF RingInv, Advance

LEMMA EmptyRing ==
    ASSUME SizesOK, Init
    PROVE  RingInv
<1>1. Positions
    BY SMT DEF Init, Positions, SizesOK
<1>2. input \in Seq(Sample) /\ Len(input) = writePos
    BY SeqEmpty DEF Init
<1>3. buf \in [Slot -> Sample]
    BY DEF Init, SizesOK
<1>4. RingHolds
    BY SMT DEF Init, RingHolds
<1> QED BY <1>1, <1>2, <1>3, <1>4 DEF RingInv

LEMMA StepKeepsRing ==
    ASSUME SizesOK, RingInv, [Next]_bufVars
    PROVE  RingInv'
<1>1. CASE \E s \in Seq(Sample) : Write(s)
    BY <1>1, WriteKeepsRing
<1>2. CASE \E n \in Nat : Advance(n)
    BY <1>2, AdvanceKeepsRing
<1>3. CASE UNCHANGED bufVars
    BY <1>3 DEF RingInv, RingHolds, Positions, bufVars
<1> QED BY <1>1, <1>2, <1>3 DEF Next

\* The ring holds what was written, in every reachable state.
THEOREM RingAlwaysHolds ==
    ASSUME SizesOK
    PROVE  Spec => []RingInv
<1>1. Init => RingInv
    BY EmptyRing
<1>2. RingInv /\ [Next]_bufVars => RingInv'
    BY StepKeepsRing
<1> QED BY <1>1, <1>2, PTL DEF Spec

(***************************************************************************)
(* The refinement.  Contents is the part of the input between the reader   *)
(* and the writer.                                                         *)
(***************************************************************************)

LEMMA PartsJoin ==
    ASSUME NEW S, NEW s \in Seq(S), NEW a \in Nat, NEW b \in Nat, NEW c \in Nat,
           a <= b, b <= c, c <= Len(s)
    PROVE  SubSeq(s, a + 1, b) \o SubSeq(s, b + 1, c) = SubSeq(s, a + 1, c)
<1> DEFINE u == SubSeq(s, a + 1, b)
           v == SubSeq(s, b + 1, c)
           w == SubSeq(s, a + 1, c)
<1>0. Len(s) \in Nat
    OBVIOUS
<1>1. u \in Seq(S) /\ Len(u) = b - a /\ \A i \in 1 .. b - a : u[i] = s[a + i]
  <2>1. b <= Len(s)
      BY <1>0, SMT
  <2> QED BY ZenonT(30), <2>1, SeqPart
<1>2. v \in Seq(S) /\ Len(v) = c - b /\ \A i \in 1 .. c - b : v[i] = s[b + i]
    BY ZenonT(30), SeqPart
<1>3. w \in Seq(S) /\ Len(w) = c - a /\ \A i \in 1 .. c - a : w[i] = s[a + i]
  <2>1. a <= c
      BY SMT
  <2> QED BY ZenonT(30), <2>1, SeqPart
<1> HIDE DEF u, v, w
<1>4. /\ u \o v \in Seq(S) /\ Len(u \o v) = Len(u) + Len(v)
      /\ \A i \in 1 .. Len(u) + Len(v) : (u \o v)[i] = IF i <= Len(u) THEN u[i] ELSE v[i - Len(u)]
    BY Zenon, <1>1, <1>2, SeqJoined
<1>5. Len(u) + Len(v) = c - a
    BY <1>1, <1>2, SMT
<1>6. ASSUME NEW i \in 1 .. c - a PROVE (u \o v)[i] = w[i]
  <2>1. CASE i <= b - a
    <3>1. i \in 1 .. b - a
        BY <2>1, SMT
    <3> QED BY Zenon, <3>1, <2>1, <1>1, <1>3, <1>4, <1>5
  <2>2. CASE ~(i <= b - a)
    <3>1. i - (b - a) \in 1 .. c - b /\ b + (i - (b - a)) = a + i
        BY <2>2, SMT
    <3>2. v[i - (b - a)] = s[a + i]
        BY <3>1, <1>2
    <3> QED BY Zenon, <3>2, <2>2, <1>1, <1>3, <1>4, <1>5
  <2> QED BY Zenon, <2>1, <2>2
<1>7. u \o v = w
    BY Zenon, <1>3, <1>4, <1>5, <1>6, SeqSame
<1> QED BY <1>7 DEF u, v, w

\* Dropping the first k of a part moves its beginning.
LEMMA PartWithout ==
    ASSUME NEW S, NEW s \in Seq(S), NEW a \in Nat, NEW b \in Nat, NEW c \in Nat,
           a <= b, b <= c, c <= Len(s)
    PROVE  SubSeq(SubSeq(s, a + 1, c), b - a + 1, c - a) = SubSeq(s, b + 1, c)
<1> DEFINE w == SubSeq(s, a + 1, c)
           k == b - a
           m == c - a
           v == SubSeq(s, b + 1, c)
           r == SubSeq(w, k + 1, m)
<1>0. Len(s) \in Nat /\ k \in Nat /\ m \in Nat /\ k <= m /\ m - k = c - b /\ a <= c
    BY SMT
<1>1. w \in Seq(S) /\ Len(w) = m /\ \A i \in 1 .. m : w[i] = s[a + i]
    BY <1>0, SeqPart
<1>2. v \in Seq(S) /\ Len(v) = c - b /\ \A i \in 1 .. c - b : v[i] = s[b + i]
    BY SeqPart
<1> HIDE DEF w, v, k, m
<1>3. m <= Len(w)
    BY <1>0, <1>1, SMT
<1>4. r \in Seq(S) /\ Len(r) = m - k /\ \A i \in 1 .. m - k : r[i] = w[k + i]
    BY <1>0, <1>1, <1>3, SeqPart
<1> HIDE DEF r
<1>5. ASSUME NEW i \in 1 .. c - b PROVE r[i] = v[i]
  <2>1. k + i \in 1 .. m /\ a + (k + i) = b + i
      BY <1>0, SMT DEF k, m
  <2> QED BY ZenonT(30), <2>1, <1>0, <1>1, <1>2, <1>4
<1>6. r = v
    BY Zenon, <1>0, <1>2, <1>4, <1>5, SeqSame
<1> QED BY <1>6 DEF r, v, w, k, m

\* A part does not change when the sequence grows.
LEMMA PartOfLonger ==
    ASSUME NEW S, NEW s \in Seq(S), NEW t \in Seq(S), NEW a \in Nat, NEW b \in Nat,
           a <= b, b <= Len(s)
    PROVE  SubSeq(s \o t, a + 1, b) = SubSeq(s, a + 1, b)
<1> DEFINE u == SubSeq(s, a + 1, b)
           v == SubSeq(s \o t, a + 1, b)
<1>0. Len(s) \in Nat /\ Len(t) \in Nat
    OBVIOUS
<1>1. /\ s \o t \in Seq(S) /\ Len(s \o t) = Len(s) + Len(t)
      /\ \A i \in 1 .. Len(s) + Len(t) : (s \o t)[i] = IF i <= Len(s) THEN s[i] ELSE t[i - Len(s)]
    BY SeqJoined
<1>2. b <= Len(s \o t)
  <2>1. b <= Len(s) + Len(t)
      BY <1>0, SMT
  <2> QED BY <2>1, <1>1
<1>3. u \in Seq(S) /\ Len(u) = b - a /\ \A i \in 1 .. b - a : u[i] = s[a + i]
    BY SeqPart
<1>4. v \in Seq(S) /\ Len(v) = b - a /\ \A i \in 1 .. b - a : v[i] = (s \o t)[a + i]
    BY <1>1, <1>2, SeqPart
<1> HIDE DEF u, v
<1>5. ASSUME NEW i \in 1 .. b - a PROVE v[i] = u[i]
  <2>1. a + i \in 1 .. Len(s) + Len(t) /\ a + i <= Len(s)
      BY <1>0, SMT
  <2> QED BY <2>1, <1>1, <1>3, <1>4
<1>6. v = u
    BY <1>3, <1>4, <1>5, SeqSame
<1> QED BY <1>6 DEF u, v

\* A ring b with the writer at w holds the last samples of s ...
Holds(b, w, s) == \A i \in 0 .. w - 1 : i >= w - Capacity => b[i % Capacity] = s[i + 1]

\* ... and f is what it has from position r to w.
Shown(f, b, r, w) == \A i \in 1 .. w - r : f[i] = b[(r + i - 1) % Capacity]

\* A ring that holds the last samples written shows the part of the input
\* between reader and writer.
LEMMA RingShowsPart ==
    ASSUME SizesOK, NEW b, NEW r \in Nat, NEW w \in Nat, NEW s \in Seq(Sample),
           r <= w, w - r <= Capacity, Len(s) = w, Holds(b, w, s),
           NEW f, f \in [1 .. w - r -> Sample], Shown(f, b, r, w)
    PROVE  f = SubSeq(s, r + 1, w)
<1> DEFINE v == SubSeq(s, r + 1, w)
<1>1. w - r \in Nat /\ w <= Len(s)
    BY SMT
<1>2. v \in Seq(Sample) /\ Len(v) = w - r /\ \A i \in 1 .. w - r : v[i] = s[r + i]
    BY <1>1, SeqPart
<1>3. ASSUME NEW i \in 1 .. w - r PROVE f[i] = v[i]
  <2>1. r + i - 1 \in 0 .. w - 1 /\ r + i - 1 >= w - Capacity /\ (r + i - 1) + 1 = r + i
      BY SMT DEF SizesOK
  <2>2. b[(r + i - 1) % Capacity] = s[r + i]
      BY <2>1 DEF Holds
  <2> QED BY <2>2, <1>2 DEF Shown
<1> HIDE DEF v
<1>4. v \in [1 .. w - r -> Sample]
    BY <1>2, SeqLength
<1>5. f = v
    BY <1>3, <1>4
<1> QED BY <1>5 DEF v

\* The initial state, and every step, of the ring is one of the queue.
THEOREM RingIsFifo ==
    ASSUME SizesOK
    PROVE  Spec => IsFifo
<1>1. ASSUME RingInv PROVE Contents = SubSeq(input, readPos + 1, writePos)
  <2> DEFINE r == readPos
             w == writePos
  <2>1. /\ r \in Nat /\ w \in Nat /\ input \in Seq(Sample)
        /\ r <= w /\ w - r <= Capacity /\ Len(input) = w
        /\ buf \in [Slot -> Sample]
        /\ Holds(buf, w, input)
      BY <1>1 DEF RingInv, RingHolds, Positions, Holds
  <2>2. Contents = [i \in 1 .. Lesser(w - r, w - r) |-> buf[(r + i - 1) % Capacity]]
      BY DEF Contents, Taken, Fill
  <2> HIDE DEF r, w
  <2>3. Lesser(w - r, w - r) = w - r /\ \A i \in 1 .. w - r : r + i - 1 \in Nat
      BY <2>1, SMT DEF Lesser
  <2>4. Shown(Contents, buf, r, w)
      BY <2>2, <2>3 DEF Shown
  <2>5. Contents \in [1 .. w - r -> Sample]
    <3>1. \A i \in 1 .. w - r : buf[(r + i - 1) % Capacity] \in Sample
        BY <2>1, <2>3, SlotOfPosition
    <3> QED BY <2>2, <2>3, <3>1
  <2>6. Contents = SubSeq(input, r + 1, w)
      BY Zenon, <2>1, <2>4, <2>5, RingShowsPart
  <2> QED BY <2>6 DEF r, w
<1>2. ASSUME RingInv' PROVE Contents' = SubSeq(input', readPos' + 1, writePos')
  <2> DEFINE r == readPos'
             w == writePos'
  <2>1. /\ r \in Nat /\ w \in Nat /\ input' \in Seq(Sample)
        /\ r <= w /\ w - r <= Capacity /\ Len(input') = w
        /\ buf' \in [Slot -> Sample]
        /\ Holds(buf', w, input')
      BY Zenon, <1>2 DEF RingInv, RingHolds, Positions, Holds
  <2>2. Contents' = [i \in 1 .. Lesser(w - r, w - r) |-> buf'[(r + i - 1) % Capacity]]
      BY DEF Contents, Taken, Fill
  <2> HIDE DEF r, w
  <2>3. Lesser(w - r, w - r) = w - r /\ \A i \in 1 .. w - r : r + i - 1 \in Nat
      BY <2>1, SMT DEF Lesser
  <2>4. Shown(Contents', buf', r, w)
      BY <2>2, <2>3 DEF Shown
  <2>5. Contents' \in [1 .. w - r -> Sample]
    <3>1. \A i \in 1 .. w - r : buf'[(r + i - 1) % Capacity] \in Sample
        BY <2>1, <2>3, SlotOfPosition
    <3> QED BY <2>2, <2>3, <3>1
  <2>6. Contents' = SubSeq(input', r + 1, w)
      BY Zenon, <2>1, <2>4, <2>5, RingShowsPart
  <2> QED BY <2>6 DEF r, w
<1>3. ASSUME Init PROVE Fifo!Init
  <2>1. Contents = [i \in 1 .. 0 |-> buf[(readPos + i - 1) % Capacity]]
      BY <1>3, SMT DEF Init, Contents, Taken, Fill, Lesser
  <2>2. Contents = <<>>
      BY <2>1, SMT
  <2> QED BY <1>3, <2>2 DEF Init, Fifo!Init
<1>4. ASSUME RingInv, RingInv', NEW s \in Seq(Sample), Write(s) PROVE Fifo!Arrive
  <2> DEFINE r1 == readPos'
             w1 == writePos'
             k == r1 - readPos
             all == Contents \o Fifo!Without(input', Len(input))
  <2>1. /\ input \in Seq(Sample) /\ Len(input) = writePos
        /\ input' \in Seq(Sample) /\ Len(input') = w1 /\ input' = input \o s
        /\ w1 = writePos + Len(s) /\ r1 = ReaderAfter(Len(s)) /\ Len(s) \in Nat
        /\ readPos \in Nat /\ writePos \in Nat /\ r1 \in Nat /\ w1 \in Nat
        /\ readPos <= writePos /\ r1 <= w1
      BY <1>4 DEF RingInv, Positions, Write
  <2>2. readPos <= r1
      BY <1>4, <2>1, WritePositions DEF RingInv
  <2> HIDE DEF r1, w1
  <2>3. writePos <= w1 /\ readPos <= w1 /\ k \in 0 .. w1 - readPos
      BY SMTT(30), <2>1, <2>2
  <2>4. Contents = SubSeq(input', readPos + 1, writePos)
    <3>1. SubSeq(input \o s, readPos + 1, writePos) = SubSeq(input, readPos + 1, writePos)
      <4>1. writePos <= Len(input)
          BY <2>1
      <4> QED BY <4>1, <2>1, PartOfLonger
    <3> QED BY <3>1, <2>1, <1>1, <1>4
  <2>5. Fifo!Without(input', Len(input)) = SubSeq(input', writePos + 1, w1)
      BY <2>1 DEF Fifo!Without
  <2>6. all = SubSeq(input', readPos + 1, w1) /\ Len(all) = w1 - readPos
    <3>1. w1 <= Len(input')
        BY <2>1
    <3>2. SubSeq(input', readPos + 1, writePos) \o SubSeq(input', writePos + 1, w1)
            = SubSeq(input', readPos + 1, w1)
      <4>1. /\ input' \in Seq(Sample) /\ readPos \in Nat /\ writePos \in Nat /\ w1 \in Nat
            /\ readPos <= writePos /\ writePos <= w1
          BY <2>1, <2>3
      <4> QED BY <3>1, <4>1, PartsJoin
    <3>4. all = SubSeq(input', readPos + 1, w1)
        BY Zenon, <3>2, <2>4, <2>5
    <3>3. Len(SubSeq(input', readPos + 1, w1)) = w1 - readPos
        BY <3>1, <2>1, <2>3, SeqPart
    <3> QED BY Zenon, <3>4, <3>3
  <2>7. Contents' = Fifo!Without(all, k)
    <3>1. w1 <= Len(input')
        BY <2>1
    <3>2. SubSeq(SubSeq(input', readPos + 1, w1), k + 1, w1 - readPos) = SubSeq(input', r1 + 1, w1)
      <4>1. /\ input' \in Seq(Sample) /\ readPos \in Nat /\ r1 \in Nat /\ w1 \in Nat
            /\ readPos <= r1 /\ r1 <= w1
          BY <2>1, <2>2
      <4> QED BY <3>1, <4>1, PartWithout
    <3>3. Contents' = SubSeq(input', r1 + 1, w1)
        BY <1>2, <1>4 DEF r1, w1
    <3> HIDE DEF all, k
    <3> QED BY Zenon, <3>2, <3>3, <2>6 DEF Fifo!Without
  <2>8. SubSeq(input', 1, Len(input)) = input
    <3>1. SubSeq(input \o s, 0 + 1, writePos) = SubSeq(input, 0 + 1, writePos)
      <4>1. writePos <= Len(input) /\ 0 \in Nat /\ 0 <= writePos
          BY <2>1, SMT
      <4> QED BY <4>1, <2>1, PartOfLonger
    <3>2. SubSeq(input, 0 + 1, writePos) = input
      <4>1. writePos <= Len(input) /\ 0 \in Nat /\ 0 <= writePos /\ writePos - 0 = writePos
          BY <2>1, SMT
      <4>2. /\ SubSeq(input, 0 + 1, writePos) \in Seq(Sample)
            /\ Len(SubSeq(input, 0 + 1, writePos)) = writePos
            /\ \A i \in 1 .. writePos : SubSeq(input, 0 + 1, writePos)[i] = input[0 + i]
          BY <4>1, <2>1, SeqPart
      <4>3. \A i \in 1 .. writePos : 0 + i = i
          BY <2>1, SMT
      <4> QED BY <4>2, <4>3, <2>1, SeqSame
    <3>3. 0 + 1 = 1
        BY SMT
    <3> QED BY <3>1, <3>2, <3>3, <2>1
  <2>9. Len(input') >= Len(input)
      BY <2>1, <2>3, SMT
  <2> HIDE DEF k
  <2> QED BY Zenon, <2>3, <2>6, <2>7, <2>8, <2>9 DEF Fifo!Arrive
<1>5. ASSUME RingInv, RingInv', NEW n \in Nat, Advance(n) PROVE Fifo!Take
  <2> DEFINE k == Lesser(n, Fill)
  <2>1. k \in Nat /\ k <= Fill
      BY <1>5, AdvancePositions DEF RingInv
  <2>2. /\ input \in Seq(Sample) /\ Len(input) = writePos
        /\ readPos \in Nat /\ writePos \in Nat /\ readPos <= writePos
        /\ readPos' = readPos + k /\ writePos' = writePos /\ input' = input
      BY <1>5 DEF RingInv, Positions, Advance
  <2> HIDE DEF k
  <2>3. /\ readPos + k \in Nat /\ readPos <= readPos + k /\ readPos + k <= writePos
        /\ (readPos + k) - readPos = k /\ k \in 0 .. writePos - readPos /\ writePos <= Len(input)
      BY <2>1, <2>2, SMT DEF Fill
  <2>4. Contents = SubSeq(input, readPos + 1, writePos)
      BY <1>1, <1>5
  <2>5. Len(Contents) = writePos - readPos
      BY SMTT(30), <2>2, <2>3, <2>4, SeqPart
  <2>6. Contents' = SubSeq(input, (readPos + k) + 1, writePos)
      BY <1>2, <1>5, <2>2
  <2>7. SubSeq(SubSeq(input, readPos + 1, writePos), (readPos + k) - readPos + 1, writePos - readPos)
          = SubSeq(input, (readPos + k) + 1, writePos)
      BY <2>2, <2>3, PartWithout
  <2>8. Contents' = Fifo!Without(Contents, k)
      BY Zenon, <2>3, <2>4, <2>5, <2>6, <2>7 DEF Fifo!Without
  <2> QED BY <2>2, <2>3, <2>5, <2>8 DEF Fifo!Take
<1>6. ASSUME RingInv, RingInv', [Next]_bufVars PROVE [Fifo!Next]_<<input, Contents>>
  <2>1. CASE \E s \in Seq(Sample) : Write(s)
      BY <2>1, <1>4, <1>6 DEF Fifo!Next
  <2>2. CASE \E n \in Nat : Advance(n)
      BY <2>2, <1>5, <1>6 DEF Fifo!Next
  <2>3. CASE UNCHANGED bufVars
      BY <2>3 DEF bufVars, Contents, Taken, Fill
  <2> QED BY <2>1, <2>2, <2>3, <1>6 DEF Next
<1> QED BY <1>3, <1>6, RingAlwaysHolds, PTL DEF Spec, IsFifo, Fifo!Spec
=============================================================================
