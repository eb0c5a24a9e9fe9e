-------------------------- MODULE MediaPathProofs --------------------------
(***************************************************************************)
(* The media path keeps its invariant, plays every packet in its place and *)
(* uses both ring buffers as lossy FIFOs, for every size of frame, buffers *)
(* and callbacks and every length of the cycle of sequence numbers.  What  *)
(* the ring buffers keep on their own comes from AudioBufferProofs; what   *)
(* the jitter buffer keeps is shown here first.                            *)
(***************************************************************************)
EXTENDS MediaPath, FiniteSetTheorems, TLAPS

(***************************************************************************)
(* The jitter buffer: what push and pop keep, whatever packets arrive, in  *)
(* any order and any number of times.  The argument is that sequence       *)
(* numbers stand for places: within half a cycle of the playback position, *)
(* the wrapping distance of two numbers is the distance of their places.   *)
(***************************************************************************)

\* Of n packets sent, those buffered are at most half a cycle ahead of the
\* playback position, and the first packet is at most half a cycle behind it.
Started(n) ==
    /\ place \in 0 .. n
    /\ nextSeq = SeqOf(place)
    /\ \E f \in 0 .. place :
         firstSeq = SeqOf(f) /\ place - f <= Half
    /\ \A s \in DOMAIN buffer :
         /\ buffer[s] \in place .. n - 1
         /\ buffer[s] - place < Half
         /\ s = SeqOf(buffer[s])

JitterInv(n) ==
    /\ n \in 0 .. 2 * Half
    /\ nextSeq = None <=> firstSeq = None
    /\ nextSeq = None => DOMAIN buffer = {} /\ place = 0
    /\ nextSeq # None => Started(n)

(***************************************************************************)
(* Sequence numbers and places.                                            *)
(***************************************************************************)

LEMMA SeqOfType ==
    ASSUME NEW i \in 0 .. 2 * Half
    PROVE  SeqOf(i) \in SeqNum /\ SeqOf(i) # None
BY SMTT(30), JitterAssumption DEF SeqOf, WrappingAdd, SeqNum, None

\* The wrapping distance of the numbers, from the distance of the places.
LEMMA DistanceOfPlaces ==
    ASSUME NEW i \in 0 .. 2 * Half, NEW j \in 0 .. 2 * Half
    PROVE  /\ i >= j /\ i - j < 2 * Half => WrappingSub(SeqOf(i), SeqOf(j)) = i - j
           /\ i < j => WrappingSub(SeqOf(i), SeqOf(j)) = i - j + 2 * Half
                       \/ (i - j + 2 * Half = 0 /\ WrappingSub(SeqOf(i), SeqOf(j)) = 0)
BY JitterAssumption, SMT DEF SeqOf, WrappingAdd, WrappingSub, SeqNum

LEMMA NextPlace ==
    ASSUME NEW i \in 0 .. 2 * Half - 1
    PROVE  WrappingAdd(SeqOf(i), 1) = SeqOf(i + 1)
BY SMTT(30), JitterAssumption DEF SeqOf, WrappingAdd, SeqNum

(***************************************************************************)
(* The invariant, and what follows from it.                                *)
(***************************************************************************)

LEMMA InvGivesProperties ==
    ASSUME NEW n, JitterInv(n)
    PROVE  PlayedInPlace
<1>1. CASE nextSeq = None
    BY <1>1 DEF JitterInv, PlayedInPlace
<1>2. CASE nextSeq # None
  <2> SUFFICES ASSUME NEW s \in DOMAIN buffer
               PROVE  WrappingSub(s, nextSeq) < Half /\ buffer[s] = place + WrappingSub(s, nextSeq)
      BY DEF PlayedInPlace
  <2> DEFINE i == buffer[s]
  <2>1. /\ n \in 0 .. 2 * Half /\ place \in 0 .. n /\ i \in place .. n - 1 /\ i - place < Half
        /\ s = SeqOf(i) /\ nextSeq = SeqOf(place)
      BY <1>2 DEF JitterInv, Started
  <2> HIDE DEF i
  <2>2. /\ i \in 0 .. 2 * Half /\ place \in 0 .. 2 * Half /\ i >= place /\ i - place < 2 * Half
        /\ i = place + (i - place)
      BY <2>1, JitterAssumption, SMT
  <2>3. WrappingSub(s, nextSeq) = i - place
      BY <2>1, <2>2, DistanceOfPlaces
  <2> QED BY <2>1, <2>2, <2>3 DEF i
<1> QED BY <1>1, <1>2

LEMMA InitHolds ==
    ASSUME JitterInit
    PROVE  JitterInv(0)
BY JitterAssumption, SMT DEF JitterInit, JitterInv, None

\* Sending more packets changes nothing.
LEMMA MoreSent ==
    ASSUME NEW n, NEW m \in 0 .. 2 * Half, JitterInv(n), n <= m
    PROVE  JitterInv(m)
<1>1. n \in 0 .. 2 * Half
    BY DEF JitterInv
<1>2. \A i : (i \in 0 .. n => i \in 0 .. m) /\ (i \in place .. n - 1 => i \in place .. m - 1)
    BY <1>1, JitterAssumption, SMT
<1> QED BY <1>2 DEF JitterInv, Started

\* The guards of push accept a packet only if its turn is still to come.
LEMMA AcceptedIsAhead ==
    ASSUME NEW n, JitterInv(n), nextSeq # None, NEW i, Deliverable(i, n),
           Forward(SeqOf(i), firstSeq, nextSeq)
    PROVE  i \in place .. n - 1 /\ i - place < Half
<1>1. /\ n \in 0 .. 2 * Half /\ place \in 0 .. n /\ nextSeq = SeqOf(place)
      /\ i \in 0 .. n - 1 /\ n - i <= Half
    BY DEF JitterInv, Started, Deliverable
<1>2. i \in 0 .. 2 * Half /\ place \in 0 .. 2 * Half /\ i \in Int /\ place \in Int /\ i - place < 2 * Half
    BY <1>1, JitterAssumption, SMT
<1>3. WrappingSub(SeqOf(i), SeqOf(place)) < Half
    BY <1>1 DEF Forward
<1>4. i >= place /\ i - place < Half
  <2>1. CASE i >= place
    <3>1. WrappingSub(SeqOf(i), SeqOf(place)) = i - place
        BY Zenon, <2>1, <1>2, DistanceOfPlaces
    <3> QED BY <2>1, <3>1, <1>3
  <2>2. CASE ~(i >= place)
    <3>1. i < place
        BY SMTT(30), <2>2, <1>2
    <3>2. \/ WrappingSub(SeqOf(i), SeqOf(place)) = i - place + 2 * Half
          \/ i - place + 2 * Half = 0
        BY <3>1, <1>2, DistanceOfPlaces
    <3> QED BY SMTT(30), <3>1, <3>2, <1>1, <1>3, JitterAssumption
  <2> QED BY <2>1, <2>2
<1> QED BY SMTT(30), <1>1, <1>4, JitterAssumption

LEMMA PushKeeps ==
    ASSUME NEW n, JitterInv(n), NEW i, Deliverable(i, n), Push(i)
    PROVE  JitterInv(n)'
<1> DEFINE s == SeqOf(i)
           first == IF firstSeq = None THEN s ELSE firstSeq
           next == IF nextSeq = None THEN s ELSE nextSeq
           added == [x \in DOMAIN buffer \cup {s} |-> IF x = s THEN i ELSE buffer[x]]
<1>1. /\ firstSeq' = first /\ nextSeq' = next
      /\ place' = IF nextSeq = None THEN i ELSE place
      /\ \/ Forward(s, first, next) /\ buffer' = added
         \/ buffer' = buffer
    BY DEF Push
<1>2. n \in 0 .. 2 * Half /\ i \in 0 .. n - 1 /\ i \in 0 .. 2 * Half /\ i \in 0 .. n /\ n - i <= Half
    BY JitterAssumption, SMT DEF JitterInv, Deliverable
<1>3. s # None
    BY <1>2, SeqOfType
<1> HIDE DEF s
<1>4. CASE nextSeq = None
  <2>1. firstSeq' = s /\ nextSeq' = s /\ place' = i /\ DOMAIN buffer = {}
      BY <1>1, <1>4 DEF JitterInv
  <2>2. \A x \in DOMAIN buffer' : x = s /\ buffer'[x] = i
      BY <1>1, <2>1
  <2>3. i \in 0 .. i /\ i - i <= Half /\ i \in i .. n - 1 /\ i - i < Half
      BY <1>2, JitterAssumption, SMT
  <2>4. \E f \in 0 .. place' : firstSeq' = SeqOf(f) /\ place' - f <= Half
      BY <2>1, <2>3 DEF s
  <2>5. \A x \in DOMAIN buffer' : /\ buffer'[x] \in place' .. n - 1
                                  /\ buffer'[x] - place' < Half
                                  /\ x = SeqOf(buffer'[x])
      BY <2>1, <2>2, <2>3 DEF s
  <2>6. Started(n)'
      BY <1>2, <2>1, <2>4, <2>5 DEF Started, s
  <2> QED BY Zenon, <1>2, <1>3, <2>1, <2>6 DEF JitterInv
<1>5. CASE nextSeq # None
  <2>1. firstSeq # None /\ firstSeq' = firstSeq /\ nextSeq' = nextSeq /\ place' = place
      BY <1>1, <1>5 DEF JitterInv
  <2>2. CASE buffer' = buffer
      BY Zenon, <1>5, <2>1, <2>2 DEF JitterInv, Started
  <2>3. CASE Forward(s, first, next) /\ buffer' = added
    <3>1. i \in place .. n - 1 /\ i - place < Half
        BY <1>5, <2>1, <2>3, AcceptedIsAhead DEF s
    <3>2. \A x \in DOMAIN buffer' : (x = s /\ buffer'[x] = i) \/ (x \in DOMAIN buffer /\ buffer'[x] = buffer[x])
        BY <2>3
    <3>3. \A x \in DOMAIN buffer' : /\ buffer'[x] \in place .. n - 1
                                    /\ buffer'[x] - place < Half
                                    /\ x = SeqOf(buffer'[x])
        BY Zenon, <1>5, <3>1, <3>2 DEF JitterInv, Started, s
    <3> QED BY Zenon, <1>5, <2>1, <3>3 DEF JitterInv, Started
  <2> QED BY <1>1, <2>2, <2>3
<1> QED BY <1>4, <1>5

\* Playback moves on by one place, past a packet it plays or one it gives up.
LEMMA StepKeeps ==
    ASSUME NEW n, JitterInv(n), Playable, StepOn,
           DOMAIN buffer' = DOMAIN buffer \ {nextSeq},
           \A s \in DOMAIN buffer' : buffer'[s] = buffer[s],
           \E s \in DOMAIN buffer : TRUE
    PROVE  JitterInv(n)'
<1>1. /\ nextSeq # None /\ Started(n) /\ n \in 0 .. 2 * Half
      /\ firstSeq' = firstSeq /\ place' = place + 1 /\ nextSeq' = WrappingAdd(nextSeq, 1)
      /\ firstSeq # None
    BY DEF JitterInv, Playable, StepOn
<1>2. place \in 0 .. n /\ nextSeq = SeqOf(place)
    BY <1>1 DEF Started
<1>3. place + 1 \in 0 .. n /\ place + 1 \in 0 .. 2 * Half /\ place \in 0 .. 2 * Half - 1
  <2>1. PICK s \in DOMAIN buffer : TRUE
      OBVIOUS
  <2>2. buffer[s] \in place .. n - 1
      BY <1>1 DEF Started
  <2> QED BY SMTT(30), <1>1, <1>2, <2>2, JitterAssumption
<1>4. nextSeq' = SeqOf(place + 1) /\ nextSeq' # None
    BY Zenon, <1>1, <1>2, <1>3, NextPlace, SeqOfType
<1>5. PICK f \in 0 .. place : firstSeq = SeqOf(f) /\ place - f <= Half
    BY <1>1 DEF Started
<1>6. f \in 0 .. place + 1 /\ place + 1 - f <= Half
  <2>1. f \in 0 .. 2 * Half /\ place \in 0 .. 2 * Half /\ place >= f /\ place - f < 2 * Half
      BY SMTT(30), <1>1, <1>2, <1>5, JitterAssumption
  <2>2. WrappingSub(nextSeq, firstSeq) = place - f
      BY Zenon, <2>1, <1>2, <1>5, DistanceOfPlaces
  <2>3. place - f < Half
      BY <2>2 DEF Playable
  <2> QED BY SMTT(30), <2>1, <2>3, <1>2, <1>5, JitterAssumption
<1>7. ASSUME NEW s \in DOMAIN buffer'
      PROVE  buffer'[s] \in place + 1 .. n - 1 /\ buffer'[s] - (place + 1) < Half /\ s = SeqOf(buffer'[s])
  <2>1. /\ s \in DOMAIN buffer /\ s # nextSeq /\ buffer'[s] = buffer[s]
        /\ buffer[s] \in place .. n - 1 /\ buffer[s] - place < Half /\ s = SeqOf(buffer[s])
      BY <1>1 DEF Started
  <2>2. buffer[s] # place
      BY <1>2, <2>1
  <2> HIDE DEF Started
  <2>3. buffer[s] \in place + 1 .. n - 1 /\ buffer[s] - (place + 1) < Half
      BY SMTT(30), <1>1, <1>2, <2>1, <2>2, JitterAssumption
  <2> QED BY <2>1, <2>3
<1>8. \E g \in 0 .. place' : firstSeq' = SeqOf(g) /\ place' - g <= Half
  <2> place' = place + 1
      BY DEF StepOn
  <2>1. f \in 0 .. place' /\ place' - f <= Half
      BY SMTT(30), <1>3, <1>6, JitterAssumption
  <2>2. firstSeq' = SeqOf(f)
      BY <1>1, <1>5
  <2> HIDE DEF Started
  <2> QED BY <2>1, <2>2
<1>9. Started(n)'
    BY ZenonT(30), <1>1, <1>3, <1>4, <1>7, <1>8 DEF Started
<1> QED BY Zenon, <1>1, <1>4, <1>9 DEF JitterInv

LEMMA PopPacketKeeps ==
    ASSUME NEW n, JitterInv(n), PopPacket
    PROVE  JitterInv(n)'
<1>1. /\ Playable /\ StepOn /\ nextSeq \in DOMAIN buffer
      /\ DOMAIN buffer' = DOMAIN buffer \ {nextSeq}
      /\ \A s \in DOMAIN buffer' : buffer'[s] = buffer[s]
    BY DEF PopPacket
<1> QED BY <1>1, StepKeeps

LEMMA PopMissingKeeps ==
    ASSUME NEW n, JitterInv(n), PopMissing
    PROVE  JitterInv(n)'
<1>1. /\ Playable /\ StepOn /\ nextSeq \notin DOMAIN buffer /\ buffer' = buffer
      /\ \E s \in DOMAIN buffer : TRUE
    BY DEF PopMissing, LaterBuffered
<1>2. DOMAIN buffer' = DOMAIN buffer \ {nextSeq}
    BY Zenon, <1>1
<1> QED BY <1>1, <1>2, StepKeeps

\* The packet that is played is the one whose turn it is.
LEMMA PlaysItsPlace ==
    ASSUME NEW n, JitterInv(n), PopPacket
    PROVE  buffer[nextSeq] = place /\ place \in 0 .. n - 1
<1>1. nextSeq # None /\ nextSeq \in DOMAIN buffer /\ Started(n) /\ n \in 0 .. 2 * Half
    BY DEF PopPacket, Playable, JitterInv
<1> DEFINE i == buffer[nextSeq]
<1>2. /\ place \in 0 .. n /\ nextSeq = SeqOf(place) /\ i \in place .. n - 1 /\ i - place < Half
      /\ nextSeq = SeqOf(i)
    BY <1>1 DEF Started
<1> HIDE DEF i
<1>3. i \in 0 .. 2 * Half - 1 /\ place \in 0 .. 2 * Half - 1 /\ place \in 0 .. n - 1
    BY SMTT(30), <1>1, <1>2, JitterAssumption
<1>4. i = place
    BY SMTT(30), <1>2, <1>3, JitterAssumption DEF SeqOf, WrappingAdd, SeqNum
<1> QED BY <1>3, <1>4 DEF i

(***************************************************************************)
(* Types, and the limit of the buffer.                                     *)
(***************************************************************************)

Bounded == IsFiniteSet(DOMAIN buffer) /\ Cardinality(DOMAIN buffer) <= MaxBuffered

LEMMA InvGivesTypes ==
    ASSUME NEW n, JitterInv(n)
    PROVE  nextSeq \in SeqNum \cup {None} /\ DOMAIN buffer \subseteq SeqNum
<1>1. CASE nextSeq = None
    BY <1>1 DEF JitterInv
<1>2. CASE nextSeq # None
  <2>1. n \in 0 .. 2 * Half /\ place \in 0 .. n /\ nextSeq = SeqOf(place)
      BY <1>2 DEF JitterInv, Started
  <2>2. place \in 0 .. 2 * Half
      BY SMTT(30), <2>1, JitterAssumption
  <2>3. ASSUME NEW s \in DOMAIN buffer PROVE s \in SeqNum
    <3>1. buffer[s] \in place .. n - 1 /\ s = SeqOf(buffer[s])
        BY <1>2 DEF JitterInv, Started
    <3>2. buffer[s] \in 0 .. 2 * Half
        BY <2>1, <3>1, JitterAssumption, SMT
    <3> QED BY <3>1, <3>2, SeqOfType
  <2> QED BY Zenon, <2>1, <2>2, <2>3, SeqOfType
<1> QED BY <1>1, <1>2

LEMMA PushKeepsBounded ==
    ASSUME NEW i, Bounded, Push(i)
    PROVE  Bounded'
<1> DEFINE s == SeqOf(i)
<1>1. \/ DOMAIN buffer' = DOMAIN buffer
      \/ Cardinality(DOMAIN buffer) < MaxBuffered /\ DOMAIN buffer' = DOMAIN buffer \cup {s}
    BY DEF Push
<1> HIDE DEF s
<1>2. CASE DOMAIN buffer' = DOMAIN buffer
    BY <1>2 DEF Bounded
<1>3. CASE Cardinality(DOMAIN buffer) < MaxBuffered /\ DOMAIN buffer' = DOMAIN buffer \cup {s}
  <2>1. /\ IsFiniteSet(DOMAIN buffer \cup {s})
        /\ \/ Cardinality(DOMAIN buffer \cup {s}) = Cardinality(DOMAIN buffer)
           \/ Cardinality(DOMAIN buffer \cup {s}) = Cardinality(DOMAIN buffer) + 1
      BY FS_AddElement DEF Bounded
  <2>2. Cardinality(DOMAIN buffer) \in Nat
      BY FS_CardinalityType DEF Bounded
  <2> QED BY <1>3, <2>1, <2>2, JitterAssumption DEF Bounded
<1> QED BY <1>1, <1>2, <1>3

LEMMA FewerKeepsBounded ==
    ASSUME Bounded, DOMAIN buffer' \subseteq DOMAIN buffer
    PROVE  Bounded'
<1>1. /\ IsFiniteSet(DOMAIN buffer') /\ Cardinality(DOMAIN buffer') <= Cardinality(DOMAIN buffer)
    BY FS_Subset DEF Bounded
<1>2. Cardinality(DOMAIN buffer') \in Nat /\ Cardinality(DOMAIN buffer) \in Nat
    BY <1>1, FS_CardinalityType DEF Bounded
<1> QED BY <1>1, <1>2, JitterAssumption DEF Bounded

(***************************************************************************)
(* The ring buffers of the two sides.                                      *)
(***************************************************************************)

CaptureRing == INSTANCE AudioBufferProofs WITH
    Capacity <- CaptureSize, Target <- CaptureTarget, Margin <- CaptureMargin,
    buf <- captureBuf, writePos <- captureWrite, readPos <- captureRead, input <- captured

PlaybackRing == INSTANCE AudioBufferProofs WITH
    Capacity <- PlaybackSize, Target <- PlaybackTarget, Margin <- PlaybackMargin,
    buf <- playbackBuf, writePos <- playbackWrite, readPos <- playbackRead, input <- decoded

(***************************************************************************)
(* The instances of MediaPath are those of the proofs.                     *)
(***************************************************************************)

LEMMA RingSizes == CaptureRing!SizesOK /\ PlaybackRing!SizesOK
BY ZenonT(30), SizeAssumption DEF Capture!SizesOK, CaptureRing!SizesOK, Playback!SizesOK, PlaybackRing!SizesOK

LEMMA CaptureSteps ==
    /\ \A s : Capture!Write(s) => CaptureRing!Write(s)
    /\ \A n : Capture!Advance(n) => CaptureRing!Advance(n)
    /\ Capture!Init => CaptureRing!Init
BY ZenonT(30) DEF Capture!Write, CaptureRing!Write, Capture!Stored, CaptureRing!Stored, Capture!Slot,
       CaptureRing!Slot, Capture!ReaderAfter, CaptureRing!ReaderAfter, Capture!Overrun,
       CaptureRing!Overrun, Capture!Backlog, CaptureRing!Backlog, Capture!Preempt,
       CaptureRing!Preempt, Capture!Fill, CaptureRing!Fill, Capture!Lesser,
       CaptureRing!Lesser, Capture!Greater, CaptureRing!Greater, Capture!Advance,
       CaptureRing!Advance, Capture!Init, CaptureRing!Init

LEMMA PlaybackSteps ==
    /\ \A s : Playback!Write(s) => PlaybackRing!Write(s)
    /\ \A n : Playback!Advance(n) => PlaybackRing!Advance(n)
    /\ Playback!Init => PlaybackRing!Init
BY ZenonT(30) DEF Playback!Write, PlaybackRing!Write, Playback!Stored, PlaybackRing!Stored, Playback!Slot,
       PlaybackRing!Slot, Playback!ReaderAfter, PlaybackRing!ReaderAfter, Playback!Overrun,
       PlaybackRing!Overrun, Playback!Backlog, PlaybackRing!Backlog, Playback!Preempt,
       PlaybackRing!Preempt, Playback!Fill, PlaybackRing!Fill, Playback!Lesser,
       PlaybackRing!Lesser, Playback!Greater, PlaybackRing!Greater, Playback!Advance,
       PlaybackRing!Advance, Playback!Init, PlaybackRing!Init

(***************************************************************************)
(* The capture buffer as the send loop sees it: the microphone's callback  *)
(* never leaves less in it than before, since the margin reaches up to the *)
(* capacity and the backlog is never cut down to the target.               *)
(***************************************************************************)

LEMMA MicrophoneOnlyAdds ==
    ASSUME CaptureRing!Positions, NEW n \in Nat, NEW s, Len(s) = n, Capture!Write(s)
    PROVE  Capture!Fill' >= Capture!Fill
<1>1. /\ captureWrite \in Nat /\ captureRead \in Nat /\ captureRead <= captureWrite
      /\ captureWrite - captureRead <= CaptureSize
    BY DEF CaptureRing!Positions
<1>2. captureWrite' = captureWrite + n /\ captureRead' = Capture!ReaderAfter(n)
    BY DEF Capture!Write
<1>3. /\ CaptureSize \in Nat /\ CaptureTarget \in Nat /\ CaptureMargin \in Nat /\ Frame \in Nat
      /\ CaptureTarget + CaptureMargin = CaptureSize
    BY ZenonT(30), SizeAssumption DEF Capture!SizesOK
<1>4. /\ Capture!Overrun(n) \in Int
      /\ captureWrite + n - Capture!Overrun(n) <= CaptureSize
      /\ captureWrite + n - Capture!Overrun(n) >= captureWrite - captureRead
    BY SMTT(30), <1>1, <1>3
       DEF Capture!Overrun, Capture!Preempt, Capture!Fill, Capture!Lesser, Capture!Greater
<1>5. Capture!Backlog(captureWrite + n - Capture!Overrun(n)) = 0
    BY SMTT(30), <1>1, <1>3, <1>4 DEF Capture!Backlog
<1>6. captureRead' = Capture!Overrun(n)
    BY SMTT(30), <1>2, <1>4, <1>5 DEF Capture!ReaderAfter
<1> QED BY <1>1, <1>2, <1>4, <1>6, SMT DEF Capture!Fill

\* Skipping all but two of the whole frames that are there leaves two frames.
LEMMA SkipLeavesTwo ==
    ASSUME NEW a \in Nat, NEW b \in Nat \ {0}
    PROVE  a \div b \in Nat /\ a - (a \div b - MaxFramesPerTick) * b >= MaxFramesPerTick * b
<1> DEFINE q == a \div b
<1>1. q \in Nat /\ a = b * q + (a % b) /\ a % b \in Nat
    BY SMTT(30)
<1> HIDE DEF q
<1>2. (q - 2) * b = b * q - 2 * b
    BY SMTT(30), <1>1
<1> QED BY SMTT(30), <1>1, <1>2 DEF MaxFramesPerTick, q

(***************************************************************************)
(* The invariant.                                                          *)
(***************************************************************************)

Rings ==
    /\ CaptureRing!RingInv /\ captureWrite <= MaxCaptured
    /\ PlaybackRing!RingInv

Packets ==
    /\ frames \in Seq(Seq(Sample))
    /\ JitterInv(Len(frames))
    /\ Bounded

Loops ==
    /\ pc \in {"idle", "skip", "check", "read"} /\ rpc \in {"read", "pop", "ended"}
    /\ toDrop \in Nat /\ done \in 0 .. MaxFramesPerTick
    /\ pc = "read" => done < MaxFramesPerTick
    /\ active \in BOOLEAN /\ jitter \in BOOLEAN
    /\ FramesWhole /\ NewestKept

PathInv == Rings /\ Packets /\ Loops

LEMMA InvGivesMediaInv == PathInv => MediaInv /\ PlayedInPlace
<1> SUFFICES ASSUME PathInv PROVE MediaInv /\ PlayedInPlace
    OBVIOUS
<1>1. PlayedInPlace
    BY ZenonT(30), InvGivesProperties DEF PathInv, Packets
<1>2. nextSeq \in SeqNum \cup {None} /\ DOMAIN buffer \subseteq SeqNum
    BY InvGivesTypes DEF PathInv, Packets
<1>3. CaptureRing!Positions /\ PlaybackRing!Positions
    BY DEF PathInv, Rings, CaptureRing!RingInv, PlaybackRing!RingInv
<1>4. /\ captureWrite \in 0 .. MaxCaptured /\ captureRead \in 0 .. captureWrite
      /\ captureWrite - captureRead <= CaptureSize
      /\ playbackRead \in 0 .. playbackWrite /\ playbackWrite - playbackRead <= PlaybackSize
    BY SMTT(30), <1>3, SizeAssumption DEF PathInv, Rings, CaptureRing!Positions, PlaybackRing!Positions
<1> QED BY ZenonT(30), <1>1, <1>2, <1>4 DEF MediaInv, TypeOK, PathInv, Loops, Packets, Bounded

LEMMA InvInitially == Init => PathInv
<1> SUFFICES ASSUME Init PROVE PathInv
    OBVIOUS
<1>1. CaptureRing!RingInv /\ PlaybackRing!RingInv /\ captureWrite <= MaxCaptured
  <2>1. CaptureRing!Init /\ PlaybackRing!Init
      BY ZenonT(30), CaptureSteps, PlaybackSteps DEF Init
  <2>2. captureWrite = 0
      BY ZenonT(30), <2>1 DEF CaptureRing!Init
  <2> QED BY SMTT(30), <2>1, <2>2, RingSizes, CaptureRing!EmptyRing, PlaybackRing!EmptyRing, SizeAssumption
<1>2. JitterInv(0) /\ Len(frames) = 0 /\ frames \in Seq(Seq(Sample))
    BY SMTT(30), InitHolds DEF Init
<1>3. Bounded
    BY SMTT(30), FS_EmptySet, JitterAssumption DEF Init, JitterInit, Bounded
<1>4. Loops
    BY DEF Init, Loops, MaxFramesPerTick, FramesWhole, NewestKept
<1> QED BY ZenonT(30), <1>1, <1>2, <1>3, <1>4 DEF PathInv, Rings, Packets

(***************************************************************************)
(* What the steps write and read is samples, so that every step is a step  *)
(* of each ring buffer, or leaves it alone.                                *)
(***************************************************************************)

LEMMA TupleIsSeq == ASSUME NEW S, NEW m \in Nat, NEW f \in [1 .. m -> S] PROVE f \in Seq(S)
OBVIOUS

LEMMA ConcealedIsSamples == Concealed \in Seq(Sample)
BY SMTT(30), SizeAssumption DEF Concealed, Capture!SizesOK, Silence, Sample

\* What the microphone delivers.
LEMMA CapturedIsSamples ==
    ASSUME PathInv, NEW n \in Nat, captureWrite + n <= MaxCaptured
    PROVE  /\ [i \in 1 .. n |-> captureWrite + i] \in Seq(Sample)
           /\ Len([i \in 1 .. n |-> captureWrite + i]) = n
<1>1. captureWrite \in Nat
    BY DEF PathInv, Rings, CaptureRing!RingInv, CaptureRing!Positions
<1>2. ASSUME NEW i \in 1 .. n PROVE captureWrite + i \in Sample
    BY SMTT(30), <1>1, SizeAssumption DEF Sample
<1>3. [i \in 1 .. n |-> captureWrite + i] \in [1 .. n -> Sample]
    BY ZenonT(30), <1>2
<1> QED BY SMTT(30), <1>3

\* What the send loop reads.
LEMMA FrameIsSamples ==
    ASSUME PathInv
    PROVE  Capture!Taken(Frame) \in Seq(Sample)
<1> DEFINE m == Capture!Lesser(Frame, Capture!Fill)
<1>1. /\ captureWrite \in Nat /\ captureRead \in Nat /\ captureRead <= captureWrite
      /\ captureBuf \in [CaptureRing!Slot -> Sample]
    BY DEF PathInv, Rings, CaptureRing!RingInv, CaptureRing!Positions
<1>2. Frame \in Nat /\ m \in Nat
    BY SMTT(30), <1>1, SizeAssumption DEF Capture!SizesOK, Capture!Lesser, Capture!Fill
<1> HIDE DEF m
<1>3. ASSUME NEW i \in 1 .. m PROVE captureBuf[(captureRead + i - 1) % CaptureSize] \in Sample
  <2>1. captureRead + i - 1 \in Nat
      BY SMTT(30), <1>1, <1>2
  <2>2. (captureRead + i - 1) % CaptureSize \in CaptureRing!Slot
      BY ZenonT(30), <2>1, RingSizes, CaptureRing!SlotOfPosition
  <2> QED BY ZenonT(30), <1>1, <2>2
<1>4. [i \in 1 .. m |-> captureBuf[(captureRead + i - 1) % CaptureSize]] \in [1 .. m -> Sample]
    BY ZenonT(30), <1>3
<1>5. Capture!Taken(Frame) = [i \in 1 .. m |-> captureBuf[(captureRead + i - 1) % CaptureSize]]
    BY DEF Capture!Taken, m
<1> QED BY ZenonT(30), <1>2, <1>4, <1>5, TupleIsSeq

\* What the receive loop plays for a packet.
LEMMA PlayedIsSamples ==
    ASSUME PathInv, PopPacket
    PROVE  frames[buffer[nextSeq] + 1] \in Seq(Sample)
<1>1. PICK n : n = Len(frames)
    BY ZenonT(30)
<1>2. JitterInv(n) /\ frames \in Seq(Seq(Sample)) /\ n \in Nat
    BY SMTT(30), <1>1 DEF PathInv, Packets
<1>3. buffer[nextSeq] = place /\ place \in 0 .. n - 1
    BY ZenonT(30), <1>2, PlaysItsPlace
<1>4. buffer[nextSeq] + 1 \in 1 .. Len(frames)
    BY SMTT(30), <1>1, <1>2, <1>3
<1> QED BY SMTT(30), <1>2, <1>4

CaptureStep == [CaptureRing!Next]_CaptureRing!bufVars /\ captureWrite' <= MaxCaptured
PlaybackStep == [PlaybackRing!Next]_PlaybackRing!bufVars

LEMMA SkippedIsSamples == ASSUME PathInv PROVE toDrop * Frame \in Nat /\ Frame \in Nat \ {0}
BY SMTT(30), SizeAssumption DEF PathInv, Loops, Capture!SizesOK

LEMMA StepsOfCapture ==
    ASSUME PathInv, [Next]_vars
    PROVE  CaptureStep
<1>0. captureWrite <= MaxCaptured
    BY DEF PathInv, Rings
<1>1. ASSUME NEW n \in CallbackSizes, Microphone(n) PROVE CaptureStep
  <2> DEFINE s == [i \in 1 .. n |-> captureWrite + i]
  <2>1. n \in Nat /\ captureWrite + n <= MaxCaptured /\ Capture!Write(s)
      BY ZenonT(30), <1>1, SizeAssumption DEF Microphone
  <2>2. s \in Seq(Sample) /\ Len(s) = n
      BY ZenonT(30), <2>1, CapturedIsSamples
  <2> HIDE DEF s
  <2>3. CaptureRing!Write(s)
      BY ZenonT(30), <2>1, CaptureSteps
  <2>4. captureWrite' = captureWrite + n
      BY ZenonT(30), <2>1, <2>2 DEF Capture!Write
  <2> QED BY ZenonT(30), <2>1, <2>2, <2>3, <2>4 DEF CaptureStep, CaptureRing!Next
<1>2. ASSUME NEW m \in Nat, Capture!Advance(m) PROVE CaptureStep
    BY ZenonT(30), <1>0, <1>2, CaptureSteps DEF CaptureStep, CaptureRing!Next, Capture!Advance
<1>3. Skip => CaptureStep
    BY ZenonT(30), <1>2, SkippedIsSamples DEF Skip
<1>4. ReadFrame => CaptureStep
    BY ZenonT(30), <1>2, SkippedIsSamples DEF ReadFrame
<1>5. UNCHANGED captureVars => CaptureStep
    BY ZenonT(30), <1>0 DEF CaptureStep, captureVars, CaptureRing!bufVars
<1>6. \/ UNCHANGED captureVars
      \/ \E n \in CallbackSizes : Microphone(n)
      \/ Skip \/ ReadFrame
    BY DEF Next, vars, Speaker, Tick, Check, Receive, PlayPacket, PlayMissing, Plays,
           NotReady, Close, DropJitter
<1> QED BY ZenonT(30), <1>1, <1>3, <1>4, <1>5, <1>6

LEMMA StepsOfPlayback ==
    ASSUME PathInv, [Next]_vars
    PROVE  PlaybackStep
<1>1. ASSUME NEW s \in Seq(Sample), Playback!Write(s) PROVE PlaybackStep
    BY ZenonT(30), <1>1, PlaybackSteps DEF PlaybackStep, PlaybackRing!Next
<1>2. UNCHANGED playbackVars => PlaybackStep
    BY DEF PlaybackStep, playbackVars, PlaybackRing!bufVars
<1>3. PlayPacket => PlaybackStep
  <2> SUFFICES ASSUME PlayPacket PROVE PlaybackStep
      OBVIOUS
  <2>1. frames[buffer[nextSeq] + 1] \in Seq(Sample)
      BY ZenonT(30), PlayedIsSamples DEF PlayPacket
  <2>2. UNCHANGED playbackVars \/ \E s \in Seq(Sample) : Playback!Write(s)
      BY ZenonT(30), <2>1, ConcealedIsSamples DEF PlayPacket, Plays
  <2> QED BY ZenonT(30), <1>1, <1>2, <2>2
<1>4. PlayMissing => PlaybackStep
    BY ZenonT(30), <1>1, <1>2, ConcealedIsSamples DEF PlayMissing, Plays
<1>5. ASSUME NEW n \in CallbackSizes, Speaker(n) PROVE PlaybackStep
  <2>1. n \in Nat /\ Playback!Advance(n)
      BY ZenonT(30), <1>5, SizeAssumption DEF Speaker
  <2> QED BY ZenonT(30), <2>1, PlaybackSteps DEF PlaybackStep, PlaybackRing!Next
<1>6. \/ UNCHANGED playbackVars
      \/ \E n \in CallbackSizes : Speaker(n)
      \/ PlayPacket \/ PlayMissing
    BY ZenonT(30) DEF Next, vars, Microphone, Skip, ReadFrame, Tick, Check, Receive, NotReady, Close, DropJitter
<1> QED BY ZenonT(30), <1>2, <1>3, <1>4, <1>5, <1>6

LEMMA NextKeepsRings ==
    ASSUME PathInv, [Next]_vars
    PROVE  Rings'
<1>1. CaptureRing!RingInv'
    BY ZenonT(30), StepsOfCapture, RingSizes, CaptureRing!StepKeepsRing DEF PathInv, Rings, CaptureStep
<1>2. PlaybackRing!RingInv'
    BY ZenonT(30), StepsOfPlayback, RingSizes, PlaybackRing!StepKeepsRing DEF PathInv, Rings, PlaybackStep
<1> QED BY ZenonT(30), <1>1, <1>2, StepsOfCapture DEF Rings, CaptureStep

(***************************************************************************)
(* The packets.                                                            *)
(***************************************************************************)

LEMMA NextKeepsPackets ==
    ASSUME PathInv, [Next]_vars
    PROVE  Packets'
<1>1. PICK n : n = Len(frames)
    BY Zenon
<1>2. /\ JitterInv(n) /\ Bounded /\ frames \in Seq(Seq(Sample)) /\ n \in Nat
    BY SMTT(30), <1>1 DEF PathInv, Packets
<1>3. ASSUME JitterInv(n)', Bounded', UNCHANGED frames PROVE Packets'
  <2>1. Len(frames)' = n
      BY ZenonT(30), <1>1, <1>3
  <2>2. JitterInv(Len(frames))'
      BY ZenonT(30), <2>1, <1>3 DEF JitterInv, Started
  <2> QED BY ZenonT(30), <1>2, <1>3, <2>2 DEF Packets
<1>4. ASSUME UNCHANGED <<jitterVars, frames>> PROVE Packets'
    BY ZenonT(30), <1>2, <1>3, <1>4 DEF jitterVars, JitterInv, Started, Bounded
<1>5. ReadFrame => Packets'
  <2> SUFFICES ASSUME ReadFrame PROVE Packets'
      OBVIOUS
  <2> DEFINE frame == Capture!Taken(Frame)
  <2>1. frame \in Seq(Sample)
      BY ZenonT(30), FrameIsSamples
  <2>2. /\ UNCHANGED jitterVars
        /\ UNCHANGED frames \/ (n < MaxSent /\ frames' = Append(frames, frame))
      BY ZenonT(30), <1>1 DEF ReadFrame
  <2> HIDE DEF frame
  <2>3. CASE n < MaxSent /\ frames' = Append(frames, frame)
    <3>1. PICK m : m = n + 1
        OBVIOUS
    <3>2. frames' \in Seq(Seq(Sample)) /\ Len(frames') = m
        BY SMTT(30), <1>1, <1>2, <2>1, <2>3, <3>1
    <3>3. m \in 0 .. 2 * Half /\ n <= m
        BY SMTT(30), <1>2, <2>3, <3>1, JitterAssumption DEF MaxSent
    <3>4. JitterInv(m)
        BY ZenonT(30), <1>2, <3>3, MoreSent
    <3>5. JitterInv(m)' /\ Bounded'
        BY ZenonT(30), <3>4, <1>2, <2>2 DEF jitterVars, JitterInv, Started, Bounded
    <3>6. JitterInv(Len(frames))'
        BY ZenonT(30), <3>2, <3>5 DEF JitterInv, Started
    <3> QED BY ZenonT(30), <3>2, <3>5, <3>6 DEF Packets
  <2> QED BY ZenonT(30), <2>2, <2>3, <1>4
<1>6. ASSUME NEW i \in 0 .. Len(frames) - 1, Receive(i) PROVE Packets'
  <2>1. CASE jitter
    <3>1. Deliverable(i, n) /\ Push(i) /\ UNCHANGED frames
        BY ZenonT(30), <1>1, <1>6, <2>1 DEF Receive
    <3> QED BY ZenonT(30), <1>2, <1>3, <3>1, PushKeeps, PushKeepsBounded
  <2>2. CASE ~jitter
      BY ZenonT(30), <1>4, <1>6, <2>2 DEF Receive
  <2> QED BY ZenonT(30), <2>1, <2>2
<1>7. PlayPacket => Packets'
  <2> SUFFICES ASSUME PlayPacket PROVE Packets'
      OBVIOUS
  <2>1. PopPacket /\ UNCHANGED frames
      BY DEF PlayPacket, Plays
  <2>2. DOMAIN buffer' \subseteq DOMAIN buffer
      BY ZenonT(30), <2>1 DEF PopPacket
  <2> QED BY ZenonT(30), <1>2, <1>3, <2>1, <2>2, PopPacketKeeps, FewerKeepsBounded
<1>8. PlayMissing => Packets'
  <2> SUFFICES ASSUME PlayMissing PROVE Packets'
      OBVIOUS
  <2>1. PopMissing /\ UNCHANGED frames
      BY DEF PlayMissing, Plays
  <2>2. DOMAIN buffer' \subseteq DOMAIN buffer
      BY Zenon, <2>1 DEF PopMissing
  <2> QED BY Zenon, <1>2, <1>3, <2>1, <2>2, PopMissingKeeps, FewerKeepsBounded
<1>9. DropJitter => Packets'
  <2> SUFFICES ASSUME DropJitter PROVE Packets'
      OBVIOUS
  <2>1. DOMAIN buffer' = {} /\ UNCHANGED <<nextSeq, firstSeq, place, frames>>
      BY DEF DropJitter
  <2>2. Bounded'
      BY ZenonT(30), <1>2, <2>1, FewerKeepsBounded
  <2>3. JitterInv(n)'
      BY ZenonT(30), <1>2, <2>1 DEF JitterInv, Started
  <2> QED BY ZenonT(30), <1>3, <2>1, <2>2, <2>3
<1>10. \/ UNCHANGED <<jitterVars, frames>>
       \/ ReadFrame \/ PlayPacket \/ PlayMissing \/ DropJitter
       \/ \E i \in 0 .. Len(frames) - 1 : Receive(i)
    BY ZenonT(30) DEF Next, vars, Microphone, Speaker, Tick, Skip, Check, NotReady, Close
<1> QED BY ZenonT(30), <1>4, <1>5, <1>6, <1>7, <1>8, <1>9, <1>10

(***************************************************************************)
(* The two loops.                                                          *)
(***************************************************************************)

LEMMA NextKeepsLoops ==
    ASSUME PathInv, [Next]_vars
    PROVE  Loops'
<1>1. /\ pc \in {"idle", "skip", "check", "read"} /\ rpc \in {"read", "pop", "ended"}
      /\ toDrop \in Nat /\ done \in 0 .. 2 /\ (pc = "read" => done < 2)
      /\ active \in BOOLEAN /\ jitter \in BOOLEAN
      /\ FramesWhole /\ NewestKept
    BY DEF PathInv, Loops, MaxFramesPerTick
<1>2. /\ captureWrite \in Nat /\ captureRead \in Nat /\ captureRead <= captureWrite
      /\ CaptureRing!Positions /\ Frame \in Nat \ {0} /\ Capture!Fill \in Nat
    BY SMTT(30), SizeAssumption DEF PathInv, Rings, CaptureRing!RingInv, CaptureRing!Positions,
                               Capture!SizesOK, Capture!Fill
<1>3. ASSUME UNCHANGED <<captureVars, pc, toDrop, done>>,
             rpc' \in {"read", "pop", "ended"}, active' \in BOOLEAN, jitter' \in BOOLEAN
      PROVE  Loops'
    BY ZenonT(30), <1>1, <1>3 DEF Loops, FramesWhole, NewestKept, Capture!Fill, captureVars, MaxFramesPerTick
<1>4. ASSUME NEW n \in CallbackSizes, Microphone(n) PROVE Loops'
  <2> DEFINE s == [i \in 1 .. n |-> captureWrite + i]
  <2>1. n \in Nat /\ Capture!Write(s) /\ captureWrite + n <= MaxCaptured
        /\ UNCHANGED <<pc, toDrop, done, rpc, active, jitter>>
      BY ZenonT(30), <1>4, SizeAssumption DEF Microphone, sendVars
  <2>2. Len(s) = n
      BY ZenonT(30), <2>1, CapturedIsSamples
  <2> HIDE DEF s
  <2>3. Capture!Fill' >= Capture!Fill
      BY ZenonT(30), <1>2, <2>1, <2>2, MicrophoneOnlyAdds
  <2>4. Capture!Fill' \in Int
    <3>1. CaptureRing!Positions'
        BY ZenonT(30), NextKeepsRings DEF Rings, CaptureRing!RingInv
    <3> QED BY SMTT(30), <3>1 DEF CaptureRing!Positions, Capture!Fill
  <2>5. FramesWhole'
      BY SMTT(30), <1>1, <1>2, <2>1, <2>3, <2>4 DEF FramesWhole
  <2>6. NewestKept'
    <3> DEFINE d == toDrop * Frame
    <3>1. d \in Nat /\ (pc = "skip" => Capture!Fill - d >= 2 * Frame)
        BY ZenonT(30), <1>1, SkippedIsSamples DEF NewestKept, MaxFramesPerTick
    <3>2. PICK before \in Int, after \in Int, dropped \in Int :
            before = Capture!Fill /\ after = Capture!Fill' /\ dropped = d
        BY SMTT(30), <1>2, <2>4, <3>1
    <3>3. pc = "skip" => after - dropped >= 2 * Frame
      <4>1. after >= before /\ (pc = "skip" => before - dropped >= 2 * Frame)
          BY ZenonT(30), <2>3, <3>1, <3>2
      <4> QED BY SMTT(30), <1>2, <4>1
    <3>4. pc = "skip" => Capture!Fill' - d >= 2 * Frame
        BY ZenonT(30), <3>2, <3>3
    <3> QED BY ZenonT(30), <2>1, <3>4 DEF NewestKept, MaxFramesPerTick
  <2> QED BY ZenonT(30), <1>1, <2>1, <2>5, <2>6 DEF Loops, MaxFramesPerTick
<1>5. Tick => Loops'
  <2> SUFFICES ASSUME Tick PROVE Loops'
      OBVIOUS
  <2> DEFINE q == Capture!Fill \div Frame
  <2>1. /\ pc' = IF q > 2 THEN "skip" ELSE "check"
        /\ toDrop' = IF q > 2 THEN q - 2 ELSE 0
        /\ done' = 0 /\ Capture!Fill' = Capture!Fill
        /\ UNCHANGED <<rpc, active, jitter>>
      BY DEF Tick, MaxFramesPerTick, captureVars, Capture!Fill
  <2>2. q \in Nat /\ Capture!Fill - (q - 2) * Frame >= 2 * Frame
      BY ZenonT(30), <1>2, SkipLeavesTwo DEF MaxFramesPerTick
  <2> HIDE DEF q
  <2>3. toDrop' \in Nat
      BY SMTT(30), <2>1, <2>2
  <2>4. NewestKept'
      BY ZenonT(30), <2>1, <2>2 DEF NewestKept, MaxFramesPerTick
  <2> QED BY SMTT(30), <1>1, <2>1, <2>3, <2>4 DEF Loops, FramesWhole, MaxFramesPerTick
<1>6. Skip => Loops'
    BY SMTT(30), <1>1 DEF Skip, Loops, FramesWhole, NewestKept, MaxFramesPerTick
<1>7. Check => Loops'
    BY SMTT(30), <1>1, <1>2 DEF Check, Loops, FramesWhole, NewestKept, MaxFramesPerTick, captureVars, Capture!Fill
<1>8. ReadFrame => Loops'
  <2> SUFFICES ASSUME ReadFrame PROVE Loops'
      OBVIOUS
  <2>1. /\ pc' \in {"check", "idle"} /\ done' \in {done + 1, 0} /\ pc = "read"
        /\ UNCHANGED <<toDrop, rpc, active, jitter>>
      BY DEF ReadFrame
  <2>2. done' \in 0 .. 2
      BY SMTT(30), <1>1, <2>1
  <2> QED BY ZenonT(30), <1>1, <2>1, <2>2 DEF Loops, FramesWhole, NewestKept, MaxFramesPerTick
<1>9. \/ /\ UNCHANGED <<captureVars, pc, toDrop, done>>
         /\ rpc' \in {"read", "pop", "ended"} /\ active' \in BOOLEAN /\ jitter' \in BOOLEAN
      \/ \E n \in CallbackSizes : Microphone(n)
      \/ Tick \/ Skip \/ Check \/ ReadFrame
    BY ZenonT(30), <1>1 DEF Next, vars, sendVars, Speaker, Receive, PlayPacket, PlayMissing, Plays,
                NotReady, Close, DropJitter
<1> QED BY ZenonT(30), <1>3, <1>4, <1>5, <1>6, <1>7, <1>8, <1>9

LEMMA InvAlways == Spec => []PathInv
<1>1. PathInv /\ [Next]_vars => PathInv'
    BY ZenonT(30), NextKeepsRings, NextKeepsPackets, NextKeepsLoops DEF PathInv
<1> QED BY <1>1, InvInitially, PTL DEF Spec

(***************************************************************************)
(* The theorems.                                                           *)
(***************************************************************************)

\* The send loop reads whole frames only, skipping never takes the two newest
\* frames, and no buffer is filled beyond its capacity, whatever the callbacks
\* do between two of the loop's steps.
THEOREM MediaAlwaysConsistent == Spec => []MediaInv
    BY InvAlways, InvGivesMediaInv, PTL

\* Every packet in the jitter buffer is played at the place it had in the
\* stream, whatever the network loses, repeats or reorders.
THEOREM AlwaysPlayedInPlace == Spec => []PlayedInPlace
    BY InvAlways, InvGivesMediaInv, PTL

\* Each of the two ring buffers, as the callbacks and the loops use them,
\* implements a FIFO that gives up its oldest samples only.
THEOREM BuffersAlwaysFifo == Spec => BuffersAreFifo
<1>1. Spec => CaptureRing!Spec
  <2>1. Init => CaptureRing!Init
      BY ZenonT(30), CaptureSteps DEF Init
  <2>2. PathInv /\ [Next]_vars => [CaptureRing!Next]_CaptureRing!bufVars
      BY ZenonT(30), StepsOfCapture DEF CaptureStep
  <2> QED BY <2>1, <2>2, InvAlways, PTL DEF Spec, CaptureRing!Spec
<1>2. Spec => PlaybackRing!Spec
  <2>1. Init => PlaybackRing!Init
      BY ZenonT(30), PlaybackSteps DEF Init
  <2>2. PathInv /\ [Next]_vars => [PlaybackRing!Next]_PlaybackRing!bufVars
      BY ZenonT(30), StepsOfPlayback DEF PlaybackStep
  <2> QED BY <2>1, <2>2, InvAlways, PTL DEF Spec, PlaybackRing!Spec
<1>3. CaptureRing!IsFifo => Capture!IsFifo
  <2>0. Capture!Contents = CaptureRing!Contents /\ Capture!Contents' = CaptureRing!Contents'
      BY DEF Capture!Contents, CaptureRing!Contents, Capture!Taken, CaptureRing!Taken,
             Capture!Lesser, CaptureRing!Lesser, Capture!Fill, CaptureRing!Fill
  <2>1. CaptureRing!Fifo!Init => Capture!Fifo!Init
      BY ZenonT(30), <2>0 DEF CaptureRing!Fifo!Init, Capture!Fifo!Init
  <2>2. [CaptureRing!Fifo!Next]_<<captured, CaptureRing!Contents>>
        => [Capture!Fifo!Next]_<<captured, Capture!Contents>>
      BY ZenonT(30), <2>0 DEF CaptureRing!Fifo!Next, Capture!Fifo!Next, CaptureRing!Fifo!Arrive,
             Capture!Fifo!Arrive, CaptureRing!Fifo!Take, Capture!Fifo!Take,
             CaptureRing!Fifo!Without, Capture!Fifo!Without
  <2> QED BY <2>1, <2>2, PTL DEF CaptureRing!IsFifo, Capture!IsFifo, CaptureRing!Fifo!Spec,
             Capture!Fifo!Spec
<1>4. PlaybackRing!IsFifo => Playback!IsFifo
  <2>0. Playback!Contents = PlaybackRing!Contents /\ Playback!Contents' = PlaybackRing!Contents'
      BY DEF Playback!Contents, PlaybackRing!Contents, Playback!Taken, PlaybackRing!Taken,
             Playback!Lesser, PlaybackRing!Lesser, Playback!Fill, PlaybackRing!Fill
  <2>1. PlaybackRing!Fifo!Init => Playback!Fifo!Init
      BY Zenon, <2>0 DEF PlaybackRing!Fifo!Init, Playback!Fifo!Init
  <2>2. [PlaybackRing!Fifo!Next]_<<decoded, PlaybackRing!Contents>>
        => [Playback!Fifo!Next]_<<decoded, Playback!Contents>>
      BY Zenon, <2>0 DEF PlaybackRing!Fifo!Next, Playback!Fifo!Next, PlaybackRing!Fifo!Arrive,
             Playback!Fifo!Arrive, PlaybackRing!Fifo!Take, Playback!Fifo!Take,
             PlaybackRing!Fifo!Without, Playback!Fifo!Without
  <2> QED BY <2>1, <2>2, PTL DEF PlaybackRing!IsFifo, Playback!IsFifo, PlaybackRing!Fifo!Spec,
             Playback!Fifo!Spec
<1>5. (CaptureRing!Spec => CaptureRing!IsFifo) /\ (PlaybackRing!Spec => PlaybackRing!IsFifo)
    BY ZenonT(30), RingSizes, CaptureRing!RingIsFifo, PlaybackRing!RingIsFifo
<1> QED BY <1>1, <1>2, <1>3, <1>4, <1>5, PTL DEF BuffersAreFifo
=============================================================================
