---------------------------- MODULE JitterBuffer ----------------------------
(***************************************************************************)
(* The receiver's jitter buffer (audio_pipeline/jitter_buffer.rs): packets *)
(* keyed by their RTP sequence number, which wraps at 2 * Half (65536 in   *)
(* the code).  A packet carries its place in the sender's stream, so that  *)
(* what is played can be compared with what was sent.  Whether a playout   *)
(* deadline has passed is left open: pop may always answer NotReady.       *)
(***************************************************************************)
EXTENDS Integers, FiniteSets

CONSTANTS
    Half,               \* 0x8000: numbers less than Half ahead are forward
    MaxBuffered,        \* MAX_BUFFERED_PACKETS
    Base                \* the sender's first sequence number

VARIABLES
    buffer,             \* packets by sequence number
    nextSeq,            \* next_seq, or None
    firstSeq,           \* first_seq, or None
    place               \* history: the place in the stream whose turn it is

jitterVars == <<buffer, nextSeq, firstSeq, place>>

None == -1
SeqNum == 0 .. 2 * Half - 1

ASSUME JitterAssumption ==
    /\ Half \in Nat \ {0}
    /\ MaxBuffered \in Nat \ {0}
    /\ Base \in SeqNum

WrappingSub(a, b) == IF a >= b THEN a - b ELSE a - b + 2 * Half
WrappingAdd(a, n) == IF a + n < 2 * Half THEN a + n ELSE a + n - 2 * Half

\* The sequence number of the packet at place i.
SeqOf(i) == WrappingAdd(Base, i)

JitterInit ==
    /\ buffer = [s \in {} |-> 0]
    /\ nextSeq = None
    /\ firstSeq = None
    /\ place = 0

\* Neither behind the first packet nor behind the playback position.
MutForward(s, first, next) == WrappingSub(s, first) < Half

Forward(s, first, next) == WrappingSub(s, first) < Half /\ WrappingSub(s, next) < Half

\* push, of a packet that is not oversize: the first one sets the positions;
\* a packet that is behind, or finds the buffer full, is dropped.
Push(i) ==
    LET s == SeqOf(i)
        first == IF firstSeq = None THEN s ELSE firstSeq
        next == IF nextSeq = None THEN s ELSE nextSeq
    IN  /\ firstSeq' = first
        /\ nextSeq' = next
        /\ place' = IF nextSeq = None THEN i ELSE place
        /\ buffer' = IF Forward(s, first, next) /\ Cardinality(DOMAIN buffer) < MaxBuffered
                     THEN [x \in DOMAIN buffer \cup {s} |-> IF x = s THEN i ELSE buffer[x]]
                     ELSE buffer

\* pop passes the test of the distance from the first packet.
Playable == nextSeq # None /\ WrappingSub(nextSeq, firstSeq) < Half

StepOn ==
    /\ nextSeq' = WrappingAdd(nextSeq, 1)
    /\ place' = place + 1
    /\ UNCHANGED firstSeq

PopPacket ==
    /\ Playable
    /\ nextSeq \in DOMAIN buffer
    /\ buffer' = [x \in DOMAIN buffer \ {nextSeq} |-> buffer[x]]
    /\ StepOn

\* The buffer's first key, in numeric order, is ahead: the packet is lost.
LaterBuffered ==
    \E s \in DOMAIN buffer :
      /\ \A x \in DOMAIN buffer : s <= x
      /\ WrappingSub(s, nextSeq) \in 1 .. Half - 1

PopMissing ==
    /\ Playable
    /\ nextSeq \notin DOMAIN buffer
    /\ LaterBuffered
    /\ UNCHANGED buffer
    /\ StepOn

\* Of n packets sent, i may arrive: any may be lost, duplicated or reordered,
\* none by Half numbers or more (ten minutes of audio).
Deliverable(i, n) == i \in 0 .. n - 1 /\ n - i <= Half

\* Everything that is buffered is less than Half numbers ahead of the playback
\* position, by as many numbers as its place in the stream is: no packet is
\* played twice, early, late or out of order, and none stays in the map to hide
\* a loss, whatever the network does and wherever the numbers wrap.
PlayedInPlace ==
    \A s \in DOMAIN buffer :
      /\ WrappingSub(s, nextSeq) < Half
      /\ buffer[s] = place + WrappingSub(s, nextSeq)

\* pop's last test: "Wrapped backwards - shouldn't happen in normal flow".
NeverWrapsBackwards == nextSeq # None => WrappingSub(nextSeq, firstSeq) < Half
=============================================================================
