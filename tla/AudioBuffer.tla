---------------------------- MODULE AudioBuffer ----------------------------
(***************************************************************************)
(* The ring buffer between the sound device's callback and the WebRTC      *)
(* loops (clients/shared/src/audio_buffer.rs).  Every operation holds the  *)
(* buffer's mutex, so it is one step.  Positions count samples and only    *)
(* grow; the health counters, the volume and the downmix are left out.     *)
(***************************************************************************)
EXTENDS Integers, Sequences, FiniteSets

CONSTANTS
    Capacity,           \* samples the ring holds
    Target,             \* target_occupancy_samples
    Margin,             \* max_margin_samples
    Frame,              \* FRAME_SAMPLES, 960
    Sample,             \* values a sample may have
    Silence             \* the value the ring is filled with

VARIABLES
    buf, writePos, readPos,
    input               \* history: all samples written so far

bufVars == <<buf, writePos, readPos, input>>

\* The sizes the code uses: a target of some frames, and room for the margin.
SizesOK ==
    /\ Capacity \in Nat /\ Target \in Nat /\ Margin \in Nat /\ Frame \in Nat \ {0}
    /\ 2 * Frame <= Target
    /\ Target + Margin <= Capacity
    /\ Silence \in Sample

Slot == 0 .. Capacity - 1

Lesser(a, b) == IF a < b THEN a ELSE b
Greater(a, b) == IF a > b THEN a ELSE b

Init ==
    /\ buf = [k \in Slot |-> Silence]
    /\ writePos = 0
    /\ readPos = 0
    /\ input = <<>>

\* available()
Fill == writePos - readPos

\* preempt_for_incoming: how many samples it drops before n new ones.
Preempt(n) ==
    IF Fill + n > Target + Margin THEN Lesser(Fill + n - (Target + Margin), Fill) ELSE 0

\* enforce_backlog_drop: how many samples it drops from f.
Backlog(f) ==
    IF f > Target + Margin THEN Lesser(f - Target, f - Lesser(f, Frame)) ELSE 0

\* Where the reader is once n samples have come in: what preemption and an
\* overrun (the writer caught up) have dropped, and then the backlog drop.
Overrun(n) == Greater(readPos + Preempt(n), writePos + n - Capacity)

ReaderAfter(n) == Overrun(n) + Backlog(writePos + n - Overrun(n))

\* write and write_mono: sample i of the batch goes to slot i % capacity; of a
\* batch longer than the ring only the end stays.
Stored(s) ==
    [k \in Slot |->
       LET here == {j \in 1 .. Len(s) : /\ j > Len(s) - Capacity
                                        /\ (writePos + j - 1) % Capacity = k}
       IN  IF here = {} THEN buf[k] ELSE s[CHOOSE j \in here : TRUE]]

Write(s) ==
    /\ buf' = Stored(s)
    /\ writePos' = writePos + Len(s)
    /\ readPos' = ReaderAfter(Len(s))
    /\ input' = input \o s

\* read and skip_frames take no more than there is.
Advance(n) ==
    /\ readPos' = readPos + Lesser(n, Fill)
    /\ UNCHANGED <<buf, writePos, input>>

\* What read returns for a request of n samples.
MutTaken(n) == [i \in 1 .. Lesser(n, Fill) |-> buf[(readPos + i) % Capacity]]

Taken(n) == [i \in 1 .. Lesser(n, Fill) |-> buf[(readPos + i - 1) % Capacity]]

Contents == Taken(Fill)

\* The buffer on its own, with batches and requests of any size.
Next ==
    \/ \E s \in Seq(Sample) : Write(s)
    \/ \E n \in Nat : Advance(n)

Spec == Init /\ [][Next]_bufVars

Fifo == INSTANCE LossyFifo WITH queue <- Contents

\* The ring never mixes up old and new samples: what can be read is what was
\* written, in that order, and only the oldest samples are ever given up.
IsFifo == Fifo!Spec
=============================================================================
