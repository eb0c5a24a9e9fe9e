----------------------------- MODULE MediaPath -----------------------------
(***************************************************************************)
(* One direction of a call (clients/shared/src): the microphone's callback *)
(* fills a capture buffer, the send loop turns whole frames into packets,  *)
(* the network loses, repeats and reorders them, the receive loop orders   *)
(* them in the jitter buffer and decodes them into a playback buffer that  *)
(* the speaker's callback drains.  The callbacks are threads of their own; *)
(* a step is what one of them does under one lock.                         *)
(***************************************************************************)
EXTENDS JitterBuffer, Sequences

CONSTANTS
    Frame,              \* FRAME_SAMPLES
    CaptureSize, CaptureTarget, CaptureMargin,      \* of the capture buffer
    PlaybackSize, PlaybackTarget, PlaybackMargin,   \* of the playback buffer
    CallbackSizes,      \* how many samples a device callback brings or wants
    MaxCaptured         \* bound: samples the microphone delivers

VARIABLES
    captureBuf, captureWrite, captureRead, captured,
    playbackBuf, playbackWrite, playbackRead, decoded,
    frames,             \* packets sent so far, each one a frame of samples
    pc,                 \* where the send loop is
    toDrop,             \* frames it is about to skip
    done,               \* frames_this_tick
    rpc,                \* where the receive loop is
    active,             \* the call is on
    jitter,             \* shared_jitter is there
    heard               \* history: the last captured sample the speaker played

captureVars == <<captureBuf, captureWrite, captureRead, captured>>
playbackVars == <<playbackBuf, playbackWrite, playbackRead, decoded>>
sendVars == <<pc, toDrop, done>>
vars == <<captureVars, playbackVars, jitterVars, frames, sendVars, rpc, active, jitter, heard>>

\* A sample is known by its place in what the microphone delivered; 0 is a
\* sample that was made up (silence, or packet loss concealment).
Sample == 0 .. MaxCaptured
Silence == 0
MaxFramesPerTick == 2

Capture == INSTANCE AudioBuffer WITH
    Capacity <- CaptureSize, Target <- CaptureTarget, Margin <- CaptureMargin,
    buf <- captureBuf, writePos <- captureWrite, readPos <- captureRead, input <- captured

Playback == INSTANCE AudioBuffer WITH
    Capacity <- PlaybackSize, Target <- PlaybackTarget, Margin <- PlaybackMargin,
    buf <- playbackBuf, writePos <- playbackWrite, readPos <- playbackRead, input <- decoded

ASSUME SizeAssumption ==
    /\ Capture!SizesOK /\ Playback!SizesOK
    /\ CaptureTarget + CaptureMargin = CaptureSize
    /\ CallbackSizes \subseteq Nat
    /\ MaxCaptured \in Nat

\* The stream is followed for one cycle of the sequence numbers.
MaxSent == 2 * Half

Init ==
    /\ Capture!Init /\ Playback!Init
    /\ JitterInit
    /\ frames = <<>>
    /\ pc = "idle" /\ toDrop = 0 /\ done = 0
    /\ rpc = "read"
    /\ active = TRUE /\ jitter = TRUE
    /\ heard = 0

(***************************************************************************)
(* The microphone, and the send loop.                                      *)
(***************************************************************************)

Microphone(n) ==
    /\ captureWrite + n <= MaxCaptured
    /\ Capture!Write([i \in 1 .. n |-> captureWrite + i])
    /\ UNCHANGED <<playbackVars, jitterVars, frames, sendVars, rpc, active, jitter, heard>>

\* A tick: the backlog is measured ...
MutTick ==
    LET backlog == Capture!Fill \div Frame
    IN  /\ pc = "idle" /\ active
        /\ Capture!Fill >= Frame
        /\ pc' = IF backlog > MaxFramesPerTick THEN "skip" ELSE "check"
        /\ toDrop' = IF backlog > MaxFramesPerTick THEN backlog - 1 ELSE 0
        /\ done' = 0
        /\ UNCHANGED <<captureVars, playbackVars, jitterVars, frames, rpc, active, jitter, heard>>

Tick ==
    LET backlog == Capture!Fill \div Frame
    IN  /\ pc = "idle" /\ active
        /\ Capture!Fill >= Frame
        /\ pc' = IF backlog > MaxFramesPerTick THEN "skip" ELSE "check"
        /\ toDrop' = IF backlog > MaxFramesPerTick THEN backlog - MaxFramesPerTick ELSE 0
        /\ done' = 0
        /\ UNCHANGED <<captureVars, playbackVars, jitterVars, frames, rpc, active, jitter, heard>>

\* ... and cut down to the newest frames, under another lock acquisition.
Skip ==
    /\ pc = "skip"
    /\ Capture!Advance(toDrop * Frame)
    /\ pc' = "check" /\ toDrop' = 0
    /\ UNCHANGED <<playbackVars, jitterVars, frames, done, rpc, active, jitter, heard>>

\* The loop goes on while a whole frame is there; close aborts it while it
\* waits for the network.
Check ==
    /\ pc = "check"
    /\ \/ done < MaxFramesPerTick /\ Capture!Fill >= Frame /\ pc' = "read" /\ UNCHANGED done
       \/ /\ done = MaxFramesPerTick \/ Capture!Fill < Frame \/ (done > 0 /\ ~active)
          /\ pc' = "idle" /\ done' = 0
    /\ UNCHANGED <<captureVars, playbackVars, jitterVars, frames, toDrop, rpc, active, jitter, heard>>

\* A frame is read, encoded and sent; encoding or sending may fail.
ReadFrame ==
    LET frame == Capture!Taken(Frame)
    IN  /\ pc = "read"
        /\ Capture!Advance(Frame)
        /\ \/ Len(frame) = Frame /\ pc' = "check" /\ done' = done + 1
           \/ Len(frame) < Frame /\ pc' = "idle" /\ done' = 0
        /\ \/ Len(frame) = Frame /\ Len(frames) < MaxSent /\ frames' = Append(frames, frame)
           \/ UNCHANGED frames
        /\ UNCHANGED <<playbackVars, jitterVars, toDrop, rpc, active, jitter, heard>>

(***************************************************************************)
(* The receive loop and the speaker.                                       *)
(***************************************************************************)

\* Some packet that was sent arrives, perhaps again, and perhaps after close:
\* the loop looked at active before it began to wait.
Receive(i) ==
    /\ rpc = "read"
    /\ Deliverable(i, Len(frames))
    /\ IF jitter THEN Push(i) ELSE UNCHANGED jitterVars
    /\ rpc' = "pop"
    /\ UNCHANGED <<captureVars, playbackVars, frames, sendVars, active, jitter, heard>>

Concealed == [k \in 1 .. Frame |-> Silence]

\* The packet is decoded, or concealed if that fails, and if that fails too,
\* nothing is written.
Plays(choices) ==
    /\ \/ \E s \in choices : Playback!Write(s)
       \/ UNCHANGED playbackVars
    /\ UNCHANGED <<captureVars, frames, sendVars, rpc, active, jitter, heard>>

MutPlayPacket ==
    /\ rpc = "pop" /\ jitter
    /\ PopPacket
    /\ LET i == buffer[nextSeq]
       IN  Plays({frames[i + 1], IF i = 0 THEN Concealed ELSE frames[i]})

PlayPacket ==
    /\ rpc = "pop" /\ jitter
    /\ PopPacket
    /\ Plays({frames[buffer[nextSeq] + 1], Concealed})

PlayMissing ==
    /\ rpc = "pop" /\ jitter
    /\ PopMissing
    /\ Plays({Concealed})

\* pop answers NotReady: too early, nothing there, or past the half circle.
\* The loop waits for the next packet if the call is still on.
NotReady ==
    /\ rpc = "pop"
    /\ rpc' = IF active THEN "read" ELSE "ended"
    /\ UNCHANGED <<captureVars, playbackVars, jitterVars, frames, sendVars, active, jitter, heard>>

\* The samples of s that a microphone captured.
Real(s) == SelectSeq(s, LAMBDA x : x # Silence)

Speaker(n) ==
    LET real == Real(Playback!Taken(n))
    IN  /\ Playback!Fill > 0
        /\ Playback!Advance(n)
        /\ heard' = IF real = <<>> THEN heard ELSE real[Len(real)]
        /\ UNCHANGED <<captureVars, jitterVars, frames, sendVars, rpc, active, jitter>>

\* close: the loops are told to end, and then the jitter buffer goes.
Close ==
    /\ active
    /\ active' = FALSE
    /\ UNCHANGED <<captureVars, playbackVars, jitterVars, frames, sendVars, rpc, jitter, heard>>

DropJitter ==
    /\ ~active /\ jitter
    /\ jitter' = FALSE
    /\ buffer' = [s \in {} |-> 0]
    /\ UNCHANGED <<captureVars, playbackVars, nextSeq, firstSeq, place, frames, sendVars,
                   rpc, active, heard>>

Next ==
    \/ \E n \in CallbackSizes : Microphone(n) \/ Speaker(n)
    \/ Tick \/ Skip \/ Check \/ ReadFrame
    \/ \E i \in 0 .. Len(frames) - 1 : Receive(i)
    \/ PlayPacket \/ PlayMissing \/ NotReady
    \/ Close \/ DropJitter

Spec == Init /\ [][Next]_vars

TypeOK ==
    /\ captureWrite \in 0 .. MaxCaptured /\ captureRead \in 0 .. captureWrite
    /\ captureWrite - captureRead <= CaptureSize
    /\ playbackRead \in 0 .. playbackWrite /\ playbackWrite - playbackRead <= PlaybackSize
    /\ nextSeq \in SeqNum \cup {None}
    /\ DOMAIN buffer \subseteq SeqNum /\ Cardinality(DOMAIN buffer) <= MaxBuffered
    /\ pc \in {"idle", "skip", "check", "read"} /\ rpc \in {"read", "pop", "ended"}
    /\ toDrop \in Nat /\ done \in 0 .. MaxFramesPerTick
    /\ active \in BOOLEAN /\ jitter \in BOOLEAN

\* A frame that the send loop has seen in the capture buffer is still whole
\* when it reads it, although the microphone's callback may drop old samples
\* in between.
FramesWhole == pc = "read" => Capture!Fill >= Frame

\* "Drop oldest frames if more than 2 are buffered, keeping only the 2 most
\* recent": skipping by a count measured earlier never takes from those.
NewestKept == pc = "skip" => Capture!Fill - toDrop * Frame >= MaxFramesPerTick * Frame

\* The sending side as a whole: no sample is read twice or past the writer, no
\* frame is torn by the callback, and skipping never costs the newest frames.
MediaInv == TypeOK /\ FramesWhole /\ NewestKept

Increasing(s) == \A i, j \in 1 .. Len(s) : i < j => s[i] < s[j]

\* From end to end: what the speaker has played and will play next are samples
\* in the order in which the microphone captured them, none of them twice.
HeardInOrder == Increasing(Real(<<heard>> \o Playback!Contents))

\* Refinement: each of the two ring buffers is a FIFO that may lose its oldest
\* samples, and nothing else, whatever sizes the callbacks use.
BuffersAreFifo == Capture!IsFifo /\ Playback!IsFifo
=============================================================================
