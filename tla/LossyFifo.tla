----------------------------- MODULE LossyFifo -----------------------------
(***************************************************************************)
(* What an audio buffer promises: a queue of samples.  New samples go to   *)
(* the end, samples leave from the front only, whether they are read or    *)
(* given up, and no step changes a sample or its place in the order.       *)
(***************************************************************************)
EXTENDS Sequences, Naturals

VARIABLES
    input,              \* all samples that have come in so far
    queue               \* those that can still be read

Init == input = <<>> /\ queue = <<>>

Without(q, k) == SubSeq(q, k + 1, Len(q))

\* A batch comes in; the k oldest samples, of the batch too, may be given up.
Arrive ==
    LET batch == Without(input', Len(input))
        all == queue \o batch
    IN  /\ Len(input') >= Len(input)
        /\ SubSeq(input', 1, Len(input)) = input
        /\ \E k \in 0 .. Len(all) : queue' = Without(all, k)

\* The k oldest samples are taken.
Take ==
    /\ \E k \in 0 .. Len(queue) : queue' = Without(queue, k)
    /\ UNCHANGED input

Next == Arrive \/ Take

Spec == Init /\ [][Next]_<<input, queue>>
=============================================================================
