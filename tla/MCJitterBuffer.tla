--------------------------- MODULE MCJitterBuffer ---------------------------
(***************************************************************************)
(* The jitter buffer in normal flow: every packet arrives once, in order.  *)
(***************************************************************************)
EXTENDS JitterBuffer

VARIABLE sent           \* packets sent and received so far

Init == JitterInit /\ sent = 0

Next ==
    \/ sent < 2 * Half /\ Push(sent) /\ sent' = sent + 1
    \/ (PopPacket \/ PopMissing) /\ UNCHANGED sent

Spec == Init /\ [][Next]_<<jitterVars, sent>>
=============================================================================
