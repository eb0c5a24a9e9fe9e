--------------------------- MODULE MCVoiceRoom ---------------------------
(***************************************************************************)
(* VoiceRoom with the first connections of a user and a second user.       *)
(***************************************************************************)
EXTENDS VoiceRoom

CONSTANTS p1, p2, p3, ann, bob

MCUserOf == [p \in Peer |-> IF p = p3 THEN bob ELSE ann]
=============================================================================
