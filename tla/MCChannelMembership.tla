------------------------ MODULE MCChannelMembership ------------------------
(***************************************************************************)
(* Instances of ChannelMembership for TLC.                                 *)
(***************************************************************************)
EXTENDS ChannelMembership
=============================================================================
