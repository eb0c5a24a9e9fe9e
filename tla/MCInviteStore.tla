--------------------------- MODULE MCInviteStore ---------------------------
(***************************************************************************)
(* Instances of InviteStore for TLC.  Codes are not symmetric under        *)
(* liveness checking, so no symmetry is declared.                          *)
(***************************************************************************)
EXTENDS InviteStore
=============================================================================
