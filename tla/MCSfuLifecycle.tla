--------------------------- MODULE MCSfuLifecycle ---------------------------
(***************************************************************************)
(* SfuLifecycle with the bounds of SfuLifecycle.cfg; see the README.       *)
(***************************************************************************)
EXTENDS SfuLifecycle
=============================================================================
