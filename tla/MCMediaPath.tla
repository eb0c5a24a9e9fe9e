---------------------------- MODULE MCMediaPath ----------------------------
(***************************************************************************)
(* A call for TLC: frames of two samples, and callbacks of one sample and  *)
(* of more samples than the rings hold.                                    *)
(***************************************************************************)
EXTENDS MediaPath
=============================================================================
