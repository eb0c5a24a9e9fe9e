---------------------------- MODULE MCAdmission ----------------------------
(***************************************************************************)
(* Admission with two requests from one address and one from another.      *)
(***************************************************************************)
EXTENDS Admission

CONSTANTS c1, c2, c3, a, b, t1, t2

MCIpOf == [c \in Conn |-> IF c = c3 THEN b ELSE a]
=============================================================================
