-------------------------- MODULE MCRoomRegistry ---------------------------
(***************************************************************************)
(* A channel's room, a client-named room with invites and one place, and a *)
(* P2P room open to all.                                                   *)
(***************************************************************************)
EXTENDS RoomRegistry, TLC

CONSTANTS p1, p2, p3, c1, c2

MCSetups ==
    {[channel |-> TRUE, invites |-> FALSE, kinds |-> {"sfu"}, maxSfu |-> 3, conns |-> 3],
     [channel |-> FALSE, invites |-> TRUE, kinds |-> {"p2p", "sfu"}, maxSfu |-> 1, conns |-> 2],
     [channel |-> FALSE, invites |-> FALSE, kinds |-> {"p2p"}, maxSfu |-> 1, conns |-> 3]}

Symmetry == Permutations(Peer) \cup Permutations(Code)
=============================================================================
