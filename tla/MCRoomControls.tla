-------------------------- MODULE MCRoomControls --------------------------
(***************************************************************************)
(* A host and a guest in the room, and a third who joins.                  *)
(***************************************************************************)
EXTENDS RoomControls

CONSTANTS h, g, j
=============================================================================
