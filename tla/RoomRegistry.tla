--------------------------- MODULE RoomRegistry ----------------------------
(***************************************************************************)
(* One room id of InMemoryRoomState (state.rs) under the handlers that     *)
(* join, create and leave rooms, at the granularity of single lock         *)
(* acquisitions.                                                           *)
(*                                                                         *)
(* The rooms map holds a reference to a room object; try_add_peer_with,    *)
(* add_peer and remove_peer fetch it under the map's lock and then work on *)
(* it under its own lock, so an object may leave the map while a task      *)
(* still holds it.  Objects are numbered in order of creation and the map  *)
(* entry is the number of the current one, or None.                        *)
(*                                                                         *)
(* The room is a channel's (join_voice creates it and rolls it back) or a  *)
(* client-named one (Join and CreateRoom, with the invites of              *)
(* InviteStore).  Evictions, sub-rooms and shares are in VoiceRoom.        *)
(***************************************************************************)
EXTENDS InviteStore

CONSTANTS
    Peer,               \* connections; a peer id is never reused
    NoPeer,             \* placeholder: no connection
    Setups,             \* what the server and its clients may be set up to do
    MaxObjects,         \* bound: room objects created
    NoCode,             \* a join without an invite code
    TheRoom             \* the room id that is followed

ASSUME PeerAssumption == IsFiniteSet(Peer) /\ NoPeer \notin Peer
\* channel: a channel's room, else a client-named one; invites:
\* AppState::require_invite_code; kinds: the RoomTypes clients ask for; maxSfu:
\* max_participants of an SFU room; conns: how many connections there are.
ASSUME SetupsAssumption ==
    Setups \subseteq [channel : BOOLEAN, invites : BOOLEAN,
                      kinds : (SUBSET {"p2p", "sfu"}) \ {{}}, maxSfu : Nat, conns : Nat]
ASSUME BoundAssumption == MaxObjects \in Nat
ASSUME NoCodeAssumption == NoCode \notin Code
ASSUME TheRoomAssumption == TheRoom \in Room

VARIABLES
    setup,          \* the setup in force
    entry,          \* rooms[id]: the current object, None if there is no entry
    made,           \* objects created so far
    kind,           \* RoomInfo.room_type of each object
    peers,          \* RoomMembers.peers of each object
    participants,   \* RoomInfo.participants of each object
    index,          \* keys of peer_to_room
    pc,             \* where each connection's task is
    want,           \* its request: room type and invite code
    arc,            \* the object it holds
    fresh,          \* joins of a channel that created the room object
    target,         \* whom its remove_peer removes
    then,           \* where it goes on after remove_peer
    role,           \* SignalingSession.role, "none" without a session
    via,            \* history: the code a peer was admitted with
    placed          \* history: peers that a CreateRoom inserted

\* Expiry is left to InviteStore: here no time passes.
storeVars == vars
mapVars == <<setup, entry, made, kind>>
objVars == <<peers, participants>>
taskVars == <<want, arc, fresh, target, then, role>>
histVars == <<via, placed>>
registryVars == <<mapVars, objVars, index, pc, taskVars, histVars, storeVars>>

None == 0
Object == 1 .. MaxObjects

RemoveStage == {"rIndex", "rArc", "rLock", "rDrop"}
JoinStage == {"jLookup", "jCreate", "jSfu", "jArc", "jLock", "jIndex", "jPush", "jRole"}
CreateStage == {"cRoom", "cEntry", "cArc", "cLock", "cIndex", "cSfu", "cInvite", "cPush"}
Stage == {"idle", "live", "lList", "lArtifacts", "lInvites", "kList", "bCheck", "bDrop",
          "panicked", "closed"} \cup RemoveStage \cup JoinStage \cup CreateStage

RegistryInit ==
    /\ setup \in Setups
    /\ entry = None /\ made = 0
    /\ kind = [o \in Object |-> "p2p"]
    /\ peers = [o \in Object |-> {}]
    /\ participants = [o \in Object |-> {}]
    /\ index = {}
    /\ \E S \in SUBSET Peer :
         /\ Cardinality(S) = setup.conns
         /\ pc = [p \in Peer |-> IF p \in S THEN "idle" ELSE "closed"]
    /\ want = [p \in Peer |-> [kind |-> "p2p", code |-> NoCode]]
    /\ arc = [p \in Peer |-> None]
    /\ fresh = {}
    /\ target = [p \in Peer |-> NoPeer]
    /\ then = [p \in Peer |-> "idle"]
    /\ role = [p \in Peer |-> "none"]
    /\ via = [p \in Peer |-> NoCode] /\ placed = {}
    /\ Init

Goes(p, from, to) == pc[p] = from /\ pc' = [pc EXCEPT ![p] = to]

\* A task drops its reference to a room object.
Release(p) == arc' = [arc EXCEPT ![p] = None]

Capacity(o) == IF kind[o] = "p2p" THEN 2 ELSE setup.maxSfu

\* get_room_info found a room of type k.
EntryIs(k) == entry # None /\ kind[entry] = k

\* create_room: a new object of type k, unless the id is taken.
Insert(k) ==
    \/ /\ entry = None
       /\ made < MaxObjects
       /\ made' = made + 1
       /\ entry' = made + 1
       /\ kind' = [kind EXCEPT ![made + 1] = k]
       /\ UNCHANGED setup
    \/ /\ entry # None
       /\ UNCHANGED mapVars

(***************************************************************************)
(* remove_peer_internal, run by task p for target[p].                      *)
(***************************************************************************)

Remove(p, q, next) ==
    /\ pc' = [pc EXCEPT ![p] = "rIndex"]
    /\ target' = [target EXCEPT ![p] = q]
    /\ then' = [then EXCEPT ![p] = next]

\* Step 1: take the room id out of the reverse index; without one there is
\* nothing to do.
RemoveIndex(p) ==
    /\ Goes(p, "rIndex", IF target[p] \in index THEN "rArc" ELSE then[p])
    /\ index' = index \ {target[p]}
    /\ UNCHANGED <<mapVars, objVars, taskVars, histVars, storeVars>>

RemoveArc(p) ==
    /\ Goes(p, "rArc", IF entry # None THEN "rLock" ELSE then[p])
    /\ arc' = [arc EXCEPT ![p] = entry]
    /\ UNCHANGED <<mapVars, objVars, index, want, fresh, target, then, role, histVars, storeVars>>

\* Step 2: off the peer list, and see whether the list is empty.
RemoveLock(p) ==
    LET rest == peers[arc[p]] \ {target[p]}
    IN  /\ Goes(p, "rLock", IF rest = {} THEN "rDrop" ELSE then[p])
        /\ peers' = [peers EXCEPT ![arc[p]] = rest]
        /\ Release(p)
        /\ UNCHANGED <<mapVars, participants, index, want, fresh, target, then, role, histVars,
                       storeVars>>

\* Step 3: drop the id from the map, whatever it now refers to.
RemoveDrop(p) ==
    /\ Goes(p, "rDrop", then[p])
    /\ entry' = None
    /\ UNCHANGED <<setup, made, kind, objVars, index, taskVars, histVars, storeVars>>

(***************************************************************************)
(* Join.  A peer without a session asks for a room type, with a code where *)
(* invites are required; codes that validate rejects end the request.      *)
(***************************************************************************)

JoinRequest(p, k, c) ==
    /\ ~setup.channel
    /\ IF setup.invites THEN c \in Code /\ Valid(c, TheRoom) ELSE c = NoCode
    /\ Goes(p, "idle", IF k = "p2p" THEN "jCreate" ELSE "jLookup")
    /\ want' = [want EXCEPT ![p] = [kind |-> k, code |-> c]]
    /\ UNCHANGED <<mapVars, objVars, index, arc, fresh, target, then, role, histVars, storeVars>>

\* handle_sfu_join: use the room's SFU handle, or create the SFU room, which
\* may fail.
JoinLookup(p) ==
    /\ \/ EntryIs("sfu") /\ Goes(p, "jLookup", "jSfu")
       \/ ~EntryIs("sfu") /\ \E to \in {"jCreate", "idle"} : Goes(p, "jLookup", to)
    /\ UNCHANGED <<mapVars, objVars, index, taskVars, histVars, storeVars>>

JoinCreate(p) ==
    /\ Goes(p, "jCreate", IF want[p].kind = "p2p" THEN "jArc" ELSE "jSfu")
    /\ Insert(want[p].kind)
    /\ UNCHANGED <<objVars, index, taskVars, histVars, storeVars>>

\* join_voice: ensure_active_room creates the room if the channel has none.
VoiceEnsure(p) ==
    /\ setup.channel
    /\ Goes(p, "idle", "jSfu")
    /\ Insert("sfu")
    /\ fresh' = IF entry = None THEN fresh \cup {p} ELSE fresh
    /\ want' = [want EXCEPT ![p] = [kind |-> "sfu", code |-> NoCode]]
    /\ UNCHANGED <<objVars, index, arc, target, then, role, histVars, storeVars>>

\* Where a join that failed goes: join_voice rolls back a room it created.
GiveUp(p) == IF p \in fresh THEN "bCheck" ELSE "idle"

\* add_participant answers, or fails.
JoinSfu(p) ==
    /\ \E to \in {"jArc", GiveUp(p)} : Goes(p, "jSfu", to)
    /\ UNCHANGED <<mapVars, objVars, index, taskVars, histVars, storeVars>>

\* try_add_peer_with, steps 1 and 2: no entry counts as a full room.
JoinArc(p) ==
    /\ Goes(p, "jArc", IF entry # None THEN "jLock" ELSE GiveUp(p))
    /\ arc' = [arc EXCEPT ![p] = entry]
    /\ UNCHANGED <<mapVars, objVars, index, want, fresh, target, then, role, histVars, storeVars>>

\* The invite closure of the join accepts; it consumes a use.
Consumes(p) ==
    IF want[p].code = NoCode
    THEN UNCHANGED storeVars
    ELSE ValidateAndConsume(want[p].code, TheRoom)

Accepts(p) == want[p].code # NoCode => Valid(want[p].code, TheRoom)

Enters(p) ==
    /\ peers' = [peers EXCEPT ![arc[p]] = @ \cup {p}]
    /\ via' = [via EXCEPT ![p] = want[p].code]
    /\ UNCHANGED <<mapVars, participants, index, want, fresh, target, then, role, placed>>

\* Steps 3 to 6, under the object's lock: capacity, then the invite, then in.
MutJoinLock(p) ==
    /\ Release(p)
    /\ \/ /\ Goes(p, "jLock", "jIndex")
          /\ Cardinality(peers[arc[p]]) < Capacity(arc[p])
          /\ Consumes(p)
          /\ Enters(p)
       \/ /\ Goes(p, "jLock", GiveUp(p))
          /\ Cardinality(peers[arc[p]]) >= Capacity(arc[p])
          /\ Accepts(p) /\ Consumes(p)
          /\ UNCHANGED <<mapVars, objVars, index, want, fresh, target, then, role, histVars>>
       \/ /\ Goes(p, "jLock", GiveUp(p))
          /\ ~Accepts(p)
          /\ UNCHANGED <<mapVars, objVars, index, want, fresh, target, then, role, histVars,
                         storeVars>>

MutJoinFull(p) ==
    /\ Release(p)
    /\ \/ /\ Goes(p, "jLock", "jIndex")
          /\ Cardinality(peers[arc[p]]) <= Capacity(arc[p])
          /\ Consumes(p)
          /\ Enters(p)
       \/ /\ Goes(p, "jLock", GiveUp(p))
          /\ Cardinality(peers[arc[p]]) > Capacity(arc[p]) \/ ~Accepts(p)
          /\ UNCHANGED <<mapVars, objVars, index, want, fresh, target, then, role, histVars,
                         storeVars>>

JoinLock(p) ==
    /\ Release(p)
    /\ \/ /\ Goes(p, "jLock", "jIndex")
          /\ Cardinality(peers[arc[p]]) < Capacity(arc[p])
          /\ Consumes(p)
          /\ Enters(p)
       \/ /\ Goes(p, "jLock", GiveUp(p))
          /\ Cardinality(peers[arc[p]]) >= Capacity(arc[p]) \/ ~Accepts(p)
          /\ UNCHANGED <<mapVars, objVars, index, want, fresh, target, then, role, histVars,
                         storeVars>>

\* Step 8: the reverse index.
JoinIndex(p) ==
    /\ Goes(p, "jIndex", IF want[p].kind = "p2p" THEN "jRole" ELSE "jPush")
    /\ index' = index \cup {p}
    /\ UNCHANGED <<mapVars, objVars, taskVars, histVars, storeVars>>

\* update_room_info looks the room up by its id, and does nothing without it.
JoinPush(p) ==
    /\ Goes(p, "jPush", "jRole")
    /\ participants' = [o \in Object |->
                          IF o = entry THEN participants[o] \cup {p} ELSE participants[o]]
    /\ UNCHANGED <<mapVars, peers, index, taskVars, histVars, storeVars>>

\* The role the new session gets: a channel's is in the database; otherwise
\* the handler looks whether the participant list has one member.
SessionRoles ==
    IF setup.channel THEN {"host", "guest"}
    ELSE IF entry # None /\ Cardinality(participants[entry]) = 1 THEN {"host"} ELSE {"guest"}

JoinRole(p) ==
    /\ Goes(p, "jRole", "live")
    /\ \E r \in SessionRoles : role' = [role EXCEPT ![p] = r]
    /\ fresh' = fresh \ {p}
    /\ UNCHANGED <<mapVars, objVars, index, want, arc, target, then, histVars, storeVars>>

\* rollback_room: remove_empty_room looks at the room under the map's read
\* lock, and removes the id under its write lock.
RollbackCheck(p) ==
    /\ Goes(p, "bCheck", IF entry # None /\ peers[entry] = {} THEN "bDrop" ELSE "idle")
    /\ fresh' = fresh \ {p}
    /\ UNCHANGED <<mapVars, objVars, index, want, arc, target, then, role, histVars, storeVars>>

RollbackDrop(p) ==
    /\ Goes(p, "bDrop", "idle")
    /\ entry' = None
    /\ UNCHANGED <<setup, made, kind, objVars, index, taskVars, histVars, storeVars>>

(***************************************************************************)
(* CreateRoom: handle_create_room.                                         *)
(***************************************************************************)

\* The room must not exist yet; an SFU room is then created on the SFU,
\* which may fail.
CreateRequest(p, k) ==
    /\ ~setup.channel
    /\ entry = None
    /\ Goes(p, "idle", "cRoom")
    /\ want' = [want EXCEPT ![p] = [kind |-> k, code |-> NoCode]]
    /\ UNCHANGED <<mapVars, objVars, index, arc, fresh, target, then, role, histVars, storeVars>>

CreateRoom(p) ==
    /\ Goes(p, "cRoom", "cEntry")
    /\ Insert(want[p].kind)
    /\ UNCHANGED <<objVars, index, taskVars, histVars, storeVars>>

\* add_peer makes sure that there is an entry ...
CreateEntry(p) ==
    /\ Goes(p, "cEntry", "cArc")
    /\ Insert("p2p")
    /\ UNCHANGED <<objVars, index, taskVars, histVars, storeVars>>

\* ... unwraps it under another lock acquisition ...
CreateArc(p) ==
    /\ Goes(p, "cArc", IF entry # None THEN "cLock" ELSE "panicked")
    /\ arc' = [arc EXCEPT ![p] = entry]
    /\ UNCHANGED <<mapVars, objVars, index, want, fresh, target, then, role, histVars, storeVars>>

\* ... and inserts the peer, without a capacity check.  (Its branch for a peer
\* that is still indexed elsewhere needs a peer with two rooms.)
CreateLock(p) ==
    /\ Goes(p, "cLock", "cIndex")
    /\ peers' = [peers EXCEPT ![arc[p]] = @ \cup {p}]
    /\ placed' = placed \cup {p}
    /\ Release(p)
    /\ UNCHANGED <<mapVars, participants, index, want, fresh, target, then, role, via,
                   storeVars>>

CreateIndex(p) ==
    /\ Goes(p, "cIndex", IF want[p].kind = "p2p" THEN "cInvite" ELSE "cSfu")
    /\ index' = index \cup {p}
    /\ UNCHANGED <<mapVars, objVars, taskVars, histVars, storeVars>>

\* add_participant; a failure removes the peer again.
CreateSfu(p) ==
    /\ pc[p] = "cSfu"
    /\ \/ Goes(p, "cSfu", "cInvite") /\ UNCHANGED <<target, then>>
       \/ Remove(p, p, "idle")
    /\ UNCHANGED <<mapVars, objVars, index, want, arc, fresh, role, histVars, storeVars>>

\* The first invite; a full store removes the peer again.
CreateInvite(p) ==
    /\ pc[p] = "cInvite"
    /\ \/ /\ Goes(p, "cInvite", "cPush")
          /\ \E c \in Code : Generate(c, TheRoom, MaxUses)
          /\ UNCHANGED <<target, then>>
       \/ /\ ~MayGenerate(TheRoom)
          /\ Remove(p, p, "idle")
          /\ UNCHANGED storeVars
    /\ UNCHANGED <<mapVars, objVars, index, want, arc, fresh, role, histVars>>

\* handle_create_room ends by putting the creator on the participant list; its
\* caller then makes the session a host's.
CreatePush(p) ==
    /\ Goes(p, "cPush", "live")
    /\ participants' = [o \in Object |->
                          IF o = entry THEN participants[o] \cup {p} ELSE participants[o]]
    /\ role' = [role EXCEPT ![p] = "host"]
    /\ UNCHANGED <<mapVars, peers, index, want, arc, fresh, target, then, histVars, storeVars>>

(***************************************************************************)
(* A live session: invites, kicks, and the two ways out of it.             *)
(***************************************************************************)

InviteCreate(p, c) ==
    /\ ~setup.channel
    /\ pc[p] = "live"
    /\ p \in index
    /\ Generate(c, TheRoom, MaxUses)
    /\ UNCHANGED <<mapVars, objVars, index, pc, taskVars, histVars>>

InviteRevoke(p, c) ==
    /\ pc[p] = "live"
    /\ role[p] = "host"
    /\ Revoke(c, TheRoom)
    /\ UNCHANGED <<mapVars, objVars, index, pc, taskVars, histVars>>

\* handle_kick up to remove_peer: the target is on the list of an SFU room.
Kick(p, q) ==
    /\ pc[p] = "live" /\ role[p] = "host"
    /\ p \in index
    /\ EntryIs("sfu") /\ q \in participants[entry]
    /\ Remove(p, q, "kList")
    /\ UNCHANGED <<mapVars, objVars, index, want, arc, fresh, role, histVars, storeVars>>

KickList(p) ==
    /\ Goes(p, "kList", "live")
    /\ participants' = [o \in Object |->
                          IF o = entry THEN participants[o] \ {target[p]} ELSE participants[o]]
    /\ target' = [target EXCEPT ![p] = NoPeer]
    /\ then' = [then EXCEPT ![p] = "idle"]
    /\ UNCHANGED <<mapVars, peers, index, want, arc, fresh, role, histVars, storeVars>>

\* leave_room for an SFU room goes through handle_sfu_leave; otherwise an
\* explicit Leave removes the peer and a lost connection leaves that to
\* cleanup_connection.
Leave(p) ==
    /\ pc[p] = "live"
    /\ Remove(p, p, IF EntryIs("sfu") THEN "lList" ELSE "lArtifacts")
    /\ role' = [role EXCEPT ![p] = "none"]
    /\ UNCHANGED <<mapVars, objVars, index, want, arc, fresh, histVars, storeVars>>

\* handle_sfu_leave after remove_peer; cleanup_connection calls it again.
MutLeaveList(p) ==
    /\ pc[p] = "lList"
    /\ Remove(p, p, "lArtifacts")
    /\ UNCHANGED <<mapVars, objVars, index, want, arc, fresh, role, histVars, storeVars>>

LeaveList(p) ==
    /\ pc[p] = "lList"
    /\ participants' = [o \in Object |->
                          IF o = entry THEN participants[o] \ {p} ELSE participants[o]]
    /\ Remove(p, p, "lArtifacts")
    /\ UNCHANGED <<mapVars, peers, index, want, arc, fresh, role, histVars, storeVars>>

\* cleanup_room_artifacts: without the room, its invites go too.
LeaveArtifacts(p) ==
    /\ Goes(p, "lArtifacts", IF entry = None THEN "lInvites" ELSE "closed")
    /\ UNCHANGED <<mapVars, objVars, index, taskVars, histVars, storeVars>>

LeaveInvites(p) ==
    /\ Goes(p, "lInvites", "closed")
    /\ RemoveRoomInvites(TheRoom)
    /\ UNCHANGED <<mapVars, objVars, index, taskVars, histVars>>

\* A connection that has no session ends: cleanup_unjoined_connection.
CloseUnjoined(p) ==
    /\ pc[p] = "idle"
    /\ Remove(p, p, "closed")
    /\ UNCHANGED <<mapVars, objVars, index, want, arc, fresh, role, histVars, storeVars>>

RemoveStep(p) == RemoveIndex(p) \/ RemoveArc(p) \/ RemoveLock(p) \/ RemoveDrop(p)

JoinStep(p) ==
    \/ JoinLookup(p) \/ JoinCreate(p) \/ JoinSfu(p) \/ JoinArc(p) \/ JoinLock(p)
    \/ JoinIndex(p) \/ JoinPush(p) \/ JoinRole(p) \/ RollbackCheck(p) \/ RollbackDrop(p)

CreateStep(p) ==
    \/ CreateRoom(p) \/ CreateEntry(p) \/ CreateArc(p) \/ CreateLock(p)
    \/ CreateIndex(p) \/ CreateSfu(p) \/ CreateInvite(p) \/ CreatePush(p)

LeaveStep(p) == KickList(p) \/ LeaveList(p) \/ LeaveArtifacts(p) \/ LeaveInvites(p)

Request(p) ==
    \/ \E k \in setup.kinds, c \in Code \cup {NoCode} : JoinRequest(p, k, c)
    \/ VoiceEnsure(p)
    \/ \E k \in setup.kinds : CreateRequest(p, k)
    \/ \E c \in Code : InviteCreate(p, c) \/ InviteRevoke(p, c)
    \/ \E q \in Peer : Kick(p, q)
    \/ Leave(p)
    \/ CloseUnjoined(p)

RegistryNext == \E p \in Peer :
    RemoveStep(p) \/ JoinStep(p) \/ CreateStep(p) \/ LeaveStep(p) \/ Request(p)

RegistrySpec == RegistryInit /\ [][RegistryNext]_registryVars

-----------------------------------------------------------------------------
RegistryTypeOK ==
    /\ entry \in {None} \cup Object /\ made \in 0 .. MaxObjects /\ entry <= made
    /\ kind \in [Object -> {"p2p", "sfu"}]
    /\ peers \in [Object -> SUBSET Peer]
    /\ participants \in [Object -> SUBSET Peer]
    /\ index \subseteq Peer /\ fresh \subseteq Peer
    /\ pc \in [Peer -> Stage] /\ then \in [Peer -> Stage]
    /\ want \in [Peer -> [kind : {"p2p", "sfu"}, code : Code \cup {NoCode}]]
    /\ arc \in [Peer -> {None} \cup Object]
    /\ target \in [Peer -> Peer \cup {NoPeer}]
    /\ role \in [Peer -> {"none", "host", "guest"}]
    /\ via \in [Peer -> Code \cup {NoCode}] /\ placed \subseteq Peer
    /\ setup \in Setups
    /\ TypeOK

\* peer_to_room names no peer that is on no peer list: insertions write the
\* list first and removals the index first, and a kick and the target's own
\* leave may do it at the same time.
IndexedIsMember == \A p \in index : \E o \in Object : p \in peers[o]

\* Some task has p's index entry and is about to take p off the peer list.
BeingRemoved(p) == \E q \in Peer : pc[q] \in {"rArc", "rLock"} /\ target[q] = p

\* A connection that ended has left nothing in the room that is in the map:
\* no index entry, no place, and no participant entry of an SFU room, whether
\* it left, was kicked, failed to join or was in an object that left the map.
\* A place may remain only for as long as a kick is taking it away.
ClosedLeavesNothing ==
    \A p \in Peer : pc[p] = "closed" =>
        /\ p \notin index
        /\ entry # None =>
             /\ p \in peers[entry] => BeingRemoved(p)
             /\ kind[entry] = "sfu" => p \notin participants[entry]

\* "invite consumption and peer insertion must succeed or fail together"
\* (channel/invite.rs): the uses taken from a code are the peers it let in.
InviteUseIsAdmission ==
    \A c \in Code : accepted[c] = Cardinality({p \in Peer : via[p] = c})

\* When every connection of a channel's room has ended, the room has left the
\* map, so that it stops counting as active (active_room_count).
NoRoomOutlivesItsPeers ==
    setup.channel /\ (\A p \in Peer : pc[p] = "closed") => entry = None

\* The maps of the registry fit together although every operation changes them
\* under several locks: index and peer lists, rooms and connections.
RegistryInv == RegistryTypeOK /\ IndexedIsMember /\ ClosedLeavesNothing /\ NoRoomOutlivesItsPeers

\* handle_p2p_join: "Enforce max 2 peers in P2P rooms".  Joins never exceed it,
\* whatever they race with; only a CreateRoom that had found no room of that id,
\* and inserts its peer without a check, can.
JoinsRespectCapacity ==
    \A o \in Object : Cardinality(peers[o] \ placed) <= Capacity(o)
=============================================================================
