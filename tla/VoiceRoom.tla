----------------------------- MODULE VoiceRoom -----------------------------
(***************************************************************************)
(* One channel voice room of the signaling backend, over its lifetime: the *)
(* peer and participant lists, the synchronized sub-rooms layered on them, *)
(* the passthrough pair, the screen shares and the timers that delete      *)
(* empty sub-rooms.                                                        *)
(*                                                                         *)
(* Every step is one critical section of the per-room lock (state.rs,      *)
(* with_room_write / update_room_info).  join_voice, handle_kick and       *)
(* leave_room take several of them, with awaits on the SFU in between, so  *)
(* they are sequences of actions driven by the task's program counter and  *)
(* every other task may run in between.                                    *)
(*                                                                         *)
(* Instants are kept relative to the present, because the code only ever   *)
(* compares them: a deadline d falls due in d ticks, and an overdue one    *)
(* is 0; timers of one sub-room that are overdue together fire together,   *)
(* the earlier of them to no effect.  A sub-room is its number: its        *)
(* identifier is "room-" and that number.                                  *)
(***************************************************************************)
EXTENDS Integers, FiniteSets

CONSTANTS
    Peer,               \* WebSocket connections (peer ids, never reused)
    User,               \* authenticated users
    UserOf,             \* the user behind each connection
    NoPeer,             \* placeholder: no connection
    Mod,                \* tasks that remove a participant: a host's KickParticipant
                        \* handler or the ban route
    MaxParticipants,    \* RoomInfo.max_participants
    MaxSubRoom,         \* bound: largest sub-room number explored
    DeleteAfter         \* SUB_ROOM_DELETE_AFTER, in ticks

ASSUME UserOfAssumption == UserOf \in [Peer -> User]
ASSUME PeerAssumption == IsFiniteSet(Peer) /\ NoPeer \notin Peer
ASSUME MaxParticipantsAssumption == MaxParticipants \in Nat \ {0}
ASSUME MaxSubRoomAssumption == MaxSubRoom \in Nat \ {0}
ASSUME DeleteAfterAssumption == DeleteAfter \in Nat \ {0}

VARIABLES
    status,         \* of the room in the rooms map: "absent", "live" or "gone"
    peers,          \* RoomMembers.peers (and the peer_to_room entries)
    participants,   \* RoomInfo.participants, as a set of participant ids
    shares,         \* RoomInfo.active_shares
    subRooms,       \* numbers of the existing sub-rooms
    members,        \* SubRoomInfo.participant_ids
    deleteAt,       \* SubRoomInfo.delete_at, NoDeadline for None
    assigned,       \* SubRoomState.participant_assignments, Unassigned if no entry
    source,         \* SubRoomState.membership_sources
    passthrough,    \* active_passthrough: {} or the two rooms of the pair
    enabled,        \* passthrough_enabled
    timers,         \* spawned expiry tasks: sub-room and expected delete_at
    pc,             \* where each connection's task is
    victim,         \* stale session that an evicting join is removing
    created,        \* joins that created the room (ensure_active_room's flag)
    carry,          \* expiry an evicting join returns to its handler
    dropped,        \* history: expiries that a failed join threw away
    kick            \* stage and target of each moderation task

roomVars == <<status, peers, participants, shares>>
subVars == <<subRooms, members, deleteAt, assigned, source, passthrough, enabled>>
joinVars == <<victim, created, carry, dropped>>
vars == <<roomVars, subVars, timers, pc, joinVars, kick>>

SubRoom == 1 .. MaxSubRoom
Default == 1                    \* DEFAULT_SUB_ROOM_ID
Unassigned == 0
NoDeadline == -1
Deadline == 0 .. DeleteAfter
Expiry == SubRoom \X Deadline   \* PendingSubRoomExpiry

Stage == {"idle", "find", "evict", "evictPeer", "evictList", "evictSub", "add",
          "push", "sync", "live", "quit", "quitPeer", "quitList", "quitSub",
          "closed"}

KickStage == {"idle", "sfu", "list", "count", "drop", "sub"}

Init ==
    /\ status = "absent"
    /\ peers = {} /\ participants = {} /\ shares = {}
    /\ subRooms = {Default}
    /\ members = [r \in SubRoom |-> {}]
    /\ deleteAt = [r \in SubRoom |-> NoDeadline]
    /\ assigned = [p \in Peer |-> Unassigned]
    /\ source = [p \in Peer |-> "none"]
    /\ passthrough = {}
    /\ enabled = FALSE
    /\ timers = {}
    /\ pc = [p \in Peer |-> "idle"]
    /\ victim = [p \in Peer |-> NoPeer]
    /\ created = {}
    /\ carry = [p \in Peer |-> {}]
    /\ dropped = {}
    /\ kick = [m \in Mod |-> [stage |-> "idle", target |-> NoPeer]]

Live == status = "live"

GoTo(p, stage) == pc' = [pc EXCEPT ![p] = stage]

(***************************************************************************)
(* Helpers of voice_orchestrator.rs, all run under the per-room lock.      *)
(***************************************************************************)

\* The pairs that normalize_passthrough_pair accepts.
Pairs(rooms) == {pair \in SUBSET rooms : \E a, b \in rooms : a # b /\ pair = {a, b}}

\* clear_invalid_passthrough_locked: drop a pair that names a missing room.
MutClearInvalid(pair, rooms) == pair

ClearInvalid(pair, rooms) == IF pair \in Pairs(rooms) THEN pair ELSE {}

\* The participant list of each sub-room once p has been taken off room r's.
Without(p, r) == [members EXCEPT ![r] = @ \ {p}]

\* schedule_empty_room_if_needed for room r, whose participants are now ps:
\* the room's new deadline, and the expiry the caller has to schedule.
MutEmptyDeadline(r, ps) == IF ps # {} THEN NoDeadline ELSE DeleteAfter

EmptyDeadline(r, ps) ==
    IF r = Default \/ ps # {} THEN NoDeadline ELSE DeleteAfter

EmptyExpiry(r, ps) ==
    IF r = Default \/ ps # {} THEN {} ELSE {<<r, DeleteAfter>>}

\* leave_sub_room for a p that has a sub-room: this also ends p's share.
MutLeaveAssigned(p) ==
    LET r == assigned[p]
    IN  /\ members' = Without(p, r)
        /\ deleteAt' = [deleteAt EXCEPT ![r] = EmptyDeadline(r, members[r] \ {p})]
        /\ assigned' = [assigned EXCEPT ![p] = Unassigned]
        /\ source' = [source EXCEPT ![p] = "none"]
        /\ passthrough' = ClearInvalid(passthrough, subRooms)
        /\ UNCHANGED <<subRooms, enabled, shares>>

LeaveAssigned(p) ==
    LET r == assigned[p]
    IN  /\ members' = Without(p, r)
        /\ deleteAt' = [deleteAt EXCEPT ![r] = EmptyDeadline(r, members[r] \ {p})]
        /\ assigned' = [assigned EXCEPT ![p] = Unassigned]
        /\ source' = [source EXCEPT ![p] = "none"]
        /\ shares' = shares \ {p}
        /\ passthrough' = ClearInvalid(passthrough, subRooms)
        /\ UNCHANGED <<subRooms, enabled>>

LeaveUnassigned(p) ==
    /\ source' = [source EXCEPT ![p] = "none"]
    /\ passthrough' = ClearInvalid(passthrough, subRooms)
    /\ UNCHANGED <<subRooms, members, deleteAt, assigned, enabled, shares>>

\* with_room_write fails once the room has left the map.
LeaveSub(p) ==
    \/ Live /\ assigned[p] # Unassigned /\ LeaveAssigned(p)
    \/ Live /\ assigned[p] = Unassigned /\ LeaveUnassigned(p)
    \/ ~Live /\ UNCHANGED <<subVars, shares>>

\* The expiry leave_sub_room returns for p.
LeaveExpiry(p) ==
    IF Live /\ assigned[p] # Unassigned
    THEN EmptyExpiry(assigned[p], members[assigned[p]] \ {p})
    ELSE {}

\* remove_peer: the last peer takes the room with it.  The window between
\* the emptiness check and the removal from the map is RoomRegistry's.
RemovePeer(p) ==
    /\ peers' = IF Live THEN peers \ {p} ELSE peers
    /\ status' = IF Live /\ p \in peers /\ peers = {p} THEN "gone" ELSE status

(***************************************************************************)
(* join_voice.  The membership check against the database is in            *)
(* ChannelMembership; the token is assumed to sign.                        *)
(***************************************************************************)

\* ensure_active_room: get or create the room; either way it stores the
\* passthrough permission b that the membership query read.
JoinEnsure(p, b) ==
    /\ pc[p] = "idle"
    /\ status # "gone"
    /\ status' = "live"
    /\ created' = IF status = "absent" THEN created \cup {p} ELSE created
    /\ enabled' = b
    /\ GoTo(p, "find")
    /\ UNCHANGED <<peers, participants, shares, subRooms, members, deleteAt,
                   assigned, source, passthrough, timers, victim, carry, dropped, kick>>

\* evict_stale_session looks for a participant of the same user; its SFU
\* removal is then awaited.  Without a room the join fails for want of a handle.
JoinFindStale(p) ==
    /\ pc[p] = "find"
    /\ LET stale == {q \in participants : UserOf[q] = UserOf[p]}
       IN  \/ /\ Live /\ stale = {}
              /\ GoTo(p, "add")
              /\ UNCHANGED <<victim, created>>
           \/ /\ Live
              /\ \E q \in stale : victim' = [victim EXCEPT ![p] = q]
              /\ GoTo(p, "evict")
              /\ UNCHANGED created
           \/ /\ ~Live
              /\ GoTo(p, "idle")
              /\ created' = created \ {p}
              /\ UNCHANGED victim
    /\ UNCHANGED <<roomVars, subVars, timers, carry, dropped, kick>>

\* cleanup_share_on_disconnect for the stale session.
EvictShare(p) ==
    /\ pc[p] = "evict"
    /\ shares' = IF Live THEN shares \ {victim[p]} ELSE shares
    /\ GoTo(p, "evictPeer")
    /\ UNCHANGED <<status, peers, participants, subVars, timers, joinVars, kick>>

\* remove_peer_preserve_room: the room survives even when this empties it.
EvictPeer(p) ==
    /\ pc[p] = "evictPeer"
    /\ peers' = IF Live THEN peers \ {victim[p]} ELSE peers
    /\ GoTo(p, "evictList")
    /\ UNCHANGED <<status, participants, shares, subVars, timers, joinVars, kick>>

MutEvictList(p) ==
    /\ pc[p] = "evictList"
    /\ GoTo(p, "evictSub")
    /\ UNCHANGED <<roomVars, subVars, timers, joinVars, kick>>

EvictList(p) ==
    /\ pc[p] = "evictList"
    /\ participants' = IF Live THEN participants \ {victim[p]} ELSE participants
    /\ GoTo(p, "evictSub")
    /\ UNCHANGED <<status, peers, shares, subVars, timers, joinVars, kick>>

\* remove_participant_from_sub_room for the stale session.  The expiry is not
\* scheduled here: it travels back to the handler in VoiceJoinResult.
EvictSub(p) ==
    /\ pc[p] = "evictSub"
    /\ LeaveSub(victim[p])
    /\ carry' = [carry EXCEPT ![p] = LeaveExpiry(victim[p])]
    /\ victim' = [victim EXCEPT ![p] = NoPeer]
    /\ GoTo(p, "add")
    /\ UNCHANGED <<status, peers, participants, timers, created, dropped, kick>>

\* A join that fails returns an error, and the expiry it carried is dropped
\* with it.  rollback_room removes the room if this join created it and it
\* has no peers.
JoinFails(p) ==
    /\ status' = IF p \in created /\ Live /\ peers = {} THEN "gone" ELSE status
    /\ created' = created \ {p}
    /\ carry' = [carry EXCEPT ![p] = {}]
    /\ dropped' = dropped \cup carry[p]
    /\ GoTo(p, "idle")
    /\ UNCHANGED <<peers, participants, shares, subVars, timers, victim, kick>>

\* The SFU refuses add_participant.
JoinSfuError(p) == pc[p] = "add" /\ JoinFails(p)

\* try_add_peer_with: the room is full or no longer in the map.
JoinRoomFull(p) ==
    /\ pc[p] = "add"
    /\ ~Live \/ (p \notin peers /\ Cardinality(peers) >= MaxParticipants)
    /\ JoinFails(p)

\* try_add_peer_with: capacity check and insertion in one critical section.
MutJoinAdd(p) ==
    /\ pc[p] = "add"
    /\ Live
    /\ p \in peers \/ Cardinality(peers) <= MaxParticipants
    /\ peers' = peers \cup {p}
    /\ GoTo(p, "push")
    /\ UNCHANGED <<status, participants, shares, subVars, timers, joinVars, kick>>

JoinAdd(p) ==
    /\ pc[p] = "add"
    /\ Live
    /\ p \in peers \/ Cardinality(peers) < MaxParticipants
    /\ peers' = peers \cup {p}
    /\ GoTo(p, "push")
    /\ UNCHANGED <<status, participants, shares, subVars, timers, joinVars, kick>>

JoinPush(p) ==
    /\ pc[p] = "push"
    /\ participants' = IF Live THEN participants \cup {p} ELSE participants
    /\ GoTo(p, "sync")
    /\ UNCHANGED <<status, peers, shares, subVars, timers, joinVars, kick>>

\* sync_sub_room_state_on_voice_join for a client that supports sub-rooms:
\* it starts in none.
SyncModern(p) ==
    /\ assigned' = [assigned EXCEPT ![p] = Unassigned]
    /\ source' = [source EXCEPT ![p] = "none"]
    /\ members' = [r \in SubRoom |-> members[r] \ {p}]
    /\ UNCHANGED deleteAt

\* The same for a legacy client: it is placed in ROOM 1.
SyncLegacy(p) ==
    /\ assigned' = [assigned EXCEPT ![p] = Default]
    /\ source' = [source EXCEPT ![p] = "legacy"]
    /\ members' = [members EXCEPT ![Default] = @ \cup {p}]
    /\ deleteAt' = [deleteAt EXCEPT ![Default] = NoDeadline]

\* The end of join_voice and of its handler: sub-room sync, the session, and
\* the expiry of the evicted session's sub-room.
JoinSync(p) ==
    /\ pc[p] = "sync"
    /\ \/ /\ Live
          /\ SyncModern(p) \/ SyncLegacy(p)
          /\ passthrough' = ClearInvalid(passthrough, subRooms)
       \/ ~Live /\ UNCHANGED <<members, deleteAt, assigned, source, passthrough>>
    /\ timers' = timers \cup carry[p]
    /\ carry' = [carry EXCEPT ![p] = {}]
    /\ created' = created \ {p}
    /\ GoTo(p, "live")
    /\ UNCHANGED <<roomVars, subRooms, enabled, victim, dropped, kick>>

(***************************************************************************)
(* Messages of a connection that holds a session.  The sub-room handlers   *)
(* take the room from the session, so a participant that was kicked or     *)
(* evicted can still send them until its socket closes.                    *)
(***************************************************************************)

\* The new sub-room n is numbered one above the largest number in use.
CreateSubRoom(p, n) ==
    /\ pc[p] = "live" /\ Live
    /\ n - 1 \in subRooms
    /\ \A r \in subRooms : r < n
    /\ subRooms' = subRooms \cup {n}
    /\ deleteAt' = [deleteAt EXCEPT ![n] = DeleteAfter]
    /\ timers' = timers \cup {<<n, DeleteAfter>>}
    /\ passthrough' = ClearInvalid(passthrough, subRooms)
    /\ UNCHANGED <<roomVars, members, assigned, source, enabled, pc, joinVars, kick>>

\* The participant lists once p has moved from room o (if any) to room r.
MutMoved(p, o, r) == [members EXCEPT ![r] = @ \cup {p}]

Moved(p, o, r) ==
    [s \in SubRoom |-> IF s = r THEN members[s] \cup {p}
                       ELSE IF s = o THEN members[s] \ {p} ELSE members[s]]

JoinSubRoom(p, r) ==
    LET o == assigned[p]
    IN  /\ pc[p] = "live" /\ Live
        /\ r \in subRooms
        /\ o # r
        /\ members' = Moved(p, o, r)
        /\ deleteAt' = [s \in SubRoom |->
                            IF s = r THEN NoDeadline
                            ELSE IF s = o THEN EmptyDeadline(o, members[o] \ {p})
                            ELSE deleteAt[s]]
        /\ timers' = IF o = Unassigned THEN timers
                     ELSE timers \cup EmptyExpiry(o, members[o] \ {p})
        /\ assigned' = [assigned EXCEPT ![p] = r]
        /\ source' = [source EXCEPT ![p] = "explicit"]
        /\ passthrough' = ClearInvalid(passthrough, subRooms)
        /\ UNCHANGED <<roomVars, subRooms, enabled, pc, joinVars, kick>>

LeaveSubRoom(p) ==
    /\ pc[p] = "live" /\ Live
    /\ LeaveSub(p)
    /\ timers' = timers \cup LeaveExpiry(p)
    /\ UNCHANGED <<status, peers, participants, pc, joinVars, kick>>

\* Only a participant of one of the two rooms may change an active pair.
MayControlPassthrough(p) ==
    /\ pc[p] = "live" /\ Live
    /\ assigned[p] # Unassigned
    /\ ClearInvalid(passthrough, subRooms) = {} \/ assigned[p] \in passthrough

SetPassthrough(p, r) ==
    /\ MayControlPassthrough(p)
    /\ enabled
    /\ {r, assigned[p]} \in Pairs(subRooms)
    /\ passthrough' = {r, assigned[p]}
    /\ UNCHANGED <<roomVars, subRooms, members, deleteAt, assigned, source, enabled,
                   timers, pc, joinVars, kick>>

ClearPassthrough(p) ==
    /\ MayControlPassthrough(p)
    /\ passthrough' = {}
    /\ UNCHANGED <<roomVars, subRooms, members, deleteAt, assigned, source, enabled,
                   timers, pc, joinVars, kick>>

\* An owner or admin changes the permission; an active pair is kept.
SetPassthroughEnabled(p) ==
    /\ pc[p] = "live" /\ Live
    /\ enabled' = ~enabled
    /\ UNCHANGED <<roomVars, subRooms, members, deleteAt, assigned, source,
                   passthrough, timers, pc, joinVars, kick>>

\* handle_start_share_with_type: the sender must be a peer and have a sub-room.
\* The types of its shares are not modelled, and the permission is the default,
\* AllParticipants.
StartShare(p) ==
    /\ pc[p] = "live" /\ Live
    /\ p \in peers /\ assigned[p] # Unassigned
    /\ shares' = shares \cup {p}
    /\ UNCHANGED <<status, peers, participants, subVars, timers, pc, joinVars, kick>>

\* handle_stop_share by the sharer or by a host; the target must still be a peer.
StopShare(p, t) ==
    /\ pc[p] = "live" /\ Live
    /\ p \in peers /\ t \in peers
    /\ shares' = shares \ {t}
    /\ UNCHANGED <<status, peers, participants, subVars, timers, pc, joinVars, kick>>

\* handle_stop_all_shares empties the set, members or not.
StopAllShares(p) ==
    /\ pc[p] = "live" /\ Live
    /\ p \in peers
    /\ shares' = {}
    /\ UNCHANGED <<status, peers, participants, subVars, timers, pc, joinVars, kick>>

(***************************************************************************)
(* leave_room and handle_sfu_leave, for a Leave message or a lost socket.  *)
(***************************************************************************)

\* A disconnect first ends the share; an explicit Leave does not.  When the
\* room is already gone there is nothing to leave.
QuitStart(p) ==
    /\ pc[p] = "live"
    /\ \/ Live /\ GoTo(p, "quit") /\ shares' \in {shares, shares \ {p}}
       \/ ~Live /\ GoTo(p, "closed") /\ UNCHANGED shares
    /\ UNCHANGED <<status, peers, participants, subVars, timers, joinVars, kick>>

\* A connection that never joined has no session to leave.
CloseUnjoined(p) ==
    /\ pc[p] = "idle"
    /\ GoTo(p, "closed")
    /\ UNCHANGED <<roomVars, subVars, timers, joinVars, kick>>

\* After the awaited SFU removal: cleanup_share_on_disconnect.
QuitShare(p) ==
    /\ pc[p] = "quit"
    /\ shares' = IF Live THEN shares \ {p} ELSE shares
    /\ GoTo(p, "quitPeer")
    /\ UNCHANGED <<status, peers, participants, subVars, timers, joinVars, kick>>

QuitPeer(p) ==
    /\ pc[p] = "quitPeer"
    /\ RemovePeer(p)
    /\ GoTo(p, "quitList")
    /\ UNCHANGED <<participants, shares, subVars, timers, joinVars, kick>>

QuitList(p) ==
    /\ pc[p] = "quitList"
    /\ participants' = IF Live THEN participants \ {p} ELSE participants
    /\ GoTo(p, "quitSub")
    /\ UNCHANGED <<status, peers, shares, subVars, timers, joinVars, kick>>

QuitSub(p) ==
    /\ pc[p] = "quitSub"
    /\ LeaveSub(p)
    /\ timers' = timers \cup LeaveExpiry(p)
    /\ GoTo(p, "closed")
    /\ UNCHANGED <<status, peers, participants, joinVars, kick>>

(***************************************************************************)
(* handle_kick and what its callers do next: the KickParticipant handler   *)
(* and the ban route (eject_banned_user).  The target keeps its socket.    *)
(***************************************************************************)

\* The target must be a participant; its SFU removal is then awaited.
KickStart(m, t) ==
    /\ kick[m].stage = "idle"
    /\ Live /\ t \in participants
    /\ kick' = [kick EXCEPT ![m] = [stage |-> "sfu", target |-> t]]
    /\ UNCHANGED <<roomVars, subVars, timers, pc, joinVars>>

KickPeer(m) ==
    /\ kick[m].stage = "sfu"
    /\ RemovePeer(kick[m].target)
    /\ kick' = [kick EXCEPT ![m].stage = "list"]
    /\ UNCHANGED <<participants, shares, subVars, timers, pc, joinVars>>

\* The participant list.  The ban route goes on to count the peers that remain,
\* the KickParticipant handler goes straight to the sub-room.
KickList(m) ==
    /\ kick[m].stage = "list"
    /\ participants' = IF Live THEN participants \ {kick[m].target} ELSE participants
    /\ \E s \in {"count", "sub"} : kick' = [kick EXCEPT ![m].stage = s]
    /\ UNCHANGED <<status, peers, shares, subVars, timers, pc, joinVars>>

\* eject_banned_user: peer_count, which is 0 for a room that is gone; at 0 the
\* destruction of the SFU room is awaited.
KickCount(m) ==
    /\ kick[m].stage = "count"
    /\ kick' = [kick EXCEPT ![m].stage = IF Live /\ peers # {} THEN "sub" ELSE "drop"]
    /\ UNCHANGED <<roomVars, subVars, timers, pc, joinVars>>

\* remove_empty_room: the emptiness is checked again.
KickDropRoom(m) ==
    /\ kick[m].stage = "drop"
    /\ status' = IF Live /\ peers = {} THEN "gone" ELSE status
    /\ kick' = [kick EXCEPT ![m].stage = "sub"]
    /\ UNCHANGED <<peers, participants, shares, subVars, timers, pc, joinVars>>

KickSub(m) ==
    /\ kick[m].stage = "sub"
    /\ LeaveSub(kick[m].target)
    /\ timers' = timers \cup LeaveExpiry(kick[m].target)
    /\ kick' = [kick EXCEPT ![m] = [stage |-> "idle", target |-> NoPeer]]
    /\ UNCHANGED <<status, peers, participants, pc, joinVars>>

(***************************************************************************)
(* Timers.                                                                 *)
(***************************************************************************)

Elapsed(d) == IF d > 0 THEN d - 1 ELSE d

Aged(expiries) == {<<e[1], Elapsed(e[2])>> : e \in expiries}

Tick ==
    /\ deleteAt' = [r \in SubRoom |-> Elapsed(deleteAt[r])]
    /\ timers' = Aged(timers)
    /\ carry' = [p \in Peer |-> Aged(carry[p])]
    /\ dropped' = Aged(dropped)
    /\ UNCHANGED <<roomVars, subRooms, members, assigned, source, passthrough,
                   enabled, pc, victim, created, kick>>

\* expire_sub_room deletes the room only if it is still empty and its
\* deadline is the one the timer was armed for.
MutExpires(r) == Live /\ r \in subRooms /\ r # Default /\ members[r] = {}

MutExpiresNever(r) == MutExpires(r) /\ deleteAt[r] = DeleteAfter

Expires(r) ==
    /\ Live
    /\ r \in subRooms /\ r # Default
    /\ members[r] = {}
    /\ deleteAt[r] = 0

ExpireSubRoom(r) ==
    /\ <<r, 0>> \in timers
    /\ timers' = timers \ {<<r, 0>>}
    /\ \/ /\ Expires(r)
          /\ subRooms' = subRooms \ {r}
          /\ deleteAt' = [deleteAt EXCEPT ![r] = NoDeadline]
          /\ passthrough' = ClearInvalid(passthrough, subRooms \ {r})
       \/ /\ ~Expires(r)
          /\ passthrough' = IF Live THEN ClearInvalid(passthrough, subRooms) ELSE passthrough
          /\ UNCHANGED <<subRooms, deleteAt>>
    /\ UNCHANGED <<roomVars, members, assigned, source, enabled, pc, joinVars, kick>>

Join(p) ==
    \/ \E b \in BOOLEAN : JoinEnsure(p, b)
    \/ JoinFindStale(p)
    \/ EvictShare(p) \/ EvictPeer(p) \/ EvictList(p) \/ EvictSub(p)
    \/ JoinSfuError(p) \/ JoinRoomFull(p) \/ JoinAdd(p) \/ JoinPush(p) \/ JoinSync(p)

Message(p) ==
    \/ \E r \in SubRoom : CreateSubRoom(p, r) \/ JoinSubRoom(p, r) \/ SetPassthrough(p, r)
    \/ LeaveSubRoom(p)
    \/ ClearPassthrough(p) \/ SetPassthroughEnabled(p)
    \/ StartShare(p) \/ StopAllShares(p)
    \/ \E t \in Peer : StopShare(p, t)

QuitRest(p) == QuitShare(p) \/ QuitPeer(p) \/ QuitList(p) \/ QuitSub(p)

Quit(p) == QuitStart(p) \/ CloseUnjoined(p) \/ QuitRest(p)

KickRest(m) ==
    \/ KickPeer(m) \/ KickList(m) \/ KickCount(m) \/ KickDropRoom(m) \/ KickSub(m)

Kick(m) ==
    \/ \E t \in Peer : KickStart(m, t)
    \/ KickRest(m)

Next ==
    \/ \E p \in Peer : Join(p) \/ Message(p) \/ Quit(p)
    \/ \E m \in Mod : Kick(m)
    \/ Tick
    \/ \E r \in SubRoom : ExpireSubRoom(r)

Spec == Init /\ [][Next]_vars

(***************************************************************************)
(* Fairness.  Spawned timers and started handlers are tokio tasks that run *)
(* to completion; what a client sends, and when, is its own choice.  The   *)
(* SFU answers every call, with an error or not.                           *)
(***************************************************************************)

TaskStep(p) ==
    \/ JoinFindStale(p)
    \/ EvictShare(p) \/ EvictPeer(p) \/ EvictList(p) \/ EvictSub(p)
    \/ JoinSfuError(p) \/ JoinRoomFull(p) \/ JoinAdd(p) \/ JoinPush(p) \/ JoinSync(p)
    \/ QuitRest(p)

Fairness ==
    /\ \A p \in Peer : WF_vars(TaskStep(p))
    /\ \A m \in Mod : WF_vars(KickRest(m))
    /\ \A r \in SubRoom : WF_vars(ExpireSubRoom(r))
    /\ WF_vars(Tick)

FairSpec == Spec /\ Fairness

-----------------------------------------------------------------------------

(***************************************************************************)
(* Properties.                                                             *)
(***************************************************************************)

TypeOK ==
    /\ status \in {"absent", "live", "gone"}
    /\ peers \subseteq Peer /\ participants \subseteq Peer /\ shares \subseteq Peer
    /\ subRooms \subseteq SubRoom
    /\ members \in [SubRoom -> SUBSET Peer]
    /\ deleteAt \in [SubRoom -> Deadline \cup {NoDeadline}]
    /\ assigned \in [Peer -> SubRoom \cup {Unassigned}]
    /\ source \in [Peer -> {"none", "explicit", "legacy"}]
    /\ passthrough \subseteq SubRoom
    /\ enabled \in BOOLEAN
    /\ timers \subseteq Expiry
    /\ pc \in [Peer -> Stage]
    /\ victim \in [Peer -> Peer \cup {NoPeer}]
    /\ created \subseteq Peer
    /\ carry \in [Peer -> SUBSET Expiry]
    /\ dropped \subseteq Expiry
    /\ kick \in [Mod -> [stage : KickStage, target : Peer \cup {NoPeer}]]

\* Some task has taken p off the peer list and has still to finish removing it.
BeingRemoved(p) ==
    \/ pc[p] \in {"quitList", "quitSub"}
    \/ \E q \in Peer : victim[q] = p /\ pc[q] \in {"evictList", "evictSub"}
    \/ \E m \in Mod : kick[m].target = p /\ kick[m].stage \in {"list", "count", "drop", "sub"}

\* The reverse index participant_assignments and the participant_ids lists of
\* the sub-rooms agree, so nobody is listed twice or assigned to a sub-room
\* that its expiry timer has deleted (join_sub_room racing expire_sub_room).
AssignmentsAgree ==
    /\ \A p \in Peer, r \in SubRoom : p \in members[r] <=> assigned[p] = r
    /\ \A r \in SubRoom \ subRooms : members[r] = {}
    /\ \A p \in Peer : source[p] = "none" <=> assigned[p] = Unassigned

\* delete_at is set exactly on the empty sub-rooms other than ROOM 1
\* (state.rs: "None for ROOM 1 and non-empty rooms"), and ROOM 1 always exists.
DeadlineIffEmpty ==
    /\ Default \in subRooms
    /\ \A r \in SubRoom :
         deleteAt[r] # NoDeadline <=> r \in subRooms \ {Default} /\ members[r] = {}

\* Every deadline has a timer armed for exactly that instant, or a join in
\* progress that will arm it, unless a failed join dropped it: no sequence of
\* joins, leaves and id reuse leaves an empty sub-room that nothing will delete.
DeadlineArmed ==
    Live => \A r \in SubRoom : deleteAt[r] # NoDeadline =>
        <<r, deleteAt[r]>> \in timers \cup dropped \cup UNION {carry[p] : p \in Peer}

\* An active passthrough pair names two different sub-rooms that exist, through
\* any number of deletions and reuses of their numbers.
PassthroughValid == passthrough = {} \/ passthrough \in Pairs(subRooms)

\* The capacity check and the insertion are one critical section: the room
\* never holds more than max_participants peers, however joins interleave.
CapacityRespected == Cardinality(peers) <= MaxParticipants

\* peers and participants are changed under separate lock acquisitions; they
\* differ only while a task is between the two.
ListsAgree ==
    Live => \A p \in Peer :
        /\ p \in peers \ participants => pc[p] = "push"
        /\ p \in participants \ peers => BeingRemoved(p)

\* A sharer has a sub-room and is a peer of the room, or is just being removed:
\* a kick, whose handler does not clean up shares, ends the share all the same,
\* because the sub-room it then leaves carries it.
SharerIsMember ==
    Live => \A p \in shares :
        /\ assigned[p] # Unassigned
        /\ p \in peers \/ BeingRemoved(p)

\* A connection that is closed has left nothing behind in a room that is still
\* there: no peer or participant entry, no share and no sub-room.
ClosedLeavesNothing ==
    Live => \A p \in Peer : pc[p] = "closed" =>
        /\ p \notin peers \cup participants \cup shares
        /\ assigned[p] = Unassigned

\* The state of a room as a whole: types, the two member lists, shares and the
\* timers of empty sub-rooms fit together at every step of every handler, and a
\* closed connection is in none of them.
RoomInv == TypeOK /\ ListsAgree /\ SharerIsMember /\ ClosedLeavesNothing /\ DeadlineArmed

\* A sub-room is only ever deleted when it has been empty for the whole grace
\* period: a timer armed for an earlier emptiness, or for an earlier sub-room
\* with the same number, never deletes it.
DeletedOnlyWhenDue ==
    [][\A r \in subRooms \ subRooms' : members[r] = {} /\ deleteAt[r] = 0]_vars

\* A sub-room that is empty with its timer armed is deleted or joined again.
ArmedSubRoomExpires ==
    \A r \in SubRoom :
        (Live /\ members[r] = {} /\ <<r, deleteAt[r]>> \in timers)
            ~> (~Live \/ r \notin subRooms \/ members[r] # {})

\* A share never outlives its sharer's place in the room, whichever of the
\* leave, kick and eviction paths took it away.
ShareEndsWithSharer ==
    \A p \in Peer : (Live /\ p \in shares \ peers) ~> (~Live \/ p \notin shares)

\* voice_orchestrator.rs: "Stale sessions (same user_id already in the room)
\* are evicted atomically during join", so a user has one session in the room.
OneSessionPerUser ==
    Live => \A p, q \in participants : UserOf[p] = UserOf[q] => p = q
=============================================================================
