-------------------------- MODULE VoiceRoomProofs --------------------------
(***************************************************************************)
(* Proofs about VoiceRoom, for any number of connections, moderation tasks *)
(* and sub-rooms, any capacity and any grace period.                       *)
(***************************************************************************)
EXTENDS VoiceRoom, FiniteSetTheorems, TLAPS

Evicting == {"evict", "evictPeer", "evictList", "evictSub"}

(***************************************************************************)
(* A task that is removing somebody has a target: the values of victim and *)
(* kick are only looked at where this holds.                               *)
(***************************************************************************)
TargetsKnown ==
    /\ \A p \in Peer : pc[p] \in Evicting => victim[p] \in Peer
    /\ \A m \in Mod : kick[m].stage # "idle" => kick[m].target \in Peer

TypeInv == TypeOK /\ TargetsKnown

\* The helpers of voice_orchestrator.rs return values of the right type.
LEMMA HelperTypes ==
    ASSUME NEW r \in SubRoom, NEW ps
    PROVE  /\ EmptyDeadline(r, ps) \in Deadline \cup {NoDeadline}
           /\ EmptyExpiry(r, ps) \subseteq Expiry
BY DeleteAfterAssumption DEF EmptyDeadline, EmptyExpiry, Deadline, Expiry, NoDeadline

\* clear_invalid_passthrough_locked returns rooms that exist.
LEMMA ClearInvalidType ==
    ASSUME NEW pair, NEW rooms \in SUBSET SubRoom
    PROVE  /\ ClearInvalid(pair, rooms) \subseteq SubRoom
           /\ ClearInvalid(pair, rooms) = {} \/ ClearInvalid(pair, rooms) \in Pairs(rooms)
BY DEF ClearInvalid, Pairs

\* leave_sub_room keeps the types, whichever of its three paths it takes.
LEMMA LeaveSubType ==
    ASSUME TypeOK, NEW p \in Peer, LeaveSub(p)
    PROVE  /\ subRooms' \subseteq SubRoom /\ shares' \subseteq Peer
           /\ members' \in [SubRoom -> SUBSET Peer]
           /\ deleteAt' \in [SubRoom -> Deadline \cup {NoDeadline}]
           /\ assigned' \in [Peer -> SubRoom \cup {Unassigned}]
           /\ source' \in [Peer -> {"none", "explicit", "legacy"}]
           /\ passthrough' \subseteq SubRoom /\ enabled' \in BOOLEAN
           /\ LeaveExpiry(p) \subseteq Expiry
<1>1. ASSUME assigned[p] # Unassigned
      PROVE  /\ assigned[p] \in SubRoom
             /\ EmptyDeadline(assigned[p], members[assigned[p]] \ {p})
                    \in Deadline \cup {NoDeadline}
             /\ EmptyExpiry(assigned[p], members[assigned[p]] \ {p}) \subseteq Expiry
  <2>1. assigned[p] \in SubRoom
    BY <1>1 DEF TypeOK
  <2>2. QED
    BY <2>1, HelperTypes
<1>2. CASE Live /\ assigned[p] # Unassigned /\ LeaveAssigned(p)
  BY Zenon, <1>1, <1>2, ClearInvalidType DEF TypeOK, LeaveAssigned, LeaveExpiry, Without
<1>3. CASE Live /\ assigned[p] = Unassigned /\ LeaveUnassigned(p)
  BY <1>3, ClearInvalidType DEF TypeOK, LeaveUnassigned, LeaveExpiry
<1>4. CASE ~Live /\ UNCHANGED <<subVars, shares>>
  BY <1>4 DEF TypeOK, LeaveExpiry, subVars
<1>5. QED
  BY <1>2, <1>3, <1>4 DEF LeaveSub

(***************************************************************************)
(* Type correctness.                                                       *)
(***************************************************************************)

\* The initial state of a room is well typed.
LEMMA InitTypeInv == Init => TypeInv
<1> SUFFICES ASSUME Init PROVE TypeInv
  OBVIOUS
<1>1. Default \in SubRoom
  BY MaxSubRoomAssumption DEF SubRoom, Default
<1>2. TypeOK
  BY Zenon, <1>1 DEF Init, TypeOK, Stage, KickStage
<1>3. TargetsKnown
  BY DEF Init, TargetsKnown, Evicting
<1>4. QED
  BY <1>2, <1>3 DEF TypeInv

\* Every step of a join (join_voice, evict_stale_session, ensure_active_room)
\* keeps the types.
LEMMA JoinTypeInv ==
    ASSUME TypeInv, NEW p \in Peer, Join(p)
    PROVE  TypeInv'
<1> USE DEF TypeInv
<1>1. CASE \E b \in BOOLEAN : JoinEnsure(p, b)
  BY <1>1 DEF JoinEnsure, GoTo, TypeOK, TargetsKnown, Stage, Evicting
<1>2. CASE JoinFindStale(p)
  BY <1>2 DEF JoinFindStale, GoTo, roomVars, subVars, TypeOK, TargetsKnown, Stage, Evicting
<1>3. CASE EvictShare(p)
  BY <1>3 DEF EvictShare, GoTo, subVars, joinVars, TypeOK, TargetsKnown, Stage, Evicting
<1>4. CASE EvictPeer(p)
  BY <1>4 DEF EvictPeer, GoTo, subVars, joinVars, TypeOK, TargetsKnown, Stage, Evicting
<1>5. CASE EvictList(p)
  BY <1>5 DEF EvictList, GoTo, subVars, joinVars, TypeOK, TargetsKnown, Stage, Evicting
<1>6. CASE EvictSub(p)
  <2>1. victim[p] \in Peer
    BY <1>6 DEF EvictSub, TargetsKnown, Evicting
  <2>2. QED
    BY <1>6, <2>1, LeaveSubType DEF EvictSub, GoTo, TypeOK, TargetsKnown, Stage, Evicting
<1>7. ASSUME JoinFails(p) PROVE TypeInv'
  BY <1>7 DEF JoinFails, GoTo, subVars, TypeOK, TargetsKnown, Stage, Evicting
<1>8. CASE JoinSfuError(p)
  BY <1>7, <1>8 DEF JoinSfuError
<1>9. CASE JoinRoomFull(p)
  BY <1>7, <1>9 DEF JoinRoomFull
<1>10. CASE JoinAdd(p)
  BY <1>10 DEF JoinAdd, GoTo, subVars, joinVars, TypeOK, TargetsKnown, Stage, Evicting
<1>11. CASE JoinPush(p)
  BY <1>11 DEF JoinPush, GoTo, subVars, joinVars, TypeOK, TargetsKnown, Stage, Evicting
<1>12. CASE JoinSync(p)
  <2>1. /\ members' \in [SubRoom -> SUBSET Peer]
        /\ deleteAt' \in [SubRoom -> Deadline \cup {NoDeadline}]
        /\ assigned' \in [Peer -> SubRoom \cup {Unassigned}]
        /\ source' \in [Peer -> {"none", "explicit", "legacy"}]
        /\ passthrough' \subseteq SubRoom
    <3>1. Default \in SubRoom
      BY MaxSubRoomAssumption DEF SubRoom, Default
    <3>2. CASE Live /\ SyncModern(p)
      BY <1>12, <3>2, ClearInvalidType DEF JoinSync, SyncModern, TypeOK
    <3>3. CASE Live /\ SyncLegacy(p)
      BY <1>12, <3>1, <3>3, ClearInvalidType DEF JoinSync, SyncLegacy, TypeOK
    <3>4. CASE ~Live
      BY <1>12, <3>4 DEF JoinSync, TypeOK
    <3>5. QED
      BY <1>12, <3>2, <3>3, <3>4 DEF JoinSync
  <2>2. QED
    BY Zenon, <1>12, <2>1 DEF JoinSync, GoTo, roomVars, TypeOK, TargetsKnown, Stage, Evicting
<1>13. QED
  BY Zenon, <1>1, <1>2, <1>3, <1>4, <1>5, <1>6, <1>8, <1>9, <1>10, <1>11, <1>12 DEF Join

\* Every message of a joined connection keeps the types.
LEMMA MessageTypeInv ==
    ASSUME TypeInv, NEW p \in Peer, Message(p)
    PROVE  TypeInv'
<1> USE DEF TypeInv
<1>1. CASE \E n \in SubRoom : CreateSubRoom(p, n)
  BY <1>1, ClearInvalidType, DeleteAfterAssumption
     DEF CreateSubRoom, roomVars, joinVars, TypeOK, TargetsKnown, Expiry, Deadline
<1>2. CASE \E r \in SubRoom : JoinSubRoom(p, r)
  <2> PICK r \in SubRoom : JoinSubRoom(p, r)
    BY <1>2
  <2>1. members' \in [SubRoom -> SUBSET Peer]
    BY DEF JoinSubRoom, Moved, TypeOK
  <2>2. /\ deleteAt' \in [SubRoom -> Deadline \cup {NoDeadline}]
        /\ timers' \subseteq Expiry
    BY HelperTypes DEF JoinSubRoom, TypeOK
  <2>3. QED
    BY Zenon, <2>1, <2>2, ClearInvalidType DEF JoinSubRoom, roomVars, joinVars, TypeOK, TargetsKnown
<1>3. CASE \E r \in SubRoom : SetPassthrough(p, r)
  BY <1>3 DEF SetPassthrough, Pairs, roomVars, joinVars, TypeOK, TargetsKnown
<1>4. CASE LeaveSubRoom(p)
  BY <1>4, LeaveSubType DEF LeaveSubRoom, joinVars, TypeOK, TargetsKnown
<1>5. CASE ClearPassthrough(p)
  BY <1>5 DEF ClearPassthrough, roomVars, joinVars, TypeOK, TargetsKnown
<1>6. CASE SetPassthroughEnabled(p)
  BY <1>6 DEF SetPassthroughEnabled, roomVars, joinVars, TypeOK, TargetsKnown
<1>7. CASE StartShare(p)
  BY <1>7 DEF StartShare, subVars, joinVars, TypeOK, TargetsKnown
<1>8. CASE StopAllShares(p)
  BY <1>8 DEF StopAllShares, subVars, joinVars, TypeOK, TargetsKnown
<1>9. CASE \E t \in Peer : StopShare(p, t)
  BY <1>9 DEF StopShare, subVars, joinVars, TypeOK, TargetsKnown
<1>10. QED
  BY ZenonT(30), <1>1, <1>2, <1>3, <1>4, <1>5, <1>6, <1>7, <1>8, <1>9 DEF Message

\* leave_room keeps the types.
LEMMA QuitTypeInv ==
    ASSUME TypeInv, NEW p \in Peer, Quit(p)
    PROVE  TypeInv'
<1> USE DEF TypeInv
<1>1. CASE QuitStart(p)
  BY <1>1 DEF QuitStart, GoTo, subVars, joinVars, TypeOK, TargetsKnown, Stage, Evicting
<1>2. CASE CloseUnjoined(p)
  BY <1>2 DEF CloseUnjoined, GoTo, roomVars, subVars, joinVars, TypeOK, TargetsKnown, Stage,
              Evicting
<1>3. CASE QuitShare(p)
  BY <1>3 DEF QuitShare, GoTo, subVars, joinVars, TypeOK, TargetsKnown, Stage, Evicting
<1>4. CASE QuitPeer(p)
  BY <1>4 DEF QuitPeer, RemovePeer, GoTo, subVars, joinVars, TypeOK, TargetsKnown, Stage,
              Evicting
<1>5. CASE QuitList(p)
  BY Zenon, <1>5 DEF QuitList, GoTo, subVars, joinVars, TypeOK, TargetsKnown, Stage, Evicting
<1>6. CASE QuitSub(p)
  BY <1>6, LeaveSubType DEF QuitSub, GoTo, joinVars, TypeOK, TargetsKnown, Stage, Evicting
<1>7. QED
  BY Zenon, <1>1, <1>2, <1>3, <1>4, <1>5, <1>6 DEF Quit, QuitRest

\* handle_kick, and what its two callers do after it, keep the types.
LEMMA KickTypeInv ==
    ASSUME TypeInv, NEW m \in Mod, Kick(m)
    PROVE  TypeInv'
<1> USE DEF TypeInv
<1>1. CASE \E t \in Peer : KickStart(m, t)
  BY <1>1 DEF KickStart, roomVars, subVars, joinVars, TypeOK, TargetsKnown, KickStage
<1>2. CASE KickPeer(m)
  BY <1>2 DEF KickPeer, RemovePeer, subVars, joinVars, TypeOK, TargetsKnown, KickStage
<1>3. CASE KickList(m)
  BY <1>3 DEF KickList, subVars, joinVars, TypeOK, TargetsKnown, KickStage
<1>4. CASE KickCount(m)
  BY <1>4 DEF KickCount, roomVars, subVars, joinVars, TypeOK, TargetsKnown, KickStage
<1>5. CASE KickDropRoom(m)
  BY ZenonT(30), <1>5 DEF KickDropRoom, subVars, joinVars, TypeOK, TargetsKnown, KickStage
<1>6. CASE KickSub(m)
  <2>1. kick[m].target \in Peer
    BY <1>6 DEF KickSub, TargetsKnown
  <2>2. QED
    BY <1>6, <2>1, LeaveSubType DEF KickSub, joinVars, TypeOK, TargetsKnown, KickStage
<1>7. QED
  BY ZenonT(30), <1>1, <1>2, <1>3, <1>4, <1>5, <1>6 DEF Kick, KickRest

\* The passage of time keeps the types.
LEMMA AgedType ==
    ASSUME NEW expiries \in SUBSET Expiry
    PROVE  Aged(expiries) \in SUBSET Expiry
BY DeleteAfterAssumption DEF Aged, Elapsed, Expiry, Deadline

LEMMA TimerTypeInv ==
    ASSUME TypeInv, Tick \/ \E r \in SubRoom : ExpireSubRoom(r)
    PROVE  TypeInv'
<1> USE DEF TypeInv
<1>1. CASE Tick
  <2>1. deleteAt' \in [SubRoom -> Deadline \cup {NoDeadline}]
    BY <1>1, DeleteAfterAssumption DEF Tick, Elapsed, TypeOK, Deadline, NoDeadline
  <2>2. QED
    BY <1>1, <2>1, AgedType DEF Tick, roomVars, TypeOK, TargetsKnown
<1>2. CASE \E r \in SubRoom : ExpireSubRoom(r)
  BY <1>2, ClearInvalidType
     DEF ExpireSubRoom, roomVars, joinVars, TypeOK, TargetsKnown, NoDeadline
<1>3. QED
  BY <1>1, <1>2

LEMMA NextTypeInv == TypeInv /\ [Next]_vars => TypeInv'
<1> SUFFICES ASSUME TypeInv, [Next]_vars PROVE TypeInv'
  OBVIOUS
<1>1. CASE UNCHANGED vars
  BY <1>1 DEF vars, roomVars, subVars, joinVars, TypeInv, TypeOK, TargetsKnown
<1>2. CASE Next
  BY <1>2, JoinTypeInv, MessageTypeInv, QuitTypeInv, KickTypeInv, TimerTypeInv DEF Next
<1>3. QED
  BY <1>1, <1>2

\* Every variable of the room keeps its type, and an eviction or a kick always
\* has a target: no step of join_voice, leave_room or handle_kick looks up the
\* sub-room of a participant that does not exist.
THEOREM TypeCorrect == Spec => [](TypeOK /\ TargetsKnown)
<1>1. Spec => []TypeInv
  BY InitTypeInv, NextTypeInv, PTL DEF Spec
<1>2. QED
  BY <1>1, PTL DEF TypeInv

(***************************************************************************)
(* The sub-rooms: the assignment index and the participant lists, the      *)
(* deletion deadlines and the passthrough pair.  The three invariants are  *)
(* inductive once it is known that a connection still on its way in has no *)
(* sub-room: sync_sub_room_state_on_voice_join takes it off every list     *)
(* without looking at the deadlines.                                       *)
(***************************************************************************)
Joining == {"idle", "find", "add", "push", "sync"} \cup Evicting

JoiningUnassigned == \A p \in Peer : pc[p] \in Joining => assigned[p] = Unassigned

SubRoomInv ==
    AssignmentsAgree /\ DeadlineIffEmpty /\ PassthroughValid /\ JoiningUnassigned

\* A new room has ROOM 1, empty, and nothing else.
LEMMA InitSubRoomInv == Init => SubRoomInv
BY MaxSubRoomAssumption
   DEF Init, SubRoomInv, AssignmentsAgree, DeadlineIffEmpty, PassthroughValid,
       JoiningUnassigned, SubRoom, Default, Unassigned, NoDeadline

\* A step that leaves the sub-rooms alone and starts no join keeps the invariant.
LEMMA SubRoomsUntouched ==
    ASSUME SubRoomInv,
           UNCHANGED <<subRooms, members, deleteAt, assigned, source, passthrough>>,
           \A p \in Peer : pc'[p] \in Joining => pc[p] \in Joining
    PROVE  SubRoomInv'
BY DEF SubRoomInv, AssignmentsAgree, DeadlineIffEmpty, PassthroughValid, JoiningUnassigned,
       Pairs

\* leave_sub_room keeps the invariant's three public parts, and only ever takes
\* a sub-room away from a participant.
LEMMA LeaveSubInv ==
    ASSUME TypeOK, SubRoomInv, NEW p \in Peer, LeaveSub(p)
    PROVE  /\ AssignmentsAgree' /\ DeadlineIffEmpty' /\ PassthroughValid'
           /\ \A q \in Peer : assigned[q] = Unassigned => assigned'[q] = Unassigned
<1> USE DEF SubRoomInv
<1>1. CASE Live /\ assigned[p] # Unassigned /\ LeaveAssigned(p)
  <2> DEFINE r == assigned[p]
  <2>1. r \in SubRoom /\ r \in subRooms
    BY <1>1 DEF TypeOK, AssignmentsAgree
  <2>2. /\ members' = [members EXCEPT ![r] = @ \ {p}]
        /\ deleteAt' = [deleteAt EXCEPT ![r] = EmptyDeadline(r, members[r] \ {p})]
        /\ assigned' = [assigned EXCEPT ![p] = Unassigned]
        /\ source' = [source EXCEPT ![p] = "none"]
        /\ passthrough' = ClearInvalid(passthrough, subRooms)
        /\ subRooms' = subRooms
    BY Zenon, <1>1 DEF LeaveAssigned, Without
  <2> HIDE DEF r
  <2>3. AssignmentsAgree'
    <3>1. \A q \in Peer, s \in SubRoom : q \in members'[s] <=> assigned'[q] = s
      BY <2>1, <2>2 DEF r, TypeOK, AssignmentsAgree, SubRoom, Unassigned
    <3>2. \A s \in SubRoom \ subRooms' : members'[s] = {}
      BY <2>1, <2>2 DEF TypeOK, AssignmentsAgree
    <3>3. \A q \in Peer : source'[q] = "none" <=> assigned'[q] = Unassigned
      BY <2>2 DEF TypeOK, AssignmentsAgree
    <3>4. QED
      BY <3>1, <3>2, <3>3 DEF AssignmentsAgree
  <2>4. DeadlineIffEmpty'
    <3>1. EmptyDeadline(r, members[r] \ {p}) # NoDeadline
              <=> r # Default /\ members[r] \ {p} = {}
      BY DeleteAfterAssumption DEF EmptyDeadline, NoDeadline
    <3>2. QED
      BY <2>1, <2>2, <3>1 DEF TypeOK, DeadlineIffEmpty
  <2>5. PassthroughValid'
    BY <2>2, ClearInvalidType DEF TypeOK, PassthroughValid
  <2>6. QED
    BY Zenon, <2>2, <2>3, <2>4, <2>5 DEF TypeOK
<1>2. CASE Live /\ assigned[p] = Unassigned /\ LeaveUnassigned(p)
  <2>1. AssignmentsAgree' /\ DeadlineIffEmpty'
    BY <1>2 DEF LeaveUnassigned, TypeOK, AssignmentsAgree, DeadlineIffEmpty
  <2>2. PassthroughValid'
    BY <1>2, ClearInvalidType DEF LeaveUnassigned, TypeOK, PassthroughValid
  <2>3. QED
    BY <1>2, <2>1, <2>2 DEF LeaveUnassigned
<1>3. CASE ~Live /\ UNCHANGED <<subVars, shares>>
  BY <1>3 DEF subVars, AssignmentsAgree, DeadlineIffEmpty, PassthroughValid, Pairs
<1>4. QED
  BY <1>1, <1>2, <1>3 DEF LeaveSub

\* Placing a joined connection in its sub-room keeps the invariant: a modern
\* client starts in none, a legacy client in ROOM 1.
LEMMA JoinSyncInv ==
    ASSUME TypeInv, SubRoomInv, NEW p \in Peer, JoinSync(p)
    PROVE  SubRoomInv'
<1> USE DEF TypeInv, SubRoomInv
<1>1. assigned[p] = Unassigned /\ \A r \in SubRoom : p \notin members[r]
  BY DEF JoinSync, JoiningUnassigned, Joining, TypeOK, AssignmentsAgree, SubRoom, Unassigned
<1>2. JoiningUnassigned'
  BY DEF JoinSync, SyncModern, SyncLegacy, GoTo, TypeOK, JoiningUnassigned, Joining, Evicting
<1>3. CASE Live /\ SyncModern(p)
  <2>1. members' = members /\ assigned' = assigned
    BY <1>1, <1>3 DEF SyncModern, TypeOK
  <2>2. AssignmentsAgree' /\ DeadlineIffEmpty'
    BY SMTT(30), <1>1, <1>3, <2>1 DEF JoinSync, SyncModern, TypeOK, AssignmentsAgree, DeadlineIffEmpty
  <2>3. PassthroughValid'
    BY <1>3, ClearInvalidType DEF JoinSync, TypeOK, PassthroughValid
  <2>4. QED
    BY <1>2, <2>2, <2>3
<1>4. CASE Live /\ SyncLegacy(p)
  <2>1. Default \in SubRoom /\ Default # Unassigned
    BY SMTT(30), MaxSubRoomAssumption DEF SubRoom, Default, Unassigned
  <2>2. AssignmentsAgree'
    <3>1. \A q \in Peer, s \in SubRoom : q \in members'[s] <=> assigned'[q] = s
      BY SMTT(30), <1>1, <1>4, <2>1 DEF SyncLegacy, TypeOK, AssignmentsAgree
    <3>2. \A s \in SubRoom \ subRooms' : members'[s] = {}
      BY <1>4, <2>1 DEF JoinSync, SyncLegacy, TypeOK, AssignmentsAgree, DeadlineIffEmpty
    <3>3. \A q \in Peer : source'[q] = "none" <=> assigned'[q] = Unassigned
      BY <1>4, <2>1 DEF SyncLegacy, TypeOK, AssignmentsAgree
    <3>4. QED
      BY Zenon, <3>1, <3>2, <3>3 DEF AssignmentsAgree
  <2>3. DeadlineIffEmpty'
    BY Zenon, <1>4, <2>1 DEF JoinSync, SyncLegacy, TypeOK, DeadlineIffEmpty
  <2>4. PassthroughValid'
    BY SMTT(30), <1>4, ClearInvalidType DEF JoinSync, TypeOK, PassthroughValid
  <2>5. QED
    BY <1>2, <2>2, <2>3, <2>4
<1>5. CASE ~Live
  <2>1. UNCHANGED <<members, deleteAt, assigned, source, passthrough>> /\ UNCHANGED subRooms
    BY Zenon, <1>5 DEF JoinSync
  <2>2. AssignmentsAgree'
    BY Zenon, <2>1 DEF AssignmentsAgree
  <2>3. DeadlineIffEmpty'
    BY Zenon, <2>1 DEF DeadlineIffEmpty
  <2>4. PassthroughValid'
    BY Zenon, <2>1 DEF PassthroughValid
  <2>5. QED
    BY Zenon, <1>2, <2>2, <2>3, <2>4
<1>6. QED
  BY Zenon, <1>3, <1>4, <1>5 DEF JoinSync

\* The steps of join_voice keep the sub-rooms in order.
LEMMA JoinSubRoomInv ==
    ASSUME TypeInv, SubRoomInv, NEW p \in Peer, Join(p)
    PROVE  SubRoomInv'
<1> USE DEF TypeInv
<1>1. CASE \E b \in BOOLEAN : JoinEnsure(p, b)
  BY <1>1, SubRoomsUntouched DEF JoinEnsure, GoTo, TypeOK, Joining
<1>2. CASE JoinFindStale(p)
  BY <1>2, SubRoomsUntouched DEF JoinFindStale, GoTo, subVars, TypeOK, Joining
<1>3. CASE EvictShare(p)
  BY <1>3, SubRoomsUntouched DEF EvictShare, GoTo, subVars, TypeOK, Joining, Evicting
<1>4. CASE EvictPeer(p)
  BY <1>4, SubRoomsUntouched DEF EvictPeer, GoTo, subVars, TypeOK, Joining, Evicting
<1>5. CASE EvictList(p)
  BY <1>5, SubRoomsUntouched DEF EvictList, GoTo, subVars, TypeOK, Joining, Evicting
<1>6. CASE EvictSub(p)
  <2>1. victim[p] \in Peer
    BY <1>6 DEF EvictSub, TargetsKnown, Evicting
  <2>2. /\ AssignmentsAgree' /\ DeadlineIffEmpty' /\ PassthroughValid'
        /\ \A q \in Peer : assigned[q] = Unassigned => assigned'[q] = Unassigned
    BY ZenonT(30), <1>6, <2>1, LeaveSubInv DEF EvictSub
  <2>3. JoiningUnassigned'
    BY Zenon, <1>6, <2>2 DEF EvictSub, GoTo, TypeOK, SubRoomInv, JoiningUnassigned, Joining, Evicting
  <2>4. QED
    BY ZenonT(30), <2>2, <2>3 DEF SubRoomInv
<1>7. CASE JoinSfuError(p)
  BY <1>7, SubRoomsUntouched DEF JoinSfuError, JoinFails, GoTo, subVars, TypeOK, Joining
<1>8. CASE JoinRoomFull(p)
  BY Zenon, <1>8, SubRoomsUntouched DEF JoinRoomFull, JoinFails, GoTo, subVars, TypeOK, Joining
<1>9. CASE JoinAdd(p)
  BY Zenon, <1>9, SubRoomsUntouched DEF JoinAdd, GoTo, subVars, TypeOK, Joining
<1>10. CASE JoinPush(p)
  BY <1>10, SubRoomsUntouched DEF JoinPush, GoTo, subVars, TypeOK, Joining
<1>11. CASE JoinSync(p)
  BY <1>11, JoinSyncInv
<1>12. QED
  BY ZenonT(30), <1>1, <1>2, <1>3, <1>4, <1>5, <1>6, <1>7, <1>8, <1>9, <1>10, <1>11 DEF Join

\* create_sub_room: the number is fresh, so its list is empty and it gets a
\* deadline.
LEMMA CreateSubRoomInv ==
    ASSUME TypeInv, SubRoomInv, NEW p \in Peer, NEW n \in SubRoom, CreateSubRoom(p, n)
    PROVE  SubRoomInv'
<1> USE DEF TypeInv, SubRoomInv
<1>1. n \notin subRooms /\ members[n] = {}
  BY SMTT(30) DEF CreateSubRoom, TypeOK, AssignmentsAgree, SubRoom
<1>2. AssignmentsAgree' /\ JoiningUnassigned'
  BY Zenon DEF CreateSubRoom, AssignmentsAgree, JoiningUnassigned
<1>3. DeadlineIffEmpty'
  <2>1. n # Default /\ DeleteAfter # NoDeadline
    BY <1>1, DeleteAfterAssumption DEF DeadlineIffEmpty, NoDeadline
  <2>2. QED
    BY <1>1, <2>1 DEF CreateSubRoom, TypeOK, DeadlineIffEmpty
<1>4. PassthroughValid'
  <2>1. passthrough' = {} \/ passthrough' \in Pairs(subRooms)
    BY ClearInvalidType DEF CreateSubRoom, TypeOK
  <2>2. QED
    BY <2>1 DEF CreateSubRoom, PassthroughValid, Pairs
<1>5. QED
  BY <1>2, <1>3, <1>4

\* join_sub_room: the participant leaves one list and enters the other, and the
\* two deadlines follow.
LEMMA MoveSubRoomInv ==
    ASSUME TypeInv, SubRoomInv, NEW p \in Peer, NEW r \in SubRoom, JoinSubRoom(p, r)
    PROVE  SubRoomInv'
<1> USE DEF TypeInv, SubRoomInv
<1> DEFINE o == assigned[p]
<1>1. /\ o # r /\ r \in subRooms
      /\ members' = Moved(p, o, r)
      /\ deleteAt' = [s \in SubRoom |-> IF s = r THEN NoDeadline
                                        ELSE IF s = o THEN EmptyDeadline(o, members[o] \ {p})
                                        ELSE deleteAt[s]]
      /\ assigned' = [assigned EXCEPT ![p] = r]
      /\ source' = [source EXCEPT ![p] = "explicit"]
      /\ subRooms' = subRooms /\ pc' = pc
      /\ passthrough' = ClearInvalid(passthrough, subRooms)
  BY Zenon DEF JoinSubRoom
<1>2. o # Unassigned => o \in SubRoom /\ o \in subRooms
  BY SMTT(30) DEF TypeOK, AssignmentsAgree
<1>3. \A s \in SubRoom : s # o => p \notin members[s]
  BY Zenon DEF AssignmentsAgree
<1> HIDE DEF o
<1>4. \A s \in SubRoom : members'[s] = IF s = r THEN members[s] \cup {p}
                                        ELSE members[s] \ {p}
  BY ZenonT(30), <1>1, <1>3 DEF Moved, TypeOK
<1>5. AssignmentsAgree'
  <2>1. ASSUME NEW q \in Peer, NEW s \in SubRoom
        PROVE  q \in members'[s] <=> assigned'[q] = s
    <3>1. q \in members[s] <=> assigned[q] = s
      BY Zenon DEF AssignmentsAgree
    <3>2. assigned'[q] = IF q = p THEN r ELSE assigned[q]
      BY <1>1 DEF TypeOK
    <3>3. members'[s] = IF s = r THEN members[s] \cup {p} ELSE members[s] \ {p}
      BY Zenon, <1>4
    <3>4. CASE s = r
      BY ZenonT(30), <3>1, <3>2, <3>3, <3>4
    <3>5. CASE s # r
      BY <3>1, <3>2, <3>3, <3>5
    <3>6. QED
      BY <3>4, <3>5
  <2>2. \A s \in SubRoom \ subRooms' : members'[s] = {}
    BY ZenonT(30), <1>1, <1>4 DEF AssignmentsAgree
  <2>3. \A q \in Peer : source'[q] = "none" <=> assigned'[q] = Unassigned
    BY <1>1 DEF TypeOK, AssignmentsAgree, SubRoom, Unassigned
  <2>4. QED
    BY ZenonT(60), <2>1, <2>2, <2>3 DEF AssignmentsAgree
<1>6. DeadlineIffEmpty'
  <2>1. ASSUME NEW s \in SubRoom
        PROVE  deleteAt'[s] # NoDeadline <=> s \in subRooms \ {Default} /\ members'[s] = {}
    <3>1. CASE s = r
      BY Zenon, <1>1, <1>4, <3>1
    <3>2. CASE s = o /\ s # r
      <4>1. deleteAt'[s] = EmptyDeadline(s, members'[s])
        BY Zenon, <1>1, <1>4, <3>2
      <4>2. s \in subRooms
        BY SMTT(30), <1>2, <3>2 DEF SubRoom, Unassigned
      <4>3. QED
        BY <4>1, <4>2, DeleteAfterAssumption DEF EmptyDeadline, NoDeadline
    <3>3. CASE s # o /\ s # r
      <4>1. members[s] \ {p} = members[s]
        BY <1>3, <3>3
      <4>2. members'[s] = members[s] /\ deleteAt'[s] = deleteAt[s]
        BY Zenon, <1>1, <1>4, <3>3, <4>1
      <4>3. QED
        BY <4>2 DEF DeadlineIffEmpty
    <3>4. QED
      BY Zenon, <3>1, <3>2, <3>3
  <2>2. QED
    BY Zenon, <1>1, <2>1 DEF DeadlineIffEmpty
<1>7. PassthroughValid'
  BY <1>1, ClearInvalidType DEF TypeOK, PassthroughValid
<1>8. JoiningUnassigned'
  BY ZenonT(60), <1>1 DEF JoinSubRoom, TypeOK, JoiningUnassigned, Joining, Evicting
<1>9. QED
  BY <1>5, <1>6, <1>7, <1>8

\* So do the messages of a joined connection,
LEMMA MessageSubRoomInv ==
    ASSUME TypeInv, SubRoomInv, NEW p \in Peer, Message(p)
    PROVE  SubRoomInv'
<1> USE DEF TypeInv
<1>1. CASE \E n \in SubRoom : CreateSubRoom(p, n)
  BY <1>1, CreateSubRoomInv
<1>2. CASE \E r \in SubRoom : JoinSubRoom(p, r)
  BY <1>2, MoveSubRoomInv
<1>3. CASE \E r \in SubRoom : SetPassthrough(p, r)
  <2> PICK r \in SubRoom : SetPassthrough(p, r)
    BY ZenonT(30), <1>3
  <2>1. AssignmentsAgree' /\ DeadlineIffEmpty' /\ JoiningUnassigned'
    BY DEF SetPassthrough, SubRoomInv, AssignmentsAgree, DeadlineIffEmpty, JoiningUnassigned
  <2>2. subRooms' = subRooms /\ passthrough' \in Pairs(subRooms)
    BY ZenonT(30) DEF SetPassthrough
  <2>3. QED
    BY <2>1, <2>2 DEF SubRoomInv, PassthroughValid
<1>4. CASE LeaveSubRoom(p)
  <2>1. /\ AssignmentsAgree' /\ DeadlineIffEmpty' /\ PassthroughValid'
        /\ \A q \in Peer : assigned[q] = Unassigned => assigned'[q] = Unassigned
    BY ZenonT(30), <1>4, LeaveSubInv DEF LeaveSubRoom
  <2>2. QED
    BY Zenon, <1>4, <2>1 DEF LeaveSubRoom, SubRoomInv, JoiningUnassigned
<1>5. CASE ClearPassthrough(p)
  BY Zenon, <1>5 DEF ClearPassthrough, SubRoomInv, AssignmentsAgree, DeadlineIffEmpty,
              PassthroughValid, JoiningUnassigned
<1>6. CASE SetPassthroughEnabled(p)
  BY Zenon, <1>6, SubRoomsUntouched DEF SetPassthroughEnabled
<1>7. CASE StartShare(p) \/ StopAllShares(p) \/ \E t \in Peer : StopShare(p, t)
  BY Zenon, <1>7, SubRoomsUntouched DEF StartShare, StopAllShares, StopShare, subVars
<1>8. QED
  BY <1>1, <1>2, <1>3, <1>4, <1>5, <1>6, <1>7 DEF Message

\* leaving,
LEMMA QuitSubRoomInv ==
    ASSUME TypeInv, SubRoomInv, NEW p \in Peer, Quit(p)
    PROVE  SubRoomInv'
<1> USE DEF TypeInv
<1>1. CASE QuitStart(p) \/ CloseUnjoined(p)
  BY ZenonT(30), <1>1, SubRoomsUntouched DEF QuitStart, CloseUnjoined, GoTo, subVars, TypeOK, Joining,
                                 Evicting
<1>2. CASE QuitShare(p) \/ QuitPeer(p) \/ QuitList(p)
  BY ZenonT(30), <1>2, SubRoomsUntouched DEF QuitShare, QuitPeer, QuitList, GoTo, subVars, TypeOK,
                                 Joining, Evicting
<1>3. CASE QuitSub(p)
  <2>1. /\ AssignmentsAgree' /\ DeadlineIffEmpty' /\ PassthroughValid'
        /\ \A q \in Peer : assigned[q] = Unassigned => assigned'[q] = Unassigned
    BY Zenon, <1>3, LeaveSubInv DEF QuitSub
  <2>2. JoiningUnassigned'
    BY <1>3, <2>1 DEF QuitSub, GoTo, TypeOK, SubRoomInv, JoiningUnassigned, Joining, Evicting
  <2>3. QED
    BY Zenon, <2>1, <2>2 DEF SubRoomInv
<1>4. QED
  BY Zenon, <1>1, <1>2, <1>3 DEF Quit, QuitRest

\* and being kicked.
LEMMA KickSubRoomInv ==
    ASSUME TypeInv, SubRoomInv, NEW m \in Mod, Kick(m)
    PROVE  SubRoomInv'
<1> USE DEF TypeInv
<1>1. CASE \E t \in Peer : KickStart(m, t)
  BY <1>1, SubRoomsUntouched DEF KickStart, subVars
<1>2. CASE KickPeer(m) \/ KickList(m) \/ KickCount(m) \/ KickDropRoom(m)
  BY Zenon, <1>2, SubRoomsUntouched DEF KickPeer, KickList, KickCount, KickDropRoom, subVars
<1>3. CASE KickSub(m)
  <2>1. kick[m].target \in Peer
    BY ZenonT(30), <1>3 DEF KickSub, TargetsKnown
  <2>2. /\ AssignmentsAgree' /\ DeadlineIffEmpty' /\ PassthroughValid'
        /\ \A q \in Peer : assigned[q] = Unassigned => assigned'[q] = Unassigned
    BY Zenon, <1>3, <2>1, LeaveSubInv DEF KickSub
  <2>3. QED
    BY Zenon, <1>3, <2>2 DEF KickSub, SubRoomInv, JoiningUnassigned
<1>4. QED
  BY <1>1, <1>2, <1>3 DEF Kick, KickRest

\* Time never clears a deadline, and expire_sub_room only takes away a
\* sub-room that nobody is assigned to.
LEMMA TimerSubRoomInv ==
    ASSUME TypeInv, SubRoomInv, Tick \/ \E r \in SubRoom : ExpireSubRoom(r)
    PROVE  SubRoomInv'
<1> USE DEF TypeInv, SubRoomInv
<1>1. CASE Tick
  <2>1. \A r \in SubRoom : deleteAt'[r] # NoDeadline <=> deleteAt[r] # NoDeadline
    <3>1. ASSUME NEW d \in Deadline \cup {NoDeadline}
          PROVE  Elapsed(d) # NoDeadline <=> d # NoDeadline
      BY <3>1, DeleteAfterAssumption DEF Elapsed, Deadline, NoDeadline
    <3>2. QED
      BY <1>1, <3>1 DEF Tick, TypeOK
  <2>2. QED
    BY ZenonT(30), <1>1, <2>1 DEF Tick, AssignmentsAgree, DeadlineIffEmpty, PassthroughValid,
                      JoiningUnassigned, Pairs
<1>2. CASE \E r \in SubRoom : ExpireSubRoom(r)
  <2> PICK r \in SubRoom : ExpireSubRoom(r)
    BY <1>2
  <2>1. CASE Expires(r)
    <3>1. AssignmentsAgree' /\ JoiningUnassigned'
      BY Zenon, <2>1 DEF ExpireSubRoom, Expires, AssignmentsAgree, JoiningUnassigned
    <3>2. DeadlineIffEmpty'
      BY ZenonT(30), <2>1 DEF ExpireSubRoom, Expires, TypeOK, DeadlineIffEmpty
    <3>3. PassthroughValid'
      <4>1. /\ subRooms' = subRooms \ {r} /\ subRooms' \in SUBSET SubRoom
            /\ passthrough' = ClearInvalid(passthrough, subRooms')
        BY Zenon, <2>1 DEF ExpireSubRoom, TypeOK
      <4>2. QED
        BY <4>1, ClearInvalidType DEF PassthroughValid
    <3>4. QED
      BY Zenon, <3>1, <3>2, <3>3
  <2>2. CASE ~Expires(r)
    <3>1. AssignmentsAgree' /\ DeadlineIffEmpty' /\ JoiningUnassigned'
      BY Zenon, <2>2 DEF ExpireSubRoom, AssignmentsAgree, DeadlineIffEmpty, JoiningUnassigned
    <3>2. /\ subRooms' = subRooms
          /\ passthrough' = passthrough \/ passthrough' = ClearInvalid(passthrough, subRooms)
      BY Zenon, <2>2 DEF ExpireSubRoom
    <3>3. PassthroughValid'
      BY <3>2, ClearInvalidType DEF TypeOK, PassthroughValid
    <3>4. QED
      BY <3>1, <3>3
  <2>3. QED
    BY <2>1, <2>2
<1>3. QED
  BY Zenon, <1>1, <1>2

\* Every step keeps the sub-rooms in order.
LEMMA NextSubRoomInv == TypeInv /\ SubRoomInv /\ [Next]_vars => SubRoomInv'
<1> SUFFICES ASSUME TypeInv, SubRoomInv, [Next]_vars PROVE SubRoomInv'
  OBVIOUS
<1>1. CASE UNCHANGED vars
  BY <1>1, SubRoomsUntouched DEF vars, subVars
<1>2. CASE Next
  BY Zenon, <1>2, JoinSubRoomInv, MessageSubRoomInv, QuitSubRoomInv, KickSubRoomInv,
     TimerSubRoomInv DEF Next
<1>3. QED
  BY <1>1, <1>2

\* However joins, moves, leaves, kicks, evictions and expiries interleave, the
\* assignment index and the participant lists of the sub-rooms agree.
THEOREM AssignmentsAlwaysAgree == Spec => []AssignmentsAgree
<1>1. Spec => [](TypeInv /\ SubRoomInv)
  BY InitTypeInv, InitSubRoomInv, NextTypeInv, NextSubRoomInv, PTL DEF Spec
<1>2. QED
  BY <1>1, PTL DEF SubRoomInv

\* A sub-room has a deletion deadline exactly while it is empty and is not
\* ROOM 1, and ROOM 1 always exists.
THEOREM DeadlineAlwaysIffEmpty == Spec => []DeadlineIffEmpty
<1>1. Spec => [](TypeInv /\ SubRoomInv)
  BY InitTypeInv, InitSubRoomInv, NextTypeInv, NextSubRoomInv, PTL DEF Spec
<1>2. QED
  BY <1>1, PTL DEF SubRoomInv

\* An active passthrough pair always names two different existing sub-rooms.
THEOREM PassthroughAlwaysValid == Spec => []PassthroughValid
<1>1. Spec => [](TypeInv /\ SubRoomInv)
  BY InitTypeInv, InitSubRoomInv, NextTypeInv, NextSubRoomInv, PTL DEF Spec
<1>2. QED
  BY <1>1, PTL DEF SubRoomInv

(***************************************************************************)
(* Capacity.                                                               *)
(***************************************************************************)

\* try_add_peer_with is the only step that adds a peer, and it checks the
\* capacity in the same critical section.
LEMMA NextCapacity == TypeInv /\ CapacityRespected /\ [Next]_vars => CapacityRespected'
<1> SUFFICES ASSUME TypeInv, CapacityRespected, [Next]_vars PROVE CapacityRespected'
  OBVIOUS
<1>1. IsFiniteSet(peers) /\ Cardinality(peers) \in Nat
  BY PeerAssumption, FS_Subset, FS_CardinalityType DEF TypeInv, TypeOK
<1>2. ASSUME peers' \subseteq peers PROVE CapacityRespected'
  <2>1. Cardinality(peers') \in Nat /\ Cardinality(peers') <= Cardinality(peers)
    BY <1>1, <1>2, FS_Subset, FS_CardinalityType
  <2>2. QED
    BY <1>1, <2>1, MaxParticipantsAssumption DEF CapacityRespected
<1>3. ASSUME NEW p \in Peer, JoinAdd(p) PROVE CapacityRespected'
  <2>1. CASE p \in peers
    BY <1>2, <1>3, <2>1 DEF JoinAdd
  <2>2. CASE p \notin peers
    <3>1. peers' = peers \cup {p} /\ Cardinality(peers) < MaxParticipants
      BY <1>3, <2>2 DEF JoinAdd
    <3>2. Cardinality(peers \cup {p}) = Cardinality(peers) + 1
      BY ZenonT(30), <1>1, <2>2, FS_AddElement
    <3>3. QED
      BY <1>1, <3>1, <3>2, MaxParticipantsAssumption DEF CapacityRespected
  <2>3. QED
    BY <2>1, <2>2
<1>4. ASSUME NEW p \in Peer, Join(p), ~JoinAdd(p) PROVE peers' \subseteq peers
  BY Zenon, <1>4 DEF Join, JoinEnsure, JoinFindStale, EvictShare, EvictPeer, EvictList, EvictSub,
              JoinSfuError, JoinRoomFull, JoinFails, JoinPush, JoinSync, roomVars
<1>5. ASSUME NEW p \in Peer, Message(p) PROVE peers' = peers
  BY ZenonT(30), <1>5 DEF Message, CreateSubRoom, JoinSubRoom, SetPassthrough, LeaveSubRoom,
              ClearPassthrough, SetPassthroughEnabled, StartShare, StopAllShares, StopShare,
              roomVars
<1>6. ASSUME NEW p \in Peer, Quit(p) PROVE peers' \subseteq peers
  BY <1>6 DEF Quit, QuitRest, QuitStart, CloseUnjoined, QuitShare, QuitPeer, QuitList,
              QuitSub, RemovePeer, roomVars
<1>7. ASSUME NEW m \in Mod, Kick(m) PROVE peers' \subseteq peers
  BY Zenon, <1>7 DEF Kick, KickRest, KickStart, KickPeer, KickList, KickCount, KickDropRoom,
              KickSub, RemovePeer, roomVars
<1>8. ASSUME Tick \/ \E r \in SubRoom : ExpireSubRoom(r) PROVE peers' = peers
  BY ZenonT(30), <1>8 DEF Tick, ExpireSubRoom, roomVars
<1>9. CASE UNCHANGED vars
  BY <1>2, <1>9 DEF vars, roomVars
<1>10. QED
  BY <1>2, <1>3, <1>4, <1>5, <1>6, <1>7, <1>8, <1>9 DEF Next

\* The room never holds more than max_participants peers, however many joins
\* race for the last place.
THEOREM CapacityAlwaysRespected == Spec => []CapacityRespected
<1>1. Init => CapacityRespected
  BY FS_EmptySet, MaxParticipantsAssumption DEF Init, CapacityRespected
<1>2. QED
  BY <1>1, InitTypeInv, NextTypeInv, NextCapacity, PTL DEF Spec

(***************************************************************************)
(* Deletion.                                                               *)
(***************************************************************************)

\* A sub-room is only ever deleted while it is empty and its deadline has
\* passed, whatever timers of earlier deadlines are still around.
THEOREM DeletesOnlyWhenDue == Spec => DeletedOnlyWhenDue
<1> DEFINE Due == \A r \in subRooms \ subRooms' : members[r] = {} /\ deleteAt[r] = 0
<1>1. ASSUME NEW p \in Peer, Join(p) PROVE subRooms' = subRooms
  BY Zenon, <1>1 DEF Join, JoinEnsure, JoinFindStale, EvictShare, EvictPeer, EvictList, EvictSub,
              JoinSfuError, JoinRoomFull, JoinFails, JoinAdd, JoinPush, JoinSync, LeaveSub,
              LeaveAssigned, LeaveUnassigned, subVars
<1>2. ASSUME NEW p \in Peer, Message(p) PROVE subRooms \subseteq subRooms'
  BY ZenonT(30), <1>2 DEF Message, CreateSubRoom, JoinSubRoom, SetPassthrough, LeaveSubRoom,
              ClearPassthrough, SetPassthroughEnabled, StartShare, StopAllShares, StopShare,
              LeaveSub, LeaveAssigned, LeaveUnassigned, subVars
<1>3. ASSUME NEW p \in Peer, Quit(p) PROVE subRooms' = subRooms
  BY Zenon, <1>3 DEF Quit, QuitRest, QuitStart, CloseUnjoined, QuitShare, QuitPeer, QuitList,
              QuitSub, LeaveSub, LeaveAssigned, LeaveUnassigned, subVars
<1>4. ASSUME NEW m \in Mod, Kick(m) PROVE subRooms' = subRooms
  BY Zenon, <1>4 DEF Kick, KickRest, KickStart, KickPeer, KickList, KickCount, KickDropRoom,
              KickSub, LeaveSub, LeaveAssigned, LeaveUnassigned, subVars
<1>5. ASSUME NEW r \in SubRoom, ExpireSubRoom(r) PROVE Due
  BY ZenonT(30), <1>5 DEF ExpireSubRoom, Expires
<1>6. Next => Due
  BY Zenon, <1>1, <1>2, <1>3, <1>4, <1>5 DEF Next, Tick
<1>7. [Next]_vars => [Due]_vars
  BY ZenonT(30), <1>6
<1>8. QED
  BY <1>7, PTL DEF Spec, DeletedOnlyWhenDue

(***************************************************************************)
(* The member lists.  A connection that has not been added yet is on no    *)
(* list and nobody is removing it; a task that has taken its target off    *)
(* the peer list still has it to take off the participant list and out of  *)
(* its sub-room.                                                           *)
(***************************************************************************)
Outside == {"idle", "find", "add"} \cup Evicting

Untargeted(p) == (\A q \in Peer : victim[q] # p) /\ (\A m \in Mod : kick[m].target # p)

\* The connection has no place in the room before it is added, and is still
\* unknown to the others until it is on the participant list.
Arriving(p) ==
    /\ pc[p] \in Outside \cup {"push"} => p \notin participants /\ Untargeted(p)
    /\ pc[p] \in Joining => p \notin shares

\* Some task has still to take p off the participant list.
Delisting(p) ==
    \/ pc[p] = "quitList"
    \/ \E q \in Peer : victim[q] = p /\ pc[q] = "evictList"
    \/ \E m \in Mod : kick[m].target = p /\ kick[m].stage = "list"

\* Where p is on the lists of a room that has not gone, by the stage of its task
\* and of those that remove it.
Placed(p) ==
    /\ pc[p] \in Outside \cup {"quitList", "quitSub", "closed"} => p \notin peers
    /\ pc[p] \in {"quitSub", "closed"} => p \notin participants
    /\ pc[p] = "closed" => p \notin shares /\ assigned[p] = Unassigned
    /\ pc[p] = "push" => p \in peers
    /\ p \in peers \ participants => pc[p] = "push"
    /\ BeingRemoved(p) => p \notin peers
    /\ p \in participants \ peers => Delisting(p)
    /\ p \in shares => assigned[p] # Unassigned /\ (p \in peers \/ BeingRemoved(p))

\* Nothing is under way before the first join creates the room.
NotYet ==
    /\ timers = {}
    /\ \A p \in Peer : pc[p] \in {"idle", "closed"}
    /\ \A m \in Mod : kick[m].stage = "idle"

\* The inductive invariant of the member lists.
MemberInv ==
    /\ \A p \in Peer : Arriving(p)
    /\ status # "gone" => \A p \in Peer : Placed(p)
    /\ status = "absent" => NotYet

\* Before the first join the room is empty and no task has started.
LEMMA InitMemberInv == Init => MemberInv
BY PeerAssumption DEF Init, MemberInv, Arriving, Placed, NotYet, Untargeted, BeingRemoved,
                      Delisting

\* A step that leaves the lists and the stages of all tasks alone.
LEMMA MembersUntouched ==
    ASSUME MemberInv,
           UNCHANGED <<status, peers, participants, shares, assigned, pc, victim, kick>>,
           status = "absent" => timers' = {}
    PROVE  MemberInv'
BY ZenonT(60) DEF MemberInv, Arriving, Placed, NotYet, Untargeted, BeingRemoved, Delisting

\* A step by which task p goes from one stage to another, neither of which is
\* part of a removal.
LEMMA RemovalsKept ==
    ASSUME TypeOK, NEW p \in Peer, NEW s, GoTo(p, s),
           pc[p] \notin {"evictList", "evictSub", "quitList", "quitSub"},
           s \notin {"evictList", "evictSub", "quitList", "quitSub"},
           kick' = kick,
           \A q \in Peer \ {p} : victim'[q] = victim[q]
    PROVE  \A q \in Peer : /\ BeingRemoved(q)' <=> BeingRemoved(q)
                           /\ Delisting(q)' <=> Delisting(q)
BY ZenonT(30) DEF TypeOK, GoTo, BeingRemoved, Delisting

\* A step by which a connection that is on no list goes from one stage outside
\* the room to another; it may choose somebody on the list to evict.
LEMMA MoveKeepsMembers ==
    ASSUME TypeOK, MemberInv, NEW p \in Peer, NEW s \in Outside \ {"evictList", "evictSub"},
           GoTo(p, s),
           pc[p] \in Outside \ {"evictList", "evictSub"},
           UNCHANGED <<peers, participants, shares, assigned, kick>>,
           \/ status # "gone" /\ status' = "live"
           \/ status # "absent" /\ status' = status,
           \A q \in Peer : victim'[q] = victim[q] \/ victim'[q] \in participants,
           \A q \in Peer \ {p} : victim'[q] = victim[q]
    PROVE  MemberInv'
<1>1. /\ \A q \in Peer : pc'[q] = IF q = p THEN s ELSE pc[q]
      /\ pc[p] \in Joining /\ s \in Joining
  BY ZenonT(30) DEF TypeOK, GoTo, Joining, Outside
<1>2. \A q \in Peer : /\ BeingRemoved(q)' <=> BeingRemoved(q)
                      /\ Delisting(q)' <=> Delisting(q)
  BY Zenon, RemovalsKept DEF Outside, Evicting
<1>3. \A q \in Peer : Arriving(q)'
  BY ZenonT(60), <1>1 DEF MemberInv, Arriving, Untargeted
<1>4. \A q \in Peer : status # "gone" => Placed(q)'
  BY ZenonT(30), <1>1, <1>2 DEF MemberInv, Placed, Outside, Evicting
<1>5. QED
  BY ZenonT(30), <1>3, <1>4 DEF MemberInv

\* leave_sub_room for v: v shares no more, and whoever else shares keeps its
\* sub-room.
LEMMA LeaveSubShares ==
    ASSUME TypeOK, MemberInv, NEW v \in Peer, LeaveSub(v), status # "absent"
    PROVE  /\ Live => \A q \in shares' : q \in shares /\ q # v /\ assigned'[q] # Unassigned
           /\ Live => \A q \in Peer : assigned[q] = Unassigned => assigned'[q] = Unassigned
           /\ Live => assigned'[v] = Unassigned
           /\ shares' \subseteq shares
<1>1. Live => \A q \in shares : assigned[q] # Unassigned
  BY DEF TypeOK, MemberInv, Placed, Live
<1>2. QED
  BY ZenonT(30), <1>1 DEF TypeOK, LeaveSub, LeaveAssigned, LeaveUnassigned, subVars

\* The steps of join_voice, the eviction of a stale session included: the evicted
\* session leaves the peer list first, and is being removed until its last step.
LEMMA JoinMemberInv ==
    ASSUME TypeInv, SubRoomInv, MemberInv, NEW p \in Peer, Join(p)
    PROVE  MemberInv'
<1> USE DEF TypeInv, Joining, Outside, Evicting
<1>1. CASE \E b \in BOOLEAN : JoinEnsure(p, b)
  <2>1. /\ pc[p] = "idle" /\ \E s \in {"find"} : GoTo(p, s)
        /\ status # "gone" /\ status' = "live"
        /\ UNCHANGED <<peers, participants, shares, assigned, kick>>
        /\ \A q \in Peer : victim'[q] = victim[q]
    BY Zenon, <1>1 DEF JoinEnsure
  <2>2. QED
    BY Zenon, <2>1, MoveKeepsMembers
<1>2. CASE JoinFindStale(p)
  <2>1. /\ UNCHANGED <<status, peers, participants, shares, assigned, kick>>
        /\ pc[p] = "find" /\ \E s \in {"add", "evict", "idle"} : GoTo(p, s)
        /\ \A q \in Peer : victim'[q] = victim[q] \/ victim'[q] \in participants
        /\ \A q \in Peer \ {p} : victim'[q] = victim[q]
        /\ status # "absent"
    BY <1>2 DEF JoinFindStale, TypeOK, roomVars, subVars, MemberInv, NotYet
  <2>2. QED
    BY ZenonT(30), <2>1, MoveKeepsMembers
<1>3. CASE EvictShare(p)
  BY ZenonT(60), <1>3, RemovalsKept
     DEF EvictShare, GoTo, subVars, joinVars, TypeOK, MemberInv, Arriving, Placed, NotYet,
         Untargeted, Live
<1>4. CASE EvictPeer(p)
  <2> DEFINE v == victim[p]
  <2>1. /\ v \in Peer /\ status # "absent"
        /\ pc[p] = "evictPeer" /\ pc' = [pc EXCEPT ![p] = "evictList"]
        /\ peers' = IF Live THEN peers \ {v} ELSE peers
        /\ UNCHANGED <<status, participants, shares, assigned, timers, victim, kick>>
    BY Zenon, <1>4 DEF EvictPeer, GoTo, TypeOK, TargetsKnown, subVars, joinVars, MemberInv, NotYet
  <2>2. \A q \in Peer : /\ BeingRemoved(q)' <=> BeingRemoved(q) \/ q = v
                        /\ Delisting(q)' <=> Delisting(q) \/ q = v
    BY Zenon, <2>1 DEF TypeOK, BeingRemoved, Delisting
  <2> HIDE DEF v
  <2>3. \A q \in Peer : Arriving(q)'
    BY Zenon, <2>1 DEF TypeOK, MemberInv, Arriving, Untargeted
  <2>4. pc[v] \notin Outside \cup {"push"}
    BY ZenonT(30), <2>1 DEF v, MemberInv, Arriving, Untargeted
  <2>5. Live => \A q \in Peer : Placed(q)'
    BY Zenon, <2>1, <2>2, <2>4 DEF TypeOK, MemberInv, Placed, Live
  <2>6. QED
    BY <2>1, <2>3, <2>5 DEF TypeOK, MemberInv, Live
<1>5. CASE EvictList(p)
  <2> DEFINE v == victim[p]
  <2>1. /\ v \in Peer /\ status # "absent"
        /\ pc[p] = "evictList" /\ pc' = [pc EXCEPT ![p] = "evictSub"]
        /\ participants' = IF Live THEN participants \ {v} ELSE participants
        /\ UNCHANGED <<status, peers, shares, assigned, timers, victim, kick>>
    BY Zenon, <1>5 DEF EvictList, GoTo, TypeOK, TargetsKnown, subVars, joinVars, MemberInv, NotYet
  <2>2. /\ \A q \in Peer : BeingRemoved(q)' <=> BeingRemoved(q)
        /\ \A q \in Peer : Delisting(q) => Delisting(q)' \/ q = v
        /\ BeingRemoved(v)
    BY Zenon, <2>1 DEF TypeOK, BeingRemoved, Delisting
  <2> HIDE DEF v
  <2>3. \A q \in Peer : Arriving(q)'
    BY Zenon, <2>1 DEF TypeOK, MemberInv, Arriving, Untargeted
  <2>5. Live => \A q \in Peer : Placed(q)'
    BY ZenonT(30), <2>1, <2>2 DEF TypeOK, MemberInv, Placed, Live
  <2>6. QED
    BY Zenon, <2>1, <2>3, <2>5 DEF TypeOK, MemberInv, Live
<1>6. CASE EvictSub(p)
  <2> DEFINE v == victim[p]
  <2>1. /\ v \in Peer /\ status # "absent"
        /\ pc[p] = "evictSub" /\ pc' = [pc EXCEPT ![p] = "add"]
        /\ victim' = [victim EXCEPT ![p] = NoPeer]
        /\ UNCHANGED <<status, peers, participants, kick>>
    BY ZenonT(30), <1>6 DEF EvictSub, GoTo, TypeOK, TargetsKnown, MemberInv, NotYet
  <2>2. /\ \A q \in Peer : Delisting(q)' <=> Delisting(q)
        /\ \A q \in Peer : BeingRemoved(q)' \/ q = v <=> BeingRemoved(q)
    BY <2>1, PeerAssumption DEF TypeOK, BeingRemoved, Delisting
  <2>3. LeaveSub(v)
    BY Zenon, <1>6 DEF EvictSub
  <2> HIDE DEF v
  <2>4. /\ Live => \A q \in shares' : q \in shares /\ q # v /\ assigned'[q] # Unassigned
        /\ Live => \A q \in Peer : assigned[q] = Unassigned => assigned'[q] = Unassigned
        /\ shares' \subseteq shares
    BY ZenonT(30), <2>1, <2>3, LeaveSubShares
  <2>5. ASSUME NEW q \in Peer PROVE Arriving(q)'
    <3>1. Arriving(q) /\ (q # p => pc'[q] = pc[q]) /\ pc'[p] = "add"
      BY Zenon, <2>1 DEF TypeOK, MemberInv
    <3>2. Untargeted(q) => Untargeted(q)'
      BY Zenon, <2>1, PeerAssumption DEF TypeOK, Untargeted
    <3>3. QED
      BY ZenonT(30), <2>1, <2>4, <3>1, <3>2 DEF Arriving
  <2>6. Live => \A q \in Peer : Placed(q)'
    BY Zenon, <2>1, <2>2, <2>4 DEF TypeOK, MemberInv, Placed, Live
  <2>7. QED
    BY Zenon, <2>1, <2>5, <2>6 DEF TypeOK, MemberInv, Live
<1>7. ASSUME pc[p] = "add", JoinFails(p) PROVE MemberInv'
  <2>1. /\ pc[p] = "add" /\ \E s \in {"idle"} : GoTo(p, s)
        /\ UNCHANGED <<peers, participants, shares, assigned, kick, victim>>
        /\ status # "absent" /\ status' \in {status, "gone"}
    BY ZenonT(30), <1>7 DEF JoinFails, subVars, MemberInv, NotYet
  <2>2. CASE status' = status
    BY ZenonT(30), <2>1, <2>2, MoveKeepsMembers
  <2>3. CASE status' = "gone"
    BY ZenonT(30), <2>1, <2>3 DEF MemberInv, Arriving, Untargeted, GoTo, TypeOK
  <2>4. QED
    BY Zenon, <2>1, <2>2, <2>3
<1>8. CASE JoinSfuError(p) \/ JoinRoomFull(p)
  BY <1>7, <1>8 DEF JoinSfuError, JoinRoomFull
<1>9. CASE JoinAdd(p)
  <2>1. /\ pc[p] = "add" /\ \E s \in {"push"} : GoTo(p, s)
        /\ peers' = peers \cup {p} /\ status = "live"
        /\ UNCHANGED <<status, participants, shares, assigned, victim, kick>>
    BY ZenonT(30), <1>9 DEF JoinAdd, Live, subVars, joinVars
  <2>2. \A q \in Peer : /\ BeingRemoved(q)' <=> BeingRemoved(q)
                        /\ Delisting(q)' <=> Delisting(q)
    BY <2>1, RemovalsKept
  <2>3. pc' = [pc EXCEPT ![p] = "push"]
    BY Zenon, <2>1 DEF GoTo
  <2>4. ~BeingRemoved(p)
    BY Zenon, <2>1 DEF MemberInv, Arriving, Untargeted, BeingRemoved
  <2>5. /\ \A q \in Peer \ {p} : pc'[q] = pc[q] /\ (q \in peers' <=> q \in peers)
        /\ pc'[p] = "push" /\ p \in peers'
    BY Zenon, <2>1, <2>3 DEF TypeOK
  <2>6. \A q \in Peer : Arriving(q)'
    BY ZenonT(30), <2>1, <2>5 DEF MemberInv, Arriving, Untargeted, Outside
  <2>7. Placed(p)'
    BY ZenonT(30), <2>1, <2>2, <2>4, <2>5 DEF MemberInv, Arriving, Placed, Outside
  <2>8. \A q \in Peer \ {p} : Placed(q)'
    BY ZenonT(30), <2>1, <2>2, <2>5 DEF MemberInv, Placed
  <2>9. QED
    BY Zenon, <2>1, <2>6, <2>7, <2>8 DEF MemberInv
<1>10. CASE JoinPush(p)
  <2>1. /\ pc[p] = "push" /\ \E s \in {"sync"} : GoTo(p, s)
        /\ participants' = (IF Live THEN participants \cup {p} ELSE participants)
        /\ status # "absent"
        /\ UNCHANGED <<status, peers, shares, assigned, victim, kick>>
    BY ZenonT(30), <1>10 DEF JoinPush, subVars, joinVars, MemberInv, NotYet
  <2>2. \A q \in Peer : /\ BeingRemoved(q)' <=> BeingRemoved(q)
                        /\ Delisting(q)' <=> Delisting(q)
    BY Zenon, <2>1, RemovalsKept
  <2>3. pc' = [pc EXCEPT ![p] = "sync"]
    BY Zenon, <2>1 DEF GoTo
  <2>4. \A q \in Peer : Arriving(q)'
    BY Zenon, <2>1, <2>3 DEF TypeOK, MemberInv, Arriving, Untargeted
  <2>5. Live => \A q \in Peer : Placed(q)'
    BY ZenonT(30), <2>1, <2>2, <2>3 DEF TypeOK, MemberInv, Arriving, Placed, Live
  <2>6. QED
    BY Zenon, <2>1, <2>4, <2>5 DEF TypeOK, MemberInv, Live
<1>11. CASE JoinSync(p)
  <2>1. /\ pc[p] = "sync" /\ \E s \in {"live"} : GoTo(p, s)
        /\ UNCHANGED <<status, peers, participants, shares, victim, kick>>
        /\ status # "absent"
        /\ \A q \in Peer \ {p} : assigned'[q] = assigned[q]
    BY ZenonT(30), <1>11 DEF JoinSync, SyncModern, SyncLegacy, roomVars, TypeOK, MemberInv, NotYet
  <2>2. \A q \in Peer : /\ BeingRemoved(q)' <=> BeingRemoved(q)
                        /\ Delisting(q)' <=> Delisting(q)
    BY ZenonT(30), <2>1, RemovalsKept
  <2>3. pc' = [pc EXCEPT ![p] = "live"]
    BY ZenonT(30), <2>1 DEF GoTo
  <2>4. \A q \in Peer : Arriving(q)'
    BY ZenonT(30), <2>1, <2>3 DEF TypeOK, MemberInv, Arriving, Untargeted
  <2>5. Live => \A q \in Peer : Placed(q)'
    BY ZenonT(30), <2>1, <2>2, <2>3 DEF TypeOK, MemberInv, Arriving, Placed, Live
  <2>6. QED
    BY ZenonT(30), <2>1, <2>4, <2>5 DEF TypeOK, MemberInv, Live
<1>12. QED
  BY Zenon, <1>1, <1>2, <1>3, <1>4, <1>5, <1>6, <1>8, <1>9, <1>10, <1>11 DEF Join

\* The messages of a joined connection change no list; only a peer starts a share.
LEMMA MessageMemberInv ==
    ASSUME TypeInv, MemberInv, NEW p \in Peer, Message(p)
    PROVE  MemberInv'
<1> USE DEF TypeInv
<1>0. status = "live" /\ pc[p] = "live"
  BY ZenonT(30) DEF Message, CreateSubRoom, JoinSubRoom, SetPassthrough, LeaveSubRoom, ClearPassthrough,
         SetPassthroughEnabled, StartShare, StopAllShares, StopShare, MayControlPassthrough,
         Live
<1>1. CASE \E n \in SubRoom : CreateSubRoom(p, n) \/ SetPassthrough(p, n)
  BY ZenonT(30), <1>0, <1>1, MembersUntouched DEF CreateSubRoom, SetPassthrough, roomVars, joinVars
<1>2. CASE ClearPassthrough(p) \/ SetPassthroughEnabled(p)
  BY Zenon, <1>0, <1>2, MembersUntouched DEF ClearPassthrough, SetPassthroughEnabled, roomVars,
                                      joinVars
<1>3. CASE \E r \in SubRoom : JoinSubRoom(p, r)
  <2>1. /\ UNCHANGED <<status, peers, participants, shares, pc, victim, kick>>
        /\ \E r \in SubRoom : assigned' = [assigned EXCEPT ![p] = r]
    BY Zenon, <1>3 DEF JoinSubRoom, roomVars, joinVars
  <2>2. ASSUME NEW q \in Peer PROVE Arriving(q)' /\ Placed(q)'
    <3>1. Arriving(q) /\ Placed(q)
      BY Zenon, <1>0 DEF MemberInv
    <3>2. /\ assigned'[q] = Unassigned => assigned[q] = Unassigned
          /\ q # p => assigned'[q] = assigned[q]
      <4>1. PICK r \in SubRoom : assigned' = [assigned EXCEPT ![p] = r]
        BY Zenon, <2>1
      <4>2. r # Unassigned
        BY SMTT(30) DEF SubRoom, Unassigned
      <4>3. DOMAIN assigned = Peer
        BY DEF TypeOK
      <4>4. QED
        BY Zenon, <4>1, <4>2, <4>3
    <3>3. /\ Untargeted(q)' = Untargeted(q) /\ BeingRemoved(q)' = BeingRemoved(q)
          /\ Delisting(q)' = Delisting(q)
      BY Zenon, <2>1 DEF Untargeted, BeingRemoved, Delisting
    <3>4. Arriving(q)'
      BY Zenon, <2>1, <3>1, <3>3 DEF Arriving
    <3>5. Placed(q)'
      BY ZenonT(30), <1>0, <2>1, <3>1, <3>2, <3>3 DEF Placed
    <3>6. QED
      BY <3>4, <3>5
  <2>3. QED
    BY Zenon, <1>0, <2>1, <2>2 DEF MemberInv
<1>4. CASE LeaveSubRoom(p)
  <2>1. UNCHANGED <<status, peers, participants, pc, victim, kick>>
    BY Zenon, <1>4 DEF LeaveSubRoom, joinVars
  <2>2. /\ \A q \in shares' : q \in shares /\ assigned'[q] # Unassigned
        /\ \A q \in Peer : assigned[q] = Unassigned => assigned'[q] = Unassigned
    BY ZenonT(30), <1>0, <1>4, LeaveSubShares DEF LeaveSubRoom, Live
  <2>3. \A q \in Peer : BeingRemoved(q)' = BeingRemoved(q) /\ Delisting(q)' = Delisting(q)
    BY ZenonT(30), <2>1 DEF BeingRemoved, Delisting
  <2>4. \A q \in Peer : Arriving(q)'
    BY ZenonT(30), <1>0, <2>1, <2>2 DEF MemberInv, Arriving, Untargeted
  <2>5. \A q \in Peer : Placed(q)'
    <3> SUFFICES ASSUME NEW q \in Peer PROVE Placed(q)'
      BY Zenon
    <3>1. Placed(q)
      BY Zenon, <1>0 DEF MemberInv
    <3>2. QED
      BY ZenonT(30), <1>0, <2>1, <2>2, <2>3, <3>1 DEF Placed
  <2>6. QED
    BY Zenon, <1>0, <2>1, <2>4, <2>5 DEF MemberInv
<1>5. CASE StartShare(p) \/ StopAllShares(p) \/ \E t \in Peer : StopShare(p, t)
  <2>1. /\ UNCHANGED <<status, peers, participants, assigned, pc, victim, kick>>
        /\ \A q \in shares' : q \in shares \/ (q = p /\ p \in peers /\ assigned[p] # Unassigned)
    BY ZenonT(30), <1>5 DEF StartShare, StopAllShares, StopShare, subVars, joinVars
  <2>2. ASSUME NEW q \in Peer PROVE Arriving(q)' /\ Placed(q)'
    <3>1. Arriving(q) /\ Placed(q)
      BY <1>0 DEF MemberInv
    <3>2. /\ Untargeted(q)' = Untargeted(q) /\ BeingRemoved(q)' = BeingRemoved(q)
          /\ Delisting(q)' = Delisting(q)
      BY ZenonT(30), <2>1 DEF Untargeted, BeingRemoved, Delisting
    <3>3. Arriving(q)'
      BY ZenonT(30), <1>0, <2>1, <3>1, <3>2 DEF Arriving, Joining, Evicting
    <3>4. Placed(q)'
      BY ZenonT(30), <1>0, <2>1, <3>1, <3>2 DEF Placed
    <3>5. QED
      BY <3>3, <3>4
  <2>3. QED
    BY ZenonT(30), <1>0, <2>1, <2>2 DEF MemberInv
<1>6. QED
  BY Zenon, <1>1, <1>2, <1>3, <1>4, <1>5 DEF Message

\* The steps of leave_room: at the last one the connection is on no list.
LEMMA QuitMemberInv ==
    ASSUME TypeInv, SubRoomInv, MemberInv, NEW p \in Peer, Quit(p)
    PROVE  MemberInv'
<1> USE DEF TypeInv, Joining, Outside, Evicting
<1>1. CASE QuitStart(p) \/ QuitShare(p)
  <2>1. /\ \/ pc[p] = "live" /\ status = "live" /\ \E s \in {"quit"} : GoTo(p, s)
           \/ pc[p] = "live" /\ status = "gone" /\ \E s \in {"closed"} : GoTo(p, s)
           \/ pc[p] = "quit" /\ \E s \in {"quitPeer"} : GoTo(p, s)
        /\ status # "absent" /\ shares' \subseteq shares
        /\ UNCHANGED <<status, peers, participants, assigned, victim, kick>>
    BY ZenonT(30), <1>1 DEF QuitStart, QuitShare, GoTo, Live, TypeOK, MemberInv, NotYet, subVars, joinVars
  <2>2. \A q \in Peer : /\ BeingRemoved(q)' <=> BeingRemoved(q)
                        /\ Delisting(q)' <=> Delisting(q)
    BY ZenonT(30), <2>1, RemovalsKept
  <2>3. \A q \in Peer : Arriving(q)'
    <3>1. ASSUME NEW q \in Peer PROVE Arriving(q)'
      <4>1. Arriving(q)
        BY Zenon DEF MemberInv
      <4>2. Untargeted(q)' <=> Untargeted(q)
        BY Zenon, <2>1 DEF Untargeted
      <4>3. pc'[q] = pc[q] \/ pc'[q] \in {"quit", "closed", "quitPeer"}
        BY Zenon, <2>1 DEF GoTo, TypeOK
      <4>4. QED
        BY Zenon, <2>1, <4>1, <4>2, <4>3 DEF Arriving
    <3>2. QED
      BY ZenonT(30), <3>1
  <2>4. status = "live" => \A q \in Peer : Placed(q)'
    BY ZenonT(60), <2>1, <2>2 DEF TypeOK, GoTo, MemberInv, Placed
  <2>5. QED
    BY Zenon, <2>1, <2>3, <2>4 DEF TypeOK, MemberInv
<1>2. CASE CloseUnjoined(p)
  <2>1. /\ pc[p] = "idle" /\ \E s \in {"closed"} : GoTo(p, s)
        /\ UNCHANGED <<status, peers, participants, shares, assigned, victim, kick, timers>>
    BY ZenonT(30), <1>2 DEF CloseUnjoined, roomVars, subVars, joinVars
  <2>2. \A q \in Peer : /\ BeingRemoved(q)' <=> BeingRemoved(q)
                        /\ Delisting(q)' <=> Delisting(q)
    BY ZenonT(30), <2>1, RemovalsKept
  <2>3. assigned[p] = Unassigned
    BY ZenonT(30), <2>1 DEF SubRoomInv, JoiningUnassigned
  <2>4. \A q \in Peer : Arriving(q)'
    BY ZenonT(30), <2>1 DEF TypeOK, GoTo, MemberInv, Arriving, Untargeted
  <2>5. status # "gone" => \A q \in Peer : Placed(q)'
    BY ZenonT(30), <2>1, <2>2, <2>3 DEF TypeOK, GoTo, MemberInv, Arriving, Placed
  <2>6. status = "absent" => NotYet'
    BY Zenon, <2>1 DEF TypeOK, GoTo, MemberInv, NotYet
  <2>7. QED
    BY <2>1, <2>4, <2>5, <2>6 DEF MemberInv
<1>3. CASE QuitPeer(p)
  <2>1. /\ pc[p] = "quitPeer" /\ pc' = [pc EXCEPT ![p] = "quitList"]
        /\ status # "absent" /\ status' # "absent"
        /\ status' # "gone" => status = "live" /\ peers' = peers \ {p}
        /\ UNCHANGED <<participants, shares, assigned, victim, kick>>
    BY ZenonT(30), <1>3 DEF QuitPeer, RemovePeer, GoTo, Live, TypeOK, MemberInv, NotYet, subVars, joinVars
  <2>2. \A q \in Peer : /\ BeingRemoved(q)' <=> BeingRemoved(q) \/ q = p
                        /\ Delisting(q)' <=> Delisting(q) \/ q = p
    BY ZenonT(30), <2>1 DEF TypeOK, BeingRemoved, Delisting
  <2>3. \A q \in Peer : Arriving(q)'
    BY Zenon, <2>1 DEF TypeOK, MemberInv, Arriving, Untargeted
  <2>4. status' # "gone" => \A q \in Peer : Placed(q)'
    BY ZenonT(30), <2>1, <2>2 DEF TypeOK, MemberInv, Placed
  <2>5. QED
    BY Zenon, <2>1, <2>3, <2>4 DEF MemberInv
<1>4. CASE QuitList(p)
  <2>1. /\ pc[p] = "quitList" /\ pc' = [pc EXCEPT ![p] = "quitSub"]
        /\ status # "absent"
        /\ participants' = (IF status = "live" THEN participants \ {p} ELSE participants)
        /\ UNCHANGED <<status, peers, shares, assigned, victim, kick>>
    BY ZenonT(30), <1>4 DEF QuitList, GoTo, Live, TypeOK, MemberInv, NotYet, subVars, joinVars
  <2>2. \A q \in Peer : /\ BeingRemoved(q)' <=> BeingRemoved(q)
                        /\ Delisting(q) => Delisting(q)' \/ q = p
    BY ZenonT(30), <2>1 DEF TypeOK, BeingRemoved, Delisting
  <2>3. \A q \in Peer : Arriving(q)'
    BY Zenon, <2>1 DEF TypeOK, MemberInv, Arriving, Untargeted
  <2>4. status = "live" => \A q \in Peer : Placed(q)'
    BY ZenonT(30), <2>1, <2>2 DEF TypeOK, MemberInv, Placed
  <2>5. QED
    BY Zenon, <2>1, <2>3, <2>4 DEF TypeOK, MemberInv
<1>5. CASE QuitSub(p)
  <2>1. /\ pc[p] = "quitSub" /\ pc' = [pc EXCEPT ![p] = "closed"]
        /\ status # "absent" /\ LeaveSub(p)
        /\ UNCHANGED <<status, peers, participants, victim, kick>>
    BY Zenon, <1>5 DEF QuitSub, GoTo, TypeOK, MemberInv, NotYet, joinVars
  <2>2. /\ \A q \in Peer : Delisting(q)' <=> Delisting(q)
        /\ \A q \in Peer : BeingRemoved(q) => BeingRemoved(q)' \/ q = p
        /\ \A q \in Peer : BeingRemoved(q)' => BeingRemoved(q)
    BY ZenonT(30), <2>1 DEF TypeOK, BeingRemoved, Delisting
  <2>3. /\ Live => \A q \in shares' : q \in shares /\ q # p /\ assigned'[q] # Unassigned
        /\ Live => \A q \in Peer : assigned[q] = Unassigned => assigned'[q] = Unassigned
        /\ Live => assigned'[p] = Unassigned
        /\ shares' \subseteq shares
    BY ZenonT(30), <2>1, LeaveSubShares
  <2>4. \A q \in Peer : Arriving(q)'
    BY ZenonT(30), <2>1, <2>3 DEF TypeOK, MemberInv, Arriving, Untargeted
  <2>5. Live => \A q \in Peer : Placed(q)'
    BY Zenon, <2>1, <2>2, <2>3 DEF TypeOK, MemberInv, Placed, Live
  <2>6. QED
    BY Zenon, <2>1, <2>4, <2>5 DEF TypeOK, MemberInv, Live
<1>6. QED
  BY Zenon, <1>1, <1>2, <1>3, <1>4, <1>5 DEF Quit, QuitRest

\* The steps of handle_kick and of its callers, which act on a participant that is
\* long past the start of its own join.
LEMMA KickMemberInv ==
    ASSUME TypeInv, MemberInv, NEW m \in Mod, Kick(m)
    PROVE  MemberInv'
<1> USE DEF TypeInv
<1>1. CASE \E t \in Peer : KickStart(m, t)
  <2> PICK t \in Peer : KickStart(m, t)
    BY ZenonT(30), <1>1
  <2>1. /\ kick[m].stage = "idle" /\ status = "live" /\ t \in participants
        /\ kick' = [kick EXCEPT ![m] = [stage |-> "sfu", target |-> t]]
        /\ UNCHANGED <<status, peers, participants, shares, assigned, pc, victim>>
    BY DEF KickStart, Live, roomVars, subVars, joinVars
  <2>2. \A q \in Peer : /\ BeingRemoved(q)' <=> BeingRemoved(q)
                        /\ Delisting(q)' <=> Delisting(q)
    BY ZenonT(60), <2>1 DEF TypeOK, BeingRemoved, Delisting
  <2>3. \A q \in Peer : Arriving(q)'
    BY Zenon, <2>1 DEF TypeOK, MemberInv, Arriving, Untargeted
  <2>4. \A q \in Peer : Placed(q)'
    BY ZenonT(30), <2>1, <2>2 DEF MemberInv, Placed
  <2>5. QED
    BY <2>1, <2>3, <2>4 DEF MemberInv
<1> DEFINE t == kick[m].target
<1>2. kick[m].stage # "idle" => t \in Peer /\ status # "absent"
                                /\ pc[t] \notin Outside \cup {"push"}
  BY DEF TypeOK, TargetsKnown, MemberInv, NotYet, Arriving, Untargeted
<1>3. ASSUME \E s \in KickStage : kick' = [kick EXCEPT ![m].stage = s],
             UNCHANGED <<shares, assigned, pc, victim>>,
             participants' \subseteq participants
      PROVE  \A q \in Peer : Arriving(q)'
  BY <1>3 DEF TypeOK, MemberInv, Arriving, Untargeted
<1>4. CASE KickPeer(m)
  <2>1. /\ kick[m].stage = "sfu" /\ \E s \in {"list"} : kick' = [kick EXCEPT ![m].stage = s]
        /\ status' # "absent"
        /\ status' # "gone" => status = "live" /\ peers' = peers \ {t}
        /\ UNCHANGED <<participants, shares, assigned, pc, victim>>
    BY <1>2, <1>4 DEF KickPeer, RemovePeer, Live, TypeOK, subVars, joinVars
  <2>2. \A q \in Peer : /\ BeingRemoved(q)' <=> BeingRemoved(q) \/ q = t
                        /\ Delisting(q)' <=> Delisting(q) \/ q = t
    BY <2>1 DEF TypeOK, BeingRemoved, Delisting
  <2> HIDE DEF t
  <2>3. status' # "gone" => \A q \in Peer : Placed(q)'
    BY <1>2, <2>1, <2>2 DEF TypeOK, MemberInv, Placed
  <2>4. QED
    BY Zenon, <1>3, <2>1, <2>3 DEF MemberInv, KickStage
<1>5. CASE KickList(m)
  <2>1. /\ kick[m].stage = "list"
        /\ \E s \in {"count", "sub"} : kick' = [kick EXCEPT ![m].stage = s]
        /\ participants' = (IF status = "live" THEN participants \ {t} ELSE participants)
        /\ UNCHANGED <<status, peers, shares, assigned, pc, victim>>
    BY Zenon, <1>5 DEF KickList, Live, subVars, joinVars
  <2>2. /\ \A q \in Peer : BeingRemoved(q)' <=> BeingRemoved(q)
        /\ \A q \in Peer : Delisting(q) => Delisting(q)' \/ q = t
        /\ BeingRemoved(t)
    BY SMTT(30), <2>1 DEF TypeOK, BeingRemoved, Delisting
  <2> HIDE DEF t
  <2>3. status = "live" => \A q \in Peer : Placed(q)'
    BY <1>2, <2>1, <2>2 DEF TypeOK, MemberInv, Placed
  <2>4. QED
    BY Zenon, <1>2, <1>3, <2>1, <2>3 DEF MemberInv, KickStage, TypeOK
<1>6. CASE KickCount(m) \/ KickDropRoom(m)
  <2>1. /\ kick[m].stage \in {"count", "drop"}
        /\ \E s \in {"drop", "sub"} : kick' = [kick EXCEPT ![m].stage = s]
        /\ status' \in {status, "gone"}
        /\ UNCHANGED <<peers, participants, shares, assigned, pc, victim>>
    BY <1>6 DEF KickCount, KickDropRoom, roomVars, subVars, joinVars
  <2>2. \A q \in Peer : /\ BeingRemoved(q)' <=> BeingRemoved(q)
                        /\ Delisting(q)' <=> Delisting(q)
    BY <2>1 DEF TypeOK, BeingRemoved, Delisting
  <2> HIDE DEF t
  <2>3. status' # "gone" => \A q \in Peer : Placed(q)'
    BY <2>1, <2>2 DEF MemberInv, Placed
  <2>4. QED
    BY ZenonT(30), <1>2, <1>3, <2>1, <2>3 DEF MemberInv, KickStage, TypeOK
<1>7. CASE KickSub(m)
  <2>1. /\ kick[m].stage = "sub" /\ LeaveSub(t)
        /\ kick' = [kick EXCEPT ![m] = [stage |-> "idle", target |-> NoPeer]]
        /\ UNCHANGED <<status, peers, participants, pc, victim>>
    BY Zenon, <1>7 DEF KickSub, joinVars
  <2>2. /\ \A q \in Peer : Delisting(q)' <=> Delisting(q)
        /\ \A q \in Peer : BeingRemoved(q) => BeingRemoved(q)' \/ q = t
        /\ \A q \in Peer : BeingRemoved(q)' => BeingRemoved(q)
    BY ZenonT(30), <2>1, PeerAssumption DEF TypeOK, BeingRemoved, Delisting
  <2> HIDE DEF t
  <2>3. /\ Live => \A q \in shares' : q \in shares /\ q # t /\ assigned'[q] # Unassigned
        /\ Live => \A q \in Peer : assigned[q] = Unassigned => assigned'[q] = Unassigned
        /\ shares' \subseteq shares
    BY Zenon, <1>2, <2>1, LeaveSubShares
  <2>4. \A q \in Peer : Arriving(q)'
    BY ZenonT(60), <2>1, <2>3, PeerAssumption DEF TypeOK, MemberInv, Arriving, Untargeted
  <2>5. Live => \A q \in Peer : Placed(q)'
    <3> SUFFICES ASSUME Live, NEW q \in Peer PROVE Placed(q)'
      OBVIOUS
    <3>1. Placed(q)
      BY DEF MemberInv, Live
    <3>2. QED
      BY Zenon, <2>1, <2>2, <2>3, <3>1 DEF Placed
  <2>6. QED
    BY Zenon, <1>2, <2>1, <2>4, <2>5 DEF TypeOK, MemberInv, Live
<1>8. QED
  BY ZenonT(30), <1>1, <1>4, <1>5, <1>6, <1>7 DEF Kick, KickRest

\* Every step keeps the member lists in order.
LEMMA NextMemberInv == TypeInv /\ SubRoomInv /\ MemberInv /\ [Next]_vars => MemberInv'
<1> SUFFICES ASSUME TypeInv, SubRoomInv, MemberInv, [Next]_vars PROVE MemberInv'
  BY Zenon
<1>1. CASE UNCHANGED vars
  BY ZenonT(30), <1>1, MembersUntouched DEF vars, roomVars, subVars, joinVars, MemberInv, NotYet
<1>2. CASE Tick
  BY ZenonT(30), <1>2, MembersUntouched DEF Tick, Aged, roomVars, MemberInv, NotYet
<1>3. CASE \E r \in SubRoom : ExpireSubRoom(r)
  BY ZenonT(30), <1>3, MembersUntouched DEF ExpireSubRoom, roomVars, joinVars, MemberInv, NotYet
<1>4. QED
  BY <1>1, <1>2, <1>3, JoinMemberInv, MessageMemberInv, QuitMemberInv, KickMemberInv DEF Next

(***************************************************************************)
(* The timers of empty sub-rooms.  The deadline of an empty sub-room is    *)
(* matched by an expiry somewhere: leave_sub_room returns it, and its      *)
(* caller schedules it or, in an evicting join, hands it on.               *)
(***************************************************************************)
\* Expiry e is with a spawned timer, with a join that will hand it on, or was
\* dropped by a join that failed.
Held(e) == e \in timers \/ e \in dropped \/ \E p \in Peer : e \in carry[p]

\* A join carries no expiry before it has evicted the stale session.
CarriesNone(p) == pc[p] \in {"idle", "find"} \cup Evicting => carry[p] = {}

\* The inductive invariant of the timers.
ArmedInv ==
    /\ \A p \in Peer : CarriesNone(p)
    /\ status # "gone" =>
           \A r \in SubRoom : deleteAt[r] # NoDeadline => Held(<<r, deleteAt[r]>>)

\* A new room has no deadline.
LEMMA InitArmedInv == Init => ArmedInv
BY SMTT(30) DEF Init, ArmedInv, CarriesNone

\* A step that lets no expiry go keeps every deadline armed if the deadlines it
\* sets are held by somebody afterwards.
LEMMA StaysArmed ==
    ASSUME ArmedInv,
           status' # "gone" => status # "gone",
           \A p \in Peer : CarriesNone(p)',
           \A e : Held(e) => Held(e)',
           \A r \in SubRoom : deleteAt'[r] \notin {deleteAt[r], NoDeadline} =>
               Held(<<r, deleteAt[r]>>)'
    PROVE  ArmedInv'
BY Zenon DEF ArmedInv, Held

\* leave_sub_room returns the expiry of the deadline it sets.
LEMMA LeaveSubArms ==
    ASSUME TypeOK, NEW v \in Peer, LeaveSub(v)
    PROVE  \A r \in SubRoom : \/ deleteAt'[r] \in {deleteAt[r], NoDeadline}
                              \/ <<r, deleteAt'[r]>> \in LeaveExpiry(v)
<1>1. CASE Live /\ assigned[v] # Unassigned
  BY <1>1 DEF TypeOK, LeaveSub, LeaveAssigned, LeaveExpiry, EmptyDeadline, EmptyExpiry
<1>2. CASE ~(Live /\ assigned[v] # Unassigned)
  BY <1>2 DEF LeaveSub, LeaveUnassigned, subVars
<1>3. QED
  BY ZenonT(30), <1>1, <1>2

\* The steps of join_voice: the expiry of the evicted session's sub-room is
\* carried from the eviction to the end of the join, where it is scheduled, or
\* dropped when the join fails.
LEMMA JoinArmedInv ==
    ASSUME TypeInv, MemberInv, ArmedInv, NEW p \in Peer, Join(p)
    PROVE  ArmedInv'
<1> USE DEF TypeInv, Evicting
<1>1. CASE \/ \E b \in BOOLEAN : JoinEnsure(p, b)
           \/ JoinFindStale(p) \/ EvictShare(p) \/ EvictPeer(p) \/ EvictList(p)
           \/ JoinAdd(p) \/ JoinPush(p)
  <2>1. /\ \E s \in Stage : /\ pc' = [pc EXCEPT ![p] = s]
                            /\ s \in {"idle", "find"} \cup Evicting =>
                                   pc[p] \in {"idle", "find"} \cup Evicting
        /\ status' # "gone" => status # "gone"
        /\ UNCHANGED <<deleteAt, timers, dropped, carry>>
    BY Zenon, <1>1 DEF JoinEnsure, JoinFindStale, EvictShare, EvictPeer, EvictList, JoinAdd, JoinPush,
                GoTo, Stage, roomVars, subVars, joinVars
  <2>2. \A q \in Peer : CarriesNone(q)'
    BY Zenon, <2>1 DEF TypeOK, ArmedInv, CarriesNone
  <2>3. QED
    BY Zenon, <2>1, <2>2, StaysArmed DEF Held
<1>2. CASE EvictSub(p)
  <2>1. /\ pc[p] = "evictSub" /\ pc' = [pc EXCEPT ![p] = "add"]
        /\ victim[p] \in Peer /\ LeaveSub(victim[p])
        /\ carry' = [carry EXCEPT ![p] = LeaveExpiry(victim[p])]
        /\ UNCHANGED <<status, timers, dropped>>
    BY Zenon, <1>2 DEF EvictSub, GoTo, TargetsKnown
  <2>2. \A r \in SubRoom : \/ deleteAt'[r] \in {deleteAt[r], NoDeadline}
                           \/ <<r, deleteAt'[r]>> \in LeaveExpiry(victim[p])
    BY ZenonT(30), <2>1, LeaveSubArms
  <2>3. carry[p] = {}
    BY ZenonT(30), <2>1 DEF ArmedInv, CarriesNone
  <2>4. \A q \in Peer : CarriesNone(q)'
    BY Zenon, <2>1 DEF TypeOK, ArmedInv, CarriesNone
  <2>5. carry'[p] = LeaveExpiry(victim[p]) /\ \A q \in Peer \ {p} : carry'[q] = carry[q]
    BY Zenon, <2>1 DEF TypeOK
  <2>6. QED
    BY ZenonT(30), <2>1, <2>2, <2>3, <2>4, <2>5, StaysArmed DEF Held
<1>3. CASE JoinSfuError(p) \/ JoinRoomFull(p)
  <2>1. /\ status' # "gone" => status # "gone"
        /\ carry' = [carry EXCEPT ![p] = {}]
        /\ dropped' = dropped \cup carry[p]
        /\ pc' = [pc EXCEPT ![p] = "idle"]
        /\ UNCHANGED <<timers, deleteAt>>
    BY Zenon, <1>3 DEF JoinSfuError, JoinRoomFull, JoinFails, GoTo, subVars
  <2>2. \A q \in Peer : CarriesNone(q)'
    BY Zenon, <2>1 DEF TypeOK, ArmedInv, CarriesNone
  <2>3. \A q \in Peer \ {p} : carry'[q] = carry[q]
    BY Zenon, <2>1 DEF TypeOK
  <2>4. QED
    BY Zenon, <2>1, <2>2, <2>3, StaysArmed DEF Held
<1>4. CASE JoinSync(p)
  <2>1. /\ timers' = timers \cup carry[p]
        /\ carry' = [carry EXCEPT ![p] = {}]
        /\ pc' = [pc EXCEPT ![p] = "live"]
        /\ UNCHANGED <<status, dropped>>
        /\ \A r \in SubRoom : deleteAt'[r] \in {deleteAt[r], NoDeadline}
    BY Zenon, <1>4 DEF TypeOK, JoinSync, SyncModern, SyncLegacy, GoTo, roomVars
  <2>2. \A q \in Peer : CarriesNone(q)'
    BY Zenon, <2>1 DEF TypeOK, ArmedInv, CarriesNone
  <2>3. \A q \in Peer \ {p} : carry'[q] = carry[q]
    BY Zenon, <2>1 DEF TypeOK
  <2>4. QED
    BY Zenon, <2>1, <2>2, <2>3, StaysArmed DEF Held
<1>5. QED
  BY Zenon, <1>1, <1>2, <1>3, <1>4 DEF Join

\* The steps of the others set a deadline only together with its timer, or with
\* the expiry they schedule.
LEMMA SetsAndArms ==
    ASSUME ArmedInv, NEW new, timers' = timers \cup new,
           UNCHANGED <<dropped, carry>>,
           status' # "gone" => status # "gone",
           \A q \in Peer : pc'[q] # pc[q] => pc'[q] \notin {"idle", "find"} \cup Evicting,
           \A r \in SubRoom : \/ deleteAt'[r] \in {deleteAt[r], NoDeadline}
                              \/ <<r, deleteAt'[r]>> \in new
    PROVE  ArmedInv'
<1>1. \A q \in Peer : CarriesNone(q)'
  BY Zenon DEF ArmedInv, CarriesNone
<1>2. QED
  BY ZenonT(30), <1>1, StaysArmed DEF Held

\* create_sub_room, join_sub_room and leave_sub_room schedule what they set.
LEMMA MessageArmedInv ==
    ASSUME TypeInv, ArmedInv, NEW p \in Peer, Message(p)
    PROVE  ArmedInv'
<1> USE DEF TypeInv
<1>1. CASE \E r \in SubRoom : CreateSubRoom(p, r)
  <2> PICK n \in SubRoom : CreateSubRoom(p, n)
    BY <1>1
  <2>1. /\ timers' = timers \cup {<<n, DeleteAfter>>}
        /\ UNCHANGED <<dropped, carry, status, pc>>
        /\ \A r \in SubRoom : \/ deleteAt'[r] \in {deleteAt[r], NoDeadline}
                              \/ <<r, deleteAt'[r]>> \in {<<n, DeleteAfter>>}
    BY Zenon DEF CreateSubRoom, TypeOK, roomVars, joinVars
  <2>2. QED
    BY Zenon, <2>1, SetsAndArms
<1>2. CASE \E r \in SubRoom : JoinSubRoom(p, r)
  <2> PICK n \in SubRoom : JoinSubRoom(p, n)
    BY <1>2
  <2> DEFINE new == IF assigned[p] = Unassigned THEN {}
                    ELSE EmptyExpiry(assigned[p], members[assigned[p]] \ {p})
  <2>1. /\ timers' = timers \cup new
        /\ UNCHANGED <<dropped, carry, status, pc>>
    BY ZenonT(30) DEF JoinSubRoom, roomVars, joinVars
  <2>2. \A r \in SubRoom : \/ deleteAt'[r] \in {deleteAt[r], NoDeadline}
                           \/ <<r, deleteAt'[r]>> \in new
    <3>1. ASSUME NEW r \in SubRoom, deleteAt'[r] \notin {deleteAt[r], NoDeadline}
          PROVE  <<r, deleteAt'[r]>> \in new
      <4>1. r = assigned[p] /\ deleteAt'[r] = EmptyDeadline(r, members[r] \ {p})
        BY Zenon, <3>1 DEF JoinSubRoom
      <4>2. r # Unassigned
        BY DEF SubRoom, Unassigned
      <4>3. ~(r = Default \/ members[r] \ {p} # {}) /\ deleteAt'[r] = DeleteAfter
        BY Zenon, <3>1, <4>1 DEF EmptyDeadline
      <4>4. QED
        BY Zenon, <4>1, <4>2, <4>3 DEF EmptyExpiry
    <3>2. QED
      BY Zenon, <3>1
  <2> HIDE DEF new
  <2>3. QED
    BY ZenonT(30), <2>1, <2>2, SetsAndArms
<1>3. CASE LeaveSubRoom(p)
  <2>1. LeaveSub(p) /\ timers' = timers \cup LeaveExpiry(p)
        /\ UNCHANGED <<dropped, carry, status, pc>>
    BY <1>3 DEF LeaveSubRoom, joinVars
  <2>2. QED
    BY Zenon, <2>1, LeaveSubArms, SetsAndArms
<1>4. CASE \/ \E r \in SubRoom : SetPassthrough(p, r)
           \/ ClearPassthrough(p) \/ SetPassthroughEnabled(p)
           \/ StartShare(p) \/ StopAllShares(p) \/ \E t \in Peer : StopShare(p, t)
  <2>1. UNCHANGED <<timers, dropped, carry, status, pc, deleteAt>>
    BY Zenon, <1>4 DEF SetPassthrough, ClearPassthrough, SetPassthroughEnabled, StartShare,
                StopAllShares, StopShare, roomVars, subVars, joinVars
  <2>2. timers' = timers \cup {}
    BY Zenon, <2>1
  <2>3. QED
    BY Zenon, <2>1, <2>2, SetsAndArms
<1>5. QED
  BY Zenon, <1>1, <1>2, <1>3, <1>4 DEF Message

\* Leaving and kicking schedule the expiry of the sub-room they empty.
LEMMA RemovalArmedInv ==
    ASSUME TypeInv, ArmedInv,
           (\E p \in Peer : Quit(p)) \/ (\E m \in Mod : Kick(m))
    PROVE  ArmedInv'
<1> USE DEF TypeInv, Evicting
<1>1. CASE \/ \E p \in Peer : \/ QuitStart(p) \/ CloseUnjoined(p) \/ QuitShare(p)
                              \/ QuitPeer(p) \/ QuitList(p)
           \/ \E m \in Mod : \/ \E t \in Peer : KickStart(m, t)
                             \/ KickPeer(m) \/ KickList(m) \/ KickCount(m) \/ KickDropRoom(m)
  <2>1. /\ UNCHANGED <<timers, dropped, carry, deleteAt>>
        /\ status' # "gone" => status # "gone"
    BY ZenonT(30), <1>1 DEF QuitStart, CloseUnjoined, QuitShare, QuitPeer, QuitList, KickStart, KickPeer,
                KickList, KickCount, KickDropRoom, RemovePeer, roomVars, subVars, joinVars
  <2>2. \/ UNCHANGED pc
        \/ \E p \in Peer, s \in {"quit", "quitPeer", "quitList", "quitSub", "closed"} :
               pc' = [pc EXCEPT ![p] = s]
    BY Zenon, <1>1 DEF QuitStart, CloseUnjoined, QuitShare, QuitPeer, QuitList, KickStart, KickPeer,
                KickList, KickCount, KickDropRoom, GoTo
  <2>3. \A q \in Peer : pc'[q] # pc[q] => pc'[q] \notin {"idle", "find"} \cup Evicting
    BY <2>2 DEF TypeOK
  <2>4. timers' = timers \cup {}
    BY Zenon, <2>1
  <2>5. QED
    BY Zenon, <2>1, <2>3, <2>4, SetsAndArms
<1>2. CASE \E p \in Peer : QuitSub(p)
  <2> PICK p \in Peer : QuitSub(p)
    BY Zenon, <1>2
  <2>1. /\ LeaveSub(p) /\ timers' = timers \cup LeaveExpiry(p)
        /\ UNCHANGED <<dropped, carry, status>> /\ pc' = [pc EXCEPT ![p] = "closed"]
    BY Zenon DEF QuitSub, GoTo, joinVars
  <2>2. \A q \in Peer : pc'[q] # pc[q] => pc'[q] \notin {"idle", "find"} \cup Evicting
    BY Zenon, <2>1 DEF TypeOK
  <2>3. QED
    BY Zenon, <2>1, <2>2, LeaveSubArms, SetsAndArms
<1>3. CASE \E m \in Mod : KickSub(m)
  <2> PICK m \in Mod : KickSub(m)
    BY Zenon, <1>3
  <2>1. /\ kick[m].target \in Peer
        /\ LeaveSub(kick[m].target) /\ timers' = timers \cup LeaveExpiry(kick[m].target)
        /\ UNCHANGED <<dropped, carry, status, pc>>
    BY Zenon DEF KickSub, TargetsKnown, joinVars
  <2>2. QED
    BY Zenon, <2>1, LeaveSubArms, SetsAndArms
<1>4. QED
  BY Zenon, <1>1, <1>2, <1>3 DEF Quit, QuitRest, Kick, KickRest

\* Deadlines and expiries age together.  A timer that fires for the deadline in
\* force deletes the sub-room, because a sub-room with a deadline is empty and is
\* not ROOM 1; any other timer is not the one that the deadline needs.
LEMMA TimerArmedInv ==
    ASSUME TypeInv, SubRoomInv, MemberInv, ArmedInv,
           Tick \/ \E r \in SubRoom : ExpireSubRoom(r)
    PROVE  ArmedInv'
<1> USE DEF TypeInv
<1>1. CASE Tick
  <2>1. /\ deleteAt' = [r \in SubRoom |-> Elapsed(deleteAt[r])]
        /\ timers' = Aged(timers) /\ dropped' = Aged(dropped)
        /\ carry' = [p \in Peer |-> Aged(carry[p])]
        /\ UNCHANGED <<status, pc>>
    BY Zenon, <1>1 DEF Tick, roomVars
  <2>2. \A p \in Peer : CarriesNone(p)'
    BY <2>1 DEF ArmedInv, CarriesNone, Aged
  <2>3. ASSUME NEW r \in SubRoom, NEW d, Held(<<r, d>>)
        PROVE  Held(<<r, Elapsed(d)>>)'
    <3>1. ASSUME NEW S, <<r, d>> \in S PROVE <<r, Elapsed(d)>> \in Aged(S)
      BY SMTT(30), <3>1 DEF Aged
    <3>2. CASE <<r, d>> \in timers \/ <<r, d>> \in dropped
      BY Zenon, <2>1, <3>1, <3>2 DEF Held
    <3>3. ASSUME NEW p \in Peer, <<r, d>> \in carry[p] PROVE <<r, Elapsed(d)>> \in carry'[p]
      BY <2>1, <3>1, <3>3
    <3>4. QED
      BY Zenon, <2>3, <3>2, <3>3 DEF Held
  <2>4. \A r \in SubRoom : deleteAt'[r] # NoDeadline => deleteAt[r] # NoDeadline
    BY SMTT(30), <2>1 DEF Elapsed, NoDeadline
  <2>5. QED
    BY ZenonT(30), <2>1, <2>2, <2>3, <2>4 DEF ArmedInv
<1>2. CASE \E r \in SubRoom : ExpireSubRoom(r)
  <2> PICK r \in SubRoom : ExpireSubRoom(r)
    BY Zenon, <1>2
  <2>1. /\ <<r, 0>> \in timers /\ timers' = timers \ {<<r, 0>>}
        /\ UNCHANGED <<status, pc, carry, dropped>>
        /\ \/ deleteAt' = [deleteAt EXCEPT ![r] = NoDeadline]
           \/ ~Expires(r) /\ deleteAt' = deleteAt
    BY Zenon DEF ExpireSubRoom, roomVars, joinVars
  <2>2. status # "absent"
    BY Zenon, <2>1 DEF MemberInv, NotYet
  <2>3. status # "gone" => deleteAt'[r] # 0
    BY SMTT(30), <2>1, <2>2 DEF TypeOK, SubRoomInv, DeadlineIffEmpty, Expires, Live, NoDeadline
  <2>4. \A s \in SubRoom : deleteAt'[s] \in {deleteAt[s], NoDeadline}
    BY Zenon, <2>1 DEF TypeOK
  <2>5. \A e : Held(e) => Held(e)' \/ e = <<r, 0>>
    BY Zenon, <2>1 DEF Held
  <2>6. \A p \in Peer : CarriesNone(p)'
    BY <2>1 DEF ArmedInv, CarriesNone
  <2>7. QED
    BY <2>1, <2>3, <2>4, <2>5, <2>6 DEF ArmedInv
<1>3. QED
  BY Zenon, <1>1, <1>2

\* Every step keeps every deadline armed.
LEMMA NextArmedInv ==
    TypeInv /\ SubRoomInv /\ MemberInv /\ ArmedInv /\ [Next]_vars => ArmedInv'
<1> SUFFICES ASSUME TypeInv, SubRoomInv, MemberInv, ArmedInv, [Next]_vars PROVE ArmedInv'
  BY Zenon
<1>1. CASE UNCHANGED vars
  BY <1>1 DEF vars, roomVars, subVars, joinVars, ArmedInv, CarriesNone, Held
<1>2. QED
  BY <1>1, JoinArmedInv, MessageArmedInv, RemovalArmedInv, TimerArmedInv DEF Next

\* However joins, evictions, moves, leaves, kicks and expiries interleave, the
\* room fits together: the two member lists differ only by a join or a removal
\* under way, a sharer is a member with a sub-room or is being removed, a closed
\* connection has left nothing behind, and every deadline has its timer.
THEOREM RoomAlwaysConsistent == Spec => []RoomInv
<1>1. TypeInv /\ SubRoomInv /\ MemberInv /\ ArmedInv => RoomInv
  <2> SUFFICES ASSUME TypeInv, SubRoomInv, MemberInv, ArmedInv PROVE RoomInv
    OBVIOUS
  <2>1. \A p \in Peer : Delisting(p) => BeingRemoved(p)
    BY Zenon DEF Delisting, BeingRemoved
  <2>2. ListsAgree
    BY ZenonT(30), <2>1 DEF ListsAgree, MemberInv, Placed, Live
  <2>3. SharerIsMember
    BY Zenon DEF SharerIsMember, MemberInv, Placed, Live, TypeInv, TypeOK
  <2>4. ClosedLeavesNothing
    BY ZenonT(30) DEF ClosedLeavesNothing, MemberInv, Placed, Live
  <2>5. DeadlineArmed
    BY Zenon DEF DeadlineArmed, ArmedInv, Held, Live
  <2>6. QED
    BY <2>2, <2>3, <2>4, <2>5 DEF RoomInv, TypeInv
<1>2. QED
  BY <1>1, InitTypeInv, NextTypeInv, InitSubRoomInv, NextSubRoomInv, InitMemberInv,
     NextMemberInv, InitArmedInv, NextArmedInv, PTL DEF Spec

=============================================================================
