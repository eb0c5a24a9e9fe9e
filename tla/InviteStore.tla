---------------------------- MODULE InviteStore ----------------------------
(***************************************************************************)
(* The in-memory store of invite codes (channel/invite.rs).                *)
(*                                                                         *)
(* Every operation holds the write lock of invites from its first check to *)
(* its last write, and the three that change room_invite_counts take its   *)
(* lock inside, so each is one action.  A code is 128 random bits: it is   *)
(* never drawn twice.                                                      *)
(* expires_at is kept relative to the present, as the ticks a code has     *)
(* left, because the code only ever compares it with the clock.            *)
(***************************************************************************)
EXTENDS Naturals, FiniteSets

CONSTANTS
    Code,               \* codes that can be drawn
    Room,               \* room ids
    MaxUses,            \* bound: largest max_uses a client asks for
    TTL,                \* default_ttl, in ticks
    MaxPerRoom,         \* max_invites_per_room
    MaxGlobal           \* max_invites_global

ASSUME CodeAssumption == IsFiniteSet(Code)
ASSUME RoomAssumption == Room # {}
ASSUME LimitAssumption ==
    /\ MaxUses \in Nat /\ TTL \in Nat /\ MaxPerRoom \in Nat /\ MaxGlobal \in Nat

VARIABLES
    drawn,      \* codes drawn so far
    stored,     \* keys of invites
    roomOf,     \* InviteRecord.room_id
    left,       \* InviteRecord.expires_at - now; 0 means expired
    uses,       \* InviteRecord.remaining_uses
    revoked,    \* codes whose record is revoked
    counts,     \* room_invite_counts, 0 where there is no entry
    granted,    \* history: the max_uses a code was drawn with
    accepted    \* history: how often validate_and_consume accepted a code

vars == <<drawn, stored, roomOf, left, uses, revoked, counts, granted, accepted>>

Init ==
    /\ drawn = {} /\ stored = {} /\ revoked = {}
    /\ roomOf = [c \in Code |-> CHOOSE r \in Room : TRUE]
    /\ left = [c \in Code |-> 0]
    /\ uses = [c \in Code |-> 0]
    /\ counts = [r \in Room |-> 0]
    /\ granted = [c \in Code |-> 0]
    /\ accepted = [c \in Code |-> 0]

\* generate's two limits: the whole store, then the room's.
MayGenerate(r) ==
    /\ Cardinality(stored) < MaxGlobal
    /\ counts[r] < MaxPerRoom

\* The limits hold: a new code c for room r, good for n joins.
Generate(c, r, n) ==
    /\ MayGenerate(r)
    /\ c \notin drawn
    /\ drawn' = drawn \cup {c}
    /\ stored' = stored \cup {c}
    /\ roomOf' = [roomOf EXCEPT ![c] = r]
    /\ left' = [left EXCEPT ![c] = TTL]
    /\ uses' = [uses EXCEPT ![c] = n]
    /\ counts' = [counts EXCEPT ![r] = @ + 1]
    /\ granted' = [granted EXCEPT ![c] = n]
    /\ UNCHANGED <<revoked, accepted>>

\* validate: what a join checks before it touches the room, and again, under
\* the store's write lock, when it consumes a use.
Valid(c, r) ==
    /\ c \in stored
    /\ c \notin revoked
    /\ left[c] > 0
    /\ roomOf[c] = r
    /\ uses[c] > 0

\* validate_and_consume, when the code is valid.
MutKeepUses(c, r) ==
    /\ Valid(c, r)
    /\ accepted' = [accepted EXCEPT ![c] = @ + 1]
    /\ UNCHANGED <<drawn, stored, roomOf, left, uses, revoked, counts, granted>>

ValidateAndConsume(c, r) ==
    /\ Valid(c, r)
    /\ uses' = [uses EXCEPT ![c] = @ - 1]
    /\ accepted' = [accepted EXCEPT ![c] = @ + 1]
    /\ UNCHANGED <<drawn, stored, roomOf, left, revoked, counts, granted>>

\* revoke, and revoke_authorized for a host of room r.  The record stays, and
\* so does its share of the room's count.
MutRevoke(c, r) ==
    /\ c \in stored
    /\ roomOf[c] = r
    /\ revoked' = IF c \in revoked THEN revoked \ {c} ELSE revoked \cup {c}
    /\ UNCHANGED <<drawn, stored, roomOf, left, uses, counts, granted, accepted>>

Revoke(c, r) ==
    /\ c \in stored
    /\ roomOf[c] = r
    /\ revoked' = revoked \cup {c}
    /\ UNCHANGED <<drawn, stored, roomOf, left, uses, counts, granted, accepted>>

InRoom(r) == {c \in stored : roomOf[c] = r}

\* remove_room_invites
MutRemoveRoomInvites(r) ==
    /\ stored' = stored \ InRoom(r)
    /\ revoked' = revoked \ InRoom(r)
    /\ UNCHANGED <<drawn, roomOf, left, uses, counts, granted, accepted>>

RemoveRoomInvites(r) ==
    /\ stored' = stored \ InRoom(r)
    /\ revoked' = revoked \ InRoom(r)
    /\ counts' = [counts EXCEPT ![r] = 0]
    /\ UNCHANGED <<drawn, roomOf, left, uses, granted, accepted>>

Expired == {c \in stored : left[c] = 0}

\* sweep_expired takes one from the room's count for each expired record, if
\* there is one to take.
SweptCount(r) ==
    LET n == Cardinality(InRoom(r) \cap Expired)
    IN  IF n <= counts[r] THEN counts[r] - n ELSE 0

MutSweepExpired ==
    LET gone == Expired \ revoked
    IN  /\ gone # {}
        /\ stored' = stored \ gone
        /\ counts' = [r \in Room |-> counts[r] - Cardinality(InRoom(r) \cap gone)]
        /\ UNCHANGED <<drawn, roomOf, left, uses, revoked, granted, accepted>>

SweepExpired ==
    /\ Expired # {}
    /\ stored' = stored \ Expired
    /\ revoked' = revoked \ Expired
    /\ counts' = [r \in Room |-> SweptCount(r)]
    /\ UNCHANGED <<drawn, roomOf, left, uses, granted, accepted>>

Tick ==
    /\ \E c \in stored : left[c] > 0
    /\ left' = [c \in Code |-> IF left[c] > 0 THEN left[c] - 1 ELSE 0]
    /\ UNCHANGED <<drawn, stored, roomOf, uses, revoked, counts, granted, accepted>>

Next ==
    \/ \E c \in Code, r \in Room : \E n \in 0 .. MaxUses : Generate(c, r, n)
    \/ \E c \in Code, r \in Room : ValidateAndConsume(c, r)
    \/ \E c \in Code, r \in Room : Revoke(c, r)
    \/ \E r \in Room : RemoveRoomInvites(r)
    \/ SweepExpired
    \/ Tick

Spec == Init /\ [][Next]_vars

\* The background task of main.rs sweeps at every sweep_interval, and time
\* passes; no client is obliged to do anything.
FairSpec == Spec /\ WF_vars(SweepExpired) /\ WF_vars(Tick)
-----------------------------------------------------------------------------
TypeOK ==
    /\ drawn \subseteq Code /\ stored \subseteq drawn /\ revoked \subseteq stored
    /\ roomOf \in [Code -> Room]
    /\ left \in [Code -> 0 .. TTL]
    /\ uses \in [Code -> Nat]
    /\ counts \in [Room -> Nat]
    /\ granted \in [Code -> Nat]
    /\ accepted \in [Code -> Nat]

\* The two maps agree: a room's entry in room_invite_counts is the number of
\* its records in invites, whatever generations, removals of whole rooms and
\* sweeps happened.
CountsMatch == \A r \in Room : counts[r] = Cardinality(InRoom(r))

\* "Per-room and global invite caps are enforced": no room has more records
\* than max_invites_per_room and the store no more than max_invites_global.
LimitsRespected ==
    /\ Cardinality(stored) <= MaxGlobal
    /\ \A r \in Room : Cardinality(InRoom(r)) <= MaxPerRoom

\* The records of the store: types, counts and caps fit together, whatever
\* order generation, consumption, revocation, removal and sweeps come in.
StoreInv == TypeOK /\ CountsMatch /\ LimitsRespected

\* validate_and_consume never lets a code in more often than it was granted
\* for, and remaining_uses is exactly what is left of the grant.
UsesAccounted ==
    \A c \in drawn :
        /\ accepted[c] <= granted[c]
        /\ c \in stored => uses[c] + accepted[c] = granted[c]

\* A code that validate rejects, because it is revoked, expired, exhausted or
\* gone from the store, is never accepted again.
DeadStaysDead ==
    [][\A c \in drawn : (\A r \in Room : ~Valid(c, r)) => \A r \in Room : ~Valid(c, r)']_vars

\* A room that reached max_invites_per_room can generate again some day, even
\* if all that happens is time and the background sweep.
LimitIsTemporary ==
    MaxPerRoom > 0 =>
        \A r \in Room : counts[r] >= MaxPerRoom ~> counts[r] < MaxPerRoom
=============================================================================
