-------------------------- MODULE ChannelMembership --------------------------
(***************************************************************************)
(* One channel's members, bans and invites (channel/channel.rs) and what a *)
(* ban does to the channel's voice room (channel/routes.rs).               *)
(*                                                                         *)
(* Requests run concurrently and a SQL statement is a step, at Postgres'   *)
(* default isolation: what a request read in one statement may have        *)
(* changed before its next one.  Row locks that a transaction keeps across *)
(* steps are those of an invite being used and of a channel being deleted. *)
(* The voice room is the set of users on its participant list; its inside  *)
(* is modelled in VoiceRoom.                                               *)
(***************************************************************************)
EXTENDS Naturals, FiniteSets

CONSTANTS
    User,       \* users.user_id
    Owner,      \* the user that creates the channel
    VoiceUser,  \* users that join voice
    Code,       \* invite codes; no more invites are created when they run out
    Task,       \* requests that can be in progress at the same time
    None,       \* placeholder: no user, code or task
    MaxUses     \* channel_invites.max_uses

ASSUME OwnerAssumption == Owner \in User
ASSUME VoiceUserAssumption == VoiceUser \subseteq User
ASSUME ChannelFinite == IsFiniteSet(User) /\ IsFiniteSet(Code) /\ IsFiniteSet(Task)
ASSUME ChannelNone == None \notin User \cup Code \cup Task
ASSUME UsesAssumption == MaxUses \in Nat \ {0}

VARIABLES
    phase,      \* "none", "live" or "deleted": the row of channels
    role,       \* channel_memberships.role, "none" without a row
    banned,     \* members with banned_at
    invites,    \* rows of channel_invites
    drawn,      \* codes drawn so far
    expired,    \* invites whose expires_at has passed
    uses,       \* channel_invites.uses
    joins,      \* history: members that came in by each code
    chanLock,   \* the task deleting the channel
    invLock,    \* the task using each invite
    pc,         \* where each request is
    req,        \* what it is about
    voice,      \* users in the channel's voice room
    escaped     \* history: banned users in voice that no ban will eject

dbVars == <<phase, role, banned, invites, drawn, expired, uses, joins>>
lockVars == <<chanLock, invLock>>
voiceVars == <<voice, escaped>>
vars == <<dbVars, lockVars, pc, req, voiceVars>>

Role == {"none", "member", "admin", "owner"}
Stage == {"idle", "join", "joinSelect", "joinInsert", "leave", "invite", "revoke", "target",
          "ban", "unban", "role", "banFind", "banEject", "delete", "cascade", "voice"}

\* who is the user that joins or leaves, on the target of a ban or a change,
\* rank the requester's role as it was read, to the role to assign, then
\* the statement that follows the look at the target, found whether the
\* session that a ban found in voice is still that user's session.
NoReq == [who |-> None, on |-> None, code |-> None, rank |-> "none", to |-> "none",
          then |-> "idle", found |-> FALSE]

Init ==
    /\ phase = "none"
    /\ role = [u \in User |-> "none"]
    /\ banned = {} /\ invites = {} /\ drawn = {} /\ expired = {}
    /\ uses = [c \in Code |-> 0] /\ joins = uses
    /\ chanLock = None /\ invLock = [c \in Code |-> None]
    /\ pc = [k \in Task |-> "idle"] /\ req = [k \in Task |-> NoReq]
    /\ voice = {} /\ escaped = {}

CreateChannel ==
    /\ phase = "none"
    /\ phase' = "live"
    /\ role' = [role EXCEPT ![Owner] = "owner"]
    /\ UNCHANGED <<banned, invites, drawn, expired, uses, joins, lockVars, pc, req, voiceVars>>

(***************************************************************************)
(* Steps of a request.                                                     *)
(***************************************************************************)

\* A request's first statement found what it requires.
Begin(k, stage, r) ==
    /\ pc[k] = "idle"
    /\ phase # "none"
    /\ pc' = [pc EXCEPT ![k] = stage]
    /\ req' = [req EXCEPT ![k] = r]
    /\ UNCHANGED <<dbVars, lockVars, voiceVars>>

GoTo(k, to) ==
    /\ pc' = [pc EXCEPT ![k] = to]
    /\ UNCHANGED req

End(k) ==
    /\ pc' = [pc EXCEPT ![k] = "idle"]
    /\ req' = [req EXCEPT ![k] = NoReq]

Unlock(k) ==
    /\ chanLock' = IF chanLock = k THEN None ELSE chanLock
    /\ invLock' = [c \in Code |-> IF invLock[c] = k THEN None ELSE invLock[c]]

\* Nobody is escaped who is not both in voice and banned.
KeepEscaped(more) == escaped' = (escaped \cup more) \cap voice' \cap banned'

Manager(u) == role[u] \in {"admin", "owner"} /\ u \notin banned

\* DELETE FROM channel_invites: the rows go with what they recorded.
DeleteInvites(gone) ==
    /\ invites' = invites \ gone
    /\ expired' = expired \ gone
    /\ uses' = [c \in Code |-> IF c \in gone THEN 0 ELSE uses[c]]
    /\ joins' = [c \in Code |-> IF c \in gone THEN 0 ELSE joins[c]]

Usable(c) == c \in invites \ expired /\ uses[c] < MaxUses

(***************************************************************************)
(* join_channel_by_invite: one transaction that holds the invite's row.    *)
(***************************************************************************)

Join(k, u, c) ==
    /\ c \in drawn
    /\ Begin(k, "join", [NoReq EXCEPT !.who = u, !.code = c])

JoinUpdate(k) ==
    LET c == req[k].code
    IN  /\ pc[k] = "join"
        /\ \/ /\ Usable(c) /\ invLock[c] = None
              /\ invLock' = [invLock EXCEPT ![c] = k]
              /\ GoTo(k, "joinSelect")
           \/ ~Usable(c) /\ End(k) /\ UNCHANGED invLock
        /\ UNCHANGED <<dbVars, chanLock, voiceVars>>

\* A member, banned or not, is refused and the transaction rolled back.
MutJoinSelect(k) ==
    /\ pc[k] = "joinSelect"
    /\ \/ role[req[k].who] # "none" /\ End(k)
       \/ role[req[k].who] = "none" /\ GoTo(k, "joinInsert")
    /\ UNCHANGED <<dbVars, lockVars, voiceVars>>

JoinSelect(k) ==
    /\ pc[k] = "joinSelect"
    /\ \/ role[req[k].who] # "none" /\ End(k) /\ Unlock(k)
       \/ role[req[k].who] = "none" /\ GoTo(k, "joinInsert") /\ UNCHANGED lockVars
    /\ UNCHANGED <<dbVars, voiceVars>>

\* The INSERT references the channel and waits for one being deleted.  ON
\* CONFLICT DO NOTHING rolls back a join that another one overtook.
MutJoinInsert(k) ==
    LET u == req[k].who c == req[k].code
    IN  /\ pc[k] = "joinInsert"
        /\ chanLock = None
        /\ uses' = [uses EXCEPT ![c] = @ + 1]
        /\ \/ /\ role[u] = "none"
              /\ role' = [role EXCEPT ![u] = "member"]
              /\ joins' = [joins EXCEPT ![c] = @ + 1]
           \/ role[u] # "none" /\ UNCHANGED <<role, joins>>
        /\ End(k) /\ Unlock(k)
        /\ UNCHANGED <<phase, banned, invites, drawn, expired, voiceVars>>

MutJoinUpsert(k) ==
    LET u == req[k].who c == req[k].code
    IN  /\ pc[k] = "joinInsert"
        /\ chanLock = None
        /\ role' = [role EXCEPT ![u] = IF @ = "none" THEN "member" ELSE @]
        /\ banned' = banned \ {u}
        /\ uses' = [uses EXCEPT ![c] = @ + 1]
        /\ joins' = [joins EXCEPT ![c] = @ + 1]
        /\ End(k) /\ Unlock(k)
        /\ UNCHANGED <<phase, invites, drawn, expired, voiceVars>>

JoinInsert(k) ==
    LET u == req[k].who c == req[k].code
    IN  /\ pc[k] = "joinInsert"
        /\ chanLock = None
        /\ \/ /\ role[u] = "none"
              /\ role' = [role EXCEPT ![u] = "member"]
              /\ uses' = [uses EXCEPT ![c] = @ + 1]
              /\ joins' = [joins EXCEPT ![c] = @ + 1]
           \/ role[u] # "none" /\ UNCHANGED <<role, uses, joins>>
        /\ End(k) /\ Unlock(k)
        /\ UNCHANGED <<phase, banned, invites, drawn, expired, voiceVars>>

(***************************************************************************)
(* leave_channel, create_invite and revoke_invite: a look at the own row,  *)
(* then a statement of its own.                                            *)
(***************************************************************************)

Leave(k, u) ==
    /\ role[u] \in {"member", "admin"} /\ u \notin banned
    /\ Begin(k, "leave", [NoReq EXCEPT !.who = u])

LeaveDelete(k) ==
    /\ pc[k] = "leave"
    /\ role' = [role EXCEPT ![req[k].who] = "none"]
    /\ banned' = banned \ {req[k].who}
    /\ End(k)
    /\ UNCHANGED <<phase, invites, drawn, expired, uses, joins, lockVars, voice>>
    /\ KeepEscaped({})

\* A random code: any one not drawn before will do.
Fresh(S, used) == CHOOSE x \in S \ used : TRUE

DrawInvite(c) ==
    /\ invites' = invites \cup {c}
    /\ drawn' = drawn \cup {c}

CreateInvite(k, u) ==
    /\ Manager(u)
    /\ Begin(k, "invite", NoReq)

\* The INSERT fails when the channel is gone by then.
InviteInsert(k) ==
    /\ pc[k] = "invite"
    /\ chanLock = None
    /\ \/ phase = "live" /\ Code # drawn /\ DrawInvite(Fresh(Code, drawn))
       \/ /\ phase = "deleted" \/ Code = drawn
          /\ UNCHANGED <<invites, drawn>>
    /\ End(k)
    /\ UNCHANGED <<phase, role, banned, expired, uses, joins, lockVars, voiceVars>>

RevokeInvite(k, u, c) ==
    /\ Manager(u)
    /\ c \in drawn
    /\ Begin(k, "revoke", [NoReq EXCEPT !.code = c])

RevokeDelete(k) ==
    /\ pc[k] = "revoke"
    /\ invLock[req[k].code] = None
    /\ DeleteInvites({req[k].code})
    /\ End(k)
    /\ UNCHANGED <<phase, role, banned, drawn, lockVars, voiceVars>>

(***************************************************************************)
(* ban_member, unban_member and change_role: the requester's row, the      *)
(* target's row, then an unconditional UPDATE.                             *)
(***************************************************************************)

Ban(k, u, v) ==
    /\ u # v
    /\ Manager(u)
    /\ Begin(k, "target", [NoReq EXCEPT !.on = v, !.rank = role[u], !.then = "ban"])

Unban(k, u, v) ==
    /\ Manager(u)
    /\ Begin(k, "target", [NoReq EXCEPT !.on = v, !.then = "unban"])

ChangeRole(k, u, v, r) ==
    /\ u # v
    /\ role[u] = "owner" /\ u \notin banned
    /\ Begin(k, "target", [NoReq EXCEPT !.on = v, !.to = r, !.then = "role"])

MutTargetAccepted(r) ==
    /\ role[r.on] # "none"
    /\ r.then = "unban" <=> r.on \in banned
    /\ r.then = "ban" => ~(r.rank = "admin" /\ role[r.on] = "admin")

TargetAccepted(r) ==
    /\ role[r.on] # "none"
    /\ r.then = "unban" <=> r.on \in banned
    /\ r.then \in {"ban", "role"} => role[r.on] # "owner"
    /\ r.then = "ban" => ~(r.rank = "admin" /\ role[r.on] = "admin")

Target(k) ==
    /\ pc[k] = "target"
    /\ \/ /\ TargetAccepted(req[k])
          /\ pc' = [pc EXCEPT ![k] = req[k].then]
          /\ req' = [req EXCEPT ![k].rank = "none", ![k].then = "idle"]
       \/ ~TargetAccepted(req[k]) /\ End(k)
    /\ UNCHANGED <<dbVars, lockVars, voiceVars>>

\* UPDATE ... RETURNING: the request fails if the member has left.
BanUpdate(k) ==
    /\ pc[k] = "ban"
    /\ \/ /\ role[req[k].on] # "none"
          /\ banned' = banned \cup {req[k].on}
          /\ GoTo(k, "banFind")
       \/ role[req[k].on] = "none" /\ End(k) /\ UNCHANGED banned
    /\ UNCHANGED <<phase, role, invites, drawn, expired, uses, joins, lockVars, voiceVars>>

UnbanUpdate(k) ==
    /\ pc[k] = "unban"
    /\ banned' = banned \ {req[k].on}
    /\ End(k)
    /\ UNCHANGED <<phase, role, invites, drawn, expired, uses, joins, lockVars, voice>>
    /\ KeepEscaped({})

RoleUpdate(k) ==
    /\ pc[k] = "role"
    /\ role' = [role EXCEPT ![req[k].on] = IF @ = "none" THEN "none" ELSE req[k].to]
    /\ End(k)
    /\ UNCHANGED <<phase, banned, invites, drawn, expired, uses, joins, lockVars, voiceVars>>

(***************************************************************************)
(* Voice: joining, leaving, and the ejection that follows a ban.           *)
(***************************************************************************)

\* Sessions of u that some ban has found are not u's session any more.
Stale(u) == [j \in Task |-> IF req[j].on = u THEN [req[j] EXCEPT !.found = FALSE] ELSE req[j]]

VoiceJoin(k, u) ==
    /\ role[u] # "none" /\ u \notin banned
    /\ Begin(k, "voice", [NoReq EXCEPT !.who = u])

VoiceAdd(k) ==
    LET u == req[k].who
    IN  /\ pc[k] = "voice"
        /\ voice' = voice \cup {u}
        /\ pc' = [pc EXCEPT ![k] = "idle"]
        /\ req' = [Stale(u) EXCEPT ![k] = NoReq]
        /\ UNCHANGED <<dbVars, lockVars>>
        /\ KeepEscaped({u})

VoiceLeave(u) ==
    /\ u \in voice
    /\ voice' = voice \ {u}
    /\ req' = Stale(u)
    /\ UNCHANGED <<dbVars, lockVars, pc>>
    /\ KeepEscaped({})

MutBanFind(k) ==
    /\ pc[k] = "banFind"
    /\ \/ /\ req[k].on \in voice /\ role[req[k].on] = "member"
          /\ pc' = [pc EXCEPT ![k] = "banEject"]
          /\ req' = [req EXCEPT ![k].found = TRUE]
       \/ (req[k].on \notin voice \/ role[req[k].on] # "member") /\ End(k)
    /\ UNCHANGED <<dbVars, lockVars, voiceVars>>

BanFind(k) ==
    /\ pc[k] = "banFind"
    /\ \/ /\ req[k].on \in voice
          /\ pc' = [pc EXCEPT ![k] = "banEject"]
          /\ req' = [req EXCEPT ![k].found = TRUE]
       \/ req[k].on \notin voice /\ End(k)
    /\ UNCHANGED <<dbVars, lockVars, voiceVars>>

\* The session that was found is removed; a newer one of the same user is not.
BanEject(k) ==
    LET u == req[k].on
    IN  /\ pc[k] = "banEject"
        /\ \/ /\ req[k].found
              /\ voice' = voice \ {u}
              /\ req' = [Stale(u) EXCEPT ![k] = NoReq]
           \/ /\ ~req[k].found
              /\ req' = [req EXCEPT ![k] = NoReq]
              /\ UNCHANGED voice
        /\ pc' = [pc EXCEPT ![k] = "idle"]
        /\ UNCHANGED <<dbVars, lockVars>>
        /\ KeepEscaped({})

(***************************************************************************)
(* delete_channel, the invite sweep, and what may happen to a request.     *)
(***************************************************************************)

Delete(k) ==
    /\ phase = "live"
    /\ Begin(k, "delete", NoReq)

DeleteLock(k) ==
    /\ pc[k] = "delete"
    /\ \/ /\ phase = "live" /\ chanLock = None
          /\ chanLock' = k
          /\ GoTo(k, "cascade")
       \/ phase = "deleted" /\ End(k) /\ UNCHANGED chanLock
    /\ UNCHANGED <<dbVars, invLock, voiceVars>>

\* ON DELETE CASCADE takes the members and the invites, waiting for an invite
\* that is being used.
DeleteCommit(k) ==
    /\ pc[k] = "cascade"
    /\ \A c \in invites : invLock[c] = None
    /\ phase' = "deleted"
    /\ role' = [u \in User |-> "none"]
    /\ banned' = {}
    /\ DeleteInvites(invites)
    /\ End(k) /\ Unlock(k)
    /\ UNCHANGED <<drawn, voice>>
    /\ KeepEscaped({})

Expire(c) ==
    /\ c \in invites \ expired
    /\ expired' = expired \cup {c}
    /\ UNCHANGED <<phase, role, banned, invites, drawn, uses, joins, lockVars, pc, req, voiceVars>>

SweepExpiredInvites ==
    LET gone == invites \cap expired
    IN  /\ gone # {}
        /\ \A c \in gone : invLock[c] = None
        /\ DeleteInvites(gone)
        /\ UNCHANGED <<phase, role, banned, drawn, lockVars, pc, req, voiceVars>>

WaitsFor(k, j) ==
    \/ pc[k] = "join" /\ Usable(req[k].code) /\ invLock[req[k].code] = j
    \/ pc[k] = "revoke" /\ invLock[req[k].code] = j
    \/ pc[k] \in {"joinInsert", "invite", "delete"} /\ chanLock = j
    \/ pc[k] = "cascade" /\ \E c \in invites : invLock[c] = j

\* k is on a cycle: some tasks can be permuted so that each waits for the next.
Deadlocked(k) ==
    /\ \E j \in Task : WaitsFor(k, j)
    /\ \E S \in SUBSET Task :
         /\ k \in S
         /\ \E next \in [S -> S] :
              /\ \A x \in S : WaitsFor(x, next[x])
              /\ {next[x] : x \in S} = S

\* A transaction in progress is rolled back; a committed ban stands and its
\* ejection does not happen.
Fail(k) ==
    /\ pc[k] # "idle"
    /\ End(k) /\ Unlock(k)
    /\ UNCHANGED <<dbVars, voice>>
    /\ KeepEscaped(IF pc[k] \in {"banFind", "banEject"} THEN {req[k].on} ELSE {})

\* The client hangs up and the handler is dropped, or the database fails.
Abandon(k) == Fail(k)

Victim(k) == Deadlocked(k) /\ Fail(k)

-----------------------------------------------------------------------------
Request(k) ==
    \/ \E u \in User :
         \/ Leave(k, u) \/ CreateInvite(k, u)
         \/ \E c \in Code : Join(k, u, c) \/ RevokeInvite(k, u, c)
         \/ \E v \in User :
              \/ Ban(k, u, v) \/ Unban(k, u, v)
              \/ \E r \in {"member", "admin"} : ChangeRole(k, u, v, r)
    \/ \E u \in VoiceUser : VoiceJoin(k, u)
    \/ Delete(k)

TaskStep(k) ==
    \/ JoinUpdate(k) \/ JoinSelect(k) \/ JoinInsert(k)
    \/ LeaveDelete(k) \/ InviteInsert(k) \/ RevokeDelete(k)
    \/ Target(k) \/ BanUpdate(k) \/ UnbanUpdate(k) \/ RoleUpdate(k)
    \/ VoiceAdd(k) \/ BanFind(k) \/ BanEject(k)
    \/ DeleteLock(k) \/ DeleteCommit(k)

Next ==
    \/ CreateChannel
    \/ \E k \in Task : Request(k) \/ TaskStep(k) \/ Abandon(k) \/ Victim(k)
    \/ \E u \in VoiceUser : VoiceLeave(u)
    \/ \E c \in Code : Expire(c)
    \/ SweepExpiredInvites

Spec == Init /\ [][Next]_vars

\* A request keeps being worked on.  Postgres queues the waiters of a row, so
\* one that is waiting gets it in the end, and breaks deadlocks.
Fairness == \A k \in Task : SF_vars(TaskStep(k) \/ Victim(k))

FairSpec == Spec /\ Fairness

-----------------------------------------------------------------------------
TypeOK ==
    /\ phase \in {"none", "live", "deleted"}
    /\ role \in [User -> Role]
    /\ banned \subseteq {u \in User : role[u] # "none"}
    /\ invites \subseteq drawn /\ drawn \subseteq Code /\ expired \subseteq invites
    /\ uses \in [Code -> 0 .. MaxUses] /\ joins \in [Code -> Nat]
    /\ chanLock \in Task \cup {None} /\ invLock \in [Code -> Task \cup {None}]
    /\ pc \in [Task -> Stage]
    /\ voice \subseteq VoiceUser /\ escaped \subseteq VoiceUser
    /\ \A k \in Task :
         /\ req[k].who \in User \cup {None} /\ req[k].on \in User \cup {None}
         /\ req[k].code \in Code \cup {None}

\* A live channel has exactly one owner, the user who created it, who is never
\* banned, whatever bans, role changes and departures race with each other
\* although none of their UPDATEs repeats what was checked before.
OwnerStays ==
    phase = "live" => {u \in User : role[u] = "owner"} = {Owner} /\ Owner \notin banned

\* The uses of an invite are the members it let in: a refused or failed join
\* takes none back or away, and a code never lets in more than max_uses.
UsesAreJoins == \A c \in Code : uses[c] = joins[c] /\ joins[c] <= MaxUses

\* A deleted channel has no members and no invites, not even one that a
\* request which checked its permission before the deletion inserts after it.
DeletedLeavesNothing ==
    phase = "deleted" => invites = {} /\ \A u \in User : role[u] = "none"

\* The rows of a channel fit together between any two statements: one owner
\* while it lives, nothing once it is deleted.
ChannelInv == TypeOK /\ OwnerStays /\ DeletedLeavesNothing

\* A ban leaves its user in voice only in two ways: the user's voice join had
\* passed its membership check before the ban, or the ban request was dropped
\* between the ban and the ejection.
BanEjects ==
    \A u \in voice \cap banned :
        \/ u \in escaped
        \/ \E k \in Task : req[k].on = u /\ (pc[k] = "banFind" \/ req[k].found)

\* Every request ends, although delete_channel (channel, then invites) and
\* join_channel_by_invite (invite, then channel) lock in opposite orders.
RequestEnds == \A k \in Task : pc[k] # "idle" ~> pc[k] = "idle"

\* "Banned members cannot leave (must be unbanned first)": a ban ends only by
\* unban_member, with the channel, or by a leave that was past its check, in no
\* case by joining again, by a role change or by a second ban.
BanOutlivesJoins ==
    [][\A u \in banned \ banned' :
         \/ phase' = "deleted"
         \/ \E k \in Task : pc[k] = "unban" /\ req[k].on = u
         \/ \E k \in Task : pc[k] = "leave" /\ req[k].who = u]_vars
=============================================================================
