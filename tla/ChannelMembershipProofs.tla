---------------------- MODULE ChannelMembershipProofs ----------------------
(***************************************************************************)
(* Proofs about ChannelMembership, for any users, invite codes, concurrent *)
(* requests and max_uses.                                                  *)
(***************************************************************************)
EXTENDS ChannelMembership, TLAPS

(***************************************************************************)
(* What a request carries from one statement to the next.                  *)
(***************************************************************************)
RequestData == [who : User \cup {None}, on : User \cup {None}, code : Code \cup {None},
                rank : Role, to : Role, then : Stage, found : BOOLEAN]

\* What request r needs to hold when its next statement is s.
Fits(s, r) ==
    /\ s \in {"join", "joinSelect", "joinInsert"} => r.who \in User /\ r.code \in Code
    /\ s = "leave" => r.who \in User
    /\ s = "voice" => r.who \in VoiceUser
    /\ s = "revoke" => r.code \in Code
    /\ s \in {"target", "ban", "unban", "role", "banFind", "banEject"} => r.on \in User
    /\ s = "target" => r.then \in {"ban", "unban", "role"}
    /\ (s = "target" /\ r.then = "role") \/ s = "role" => r.to \in {"member", "admin"}
    /\ r.found => s = "banEject"

RequestsFit ==
    /\ pc \in [Task -> Stage]
    /\ req \in [Task -> RequestData]
    /\ \A k \in Task : Fits(pc[k], req[k])

\* Before the first request nobody carries anything.
LEMMA InitRequestsFit == Init => RequestsFit
BY DEF Init, RequestsFit, Fits, NoReq, RequestData, Role, Stage

\* A request is idle without data.
LEMMA NoReqFits == /\ NoReq \in RequestData
                   /\ Fits("idle", NoReq)
BY DEF NoReq, RequestData, Fits, Role, Stage

\* One request goes on to a statement whose data it has.
LEMMA OneMoves ==
    ASSUME RequestsFit, NEW k \in Task, NEW s \in Stage, NEW r \in RequestData, Fits(s, r),
           pc' = [pc EXCEPT ![k] = s], req' = [req EXCEPT ![k] = r]
    PROVE  RequestsFit'
<1>1. \A j \in Task : Fits(pc'[j], req'[j])
  BY Zenon DEF RequestsFit
<1>2. QED
  BY <1>1 DEF RequestsFit

\* One request ends.
LEMMA OneEnds ==
    ASSUME RequestsFit, NEW k \in Task, End(k)
    PROVE  RequestsFit'
BY Zenon, NoReqFits, OneMoves DEF End, Stage

\* A new request has the data of its first statement.
LEMMA RequestFits ==
    ASSUME RequestsFit, TypeOK, NEW k \in Task, Request(k)
    PROVE  RequestsFit'
<1> DEFINE Moves == \E s \in Stage, r \in RequestData :
                        Fits(s, r) /\ pc' = [pc EXCEPT ![k] = s] /\ req' = [req EXCEPT ![k] = r]
<1>1. "none" \in Role /\ \A s \in {"idle", "ban", "unban", "role"} : s \in Stage
  BY DEF Role, Stage
<1>2. ASSUME NEW u \in User, Leave(k, u) PROVE Moves
  <2>1. [NoReq EXCEPT !.who = u] \in RequestData
    BY Zenon, <1>1 DEF NoReq, RequestData
  <2>2. \E s \in {"leave"} : s \in Stage /\ Fits(s, [NoReq EXCEPT !.who = u])
    BY DEF Fits, NoReq, Stage
  <2>3. QED
    BY Zenon, <1>2, <2>1, <2>2 DEF Leave, Begin
<1>3. ASSUME NEW u \in User, NEW c \in Code, Join(k, u, c) \/ RevokeInvite(k, u, c)
      PROVE  Moves
  <2>1. [NoReq EXCEPT !.who = u, !.code = c] \in RequestData
    BY Zenon, <1>1 DEF NoReq, RequestData
  <2>2. [NoReq EXCEPT !.code = c] \in RequestData
    BY Zenon, <1>1 DEF NoReq, RequestData
  <2>3. CASE Join(k, u, c)
    <3>1. \E s \in {"join"} : s \in Stage /\ Fits(s, [NoReq EXCEPT !.who = u, !.code = c])
      BY DEF Fits, NoReq, Stage
    <3>2. QED
      BY Zenon, <2>1, <2>3, <3>1 DEF Join, Begin
  <2>4. CASE RevokeInvite(k, u, c)
    <3>1. \E s \in {"revoke"} : s \in Stage /\ Fits(s, [NoReq EXCEPT !.code = c])
      BY DEF Fits, NoReq, Stage
    <3>2. QED
      BY Zenon, <2>2, <2>4, <3>1 DEF RevokeInvite, Begin
  <2>5. QED
    BY <1>3, <2>3, <2>4
<1>4. ASSUME NEW u \in User, NEW v \in User, NEW a \in Role, NEW b \in {"member", "admin"},
             NEW r \in {[NoReq EXCEPT !.on = v, !.rank = a, !.then = "ban"],
                        [NoReq EXCEPT !.on = v, !.then = "unban"],
                        [NoReq EXCEPT !.on = v, !.to = b, !.then = "role"]}
      PROVE  r \in RequestData /\ Fits("target", r)
  <2>1. b \in Role
    BY DEF Role
  <2>2. r \in RequestData
    BY ZenonT(30), <1>1, <2>1 DEF NoReq, RequestData
  <2>3. Fits("target", r)
    BY ZenonT(30) DEF NoReq, Fits
  <2>4. QED
    BY <2>2, <2>3
<1>5. ASSUME NEW u \in User, NEW v \in User,
             \/ Ban(k, u, v) \/ Unban(k, u, v)
             \/ \E b \in {"member", "admin"} : ChangeRole(k, u, v, b)
      PROVE  Moves
  <2>1. PICK b \in {"member", "admin"}, a \in Role :
            \E r \in {[NoReq EXCEPT !.on = v, !.rank = a, !.then = "ban"],
                      [NoReq EXCEPT !.on = v, !.then = "unban"],
                      [NoReq EXCEPT !.on = v, !.to = b, !.then = "role"]} :
                /\ pc' = [pc EXCEPT ![k] = "target"]
                /\ req' = [req EXCEPT ![k] = r]
    <3>1. role[u] \in Role
      BY DEF TypeOK
    <3>2. QED
      BY Zenon, <1>5, <3>1 DEF Ban, Unban, ChangeRole, Begin
  <2>2. "target" \in Stage
    BY DEF Stage
  <2>3. QED
    BY Zenon, <1>4, <2>1, <2>2
<1>6. ASSUME NEW u \in VoiceUser, VoiceJoin(k, u) PROVE Moves
  <2>1. [NoReq EXCEPT !.who = u] \in RequestData
    BY Zenon, <1>1, VoiceUserAssumption DEF NoReq, RequestData
  <2>2. \E s \in {"voice"} : s \in Stage /\ Fits(s, [NoReq EXCEPT !.who = u])
    BY DEF Fits, NoReq, Stage
  <2>3. QED
    BY Zenon, <1>6, <2>1, <2>2 DEF VoiceJoin, Begin
<1>7. ASSUME Delete(k) \/ \E u \in User : CreateInvite(k, u) PROVE Moves
  <2>1. \E s \in {"delete", "invite"} : Begin(k, s, NoReq)
    BY <1>7 DEF Delete, CreateInvite
  <2>2. \A s \in {"delete", "invite"} : s \in Stage /\ Fits(s, NoReq)
    BY DEF Fits, NoReq, Stage
  <2>3. QED
    BY Zenon, <2>1, <2>2, NoReqFits DEF Begin
<1>8. Moves
  BY <1>2, <1>3, <1>5, <1>6, <1>7 DEF Request
<1>9. QED
  BY Zenon, <1>8, OneMoves

\* Forgetting which session a ban has found keeps the data in order.
LEMMA StaleFits ==
    ASSUME RequestsFit, NEW u
    PROVE  /\ Stale(u) \in [Task -> RequestData]
           /\ \A j \in Task : Fits(pc[j], Stale(u)[j])
<1>1. \A j \in Task : [req[j] EXCEPT !.found = FALSE] \in RequestData
  BY ZenonT(30) DEF RequestsFit, RequestData
<1>2. \A j \in Task : Fits(pc[j], [req[j] EXCEPT !.found = FALSE])
  BY DEF RequestsFit, RequestData, Fits
<1>3. QED
  BY <1>1, <1>2 DEF Stale, RequestsFit

\* Every statement of a request leaves it with the data of the next one.
LEMMA StepFits ==
    ASSUME RequestsFit, NEW k \in Task, TaskStep(k)
    PROVE  RequestsFit'
<1>1. CASE End(k)
  BY <1>1, OneEnds
<1>2. CASE JoinUpdate(k) \/ JoinSelect(k) \/ BanUpdate(k) \/ DeleteLock(k)
  <2>1. End(k) \/ \E s \in Stage, r \in RequestData :
            Fits(s, r) /\ pc' = [pc EXCEPT ![k] = s] /\ req' = [req EXCEPT ![k] = r]
    <3>1. req = [req EXCEPT ![k] = req[k]] /\ req[k] \in RequestData /\ Fits(pc[k], req[k])
      BY DEF RequestsFit
    <3>2. QED
      BY <1>2, <3>1 DEF JoinUpdate, JoinSelect, BanUpdate, DeleteLock, GoTo, Fits, Stage
  <2>2. QED
    BY <2>1, OneEnds, OneMoves
<1>3. CASE Target(k) /\ ~End(k)
  <2> DEFINE r == [req[k] EXCEPT !.rank = "none", !.then = "idle"]
  <2>1. /\ pc[k] = "target" /\ pc' = [pc EXCEPT ![k] = req[k].then]
        /\ req' = [req EXCEPT ![k] = r]
    BY Zenon, <1>3 DEF Target, RequestsFit
  <2>2. r \in RequestData /\ req[k].then \in Stage
    <3>1. req[k] \in RequestData /\ "none" \in Role /\ "idle" \in Stage
      BY DEF RequestsFit, Role, Stage
    <3>2. QED
      BY Zenon, <3>1 DEF RequestData
  <2>3. Fits(req[k].then, r)
    BY <2>1 DEF RequestsFit, RequestData, Fits
  <2> HIDE DEF r
  <2>4. QED
    BY Zenon, <2>1, <2>2, <2>3, OneMoves
<1>4. CASE BanFind(k) /\ ~End(k)
  <2> DEFINE r == [req[k] EXCEPT !.found = TRUE]
  <2>1. /\ req' = [req EXCEPT ![k] = r]
        /\ \E s \in {"banEject"} : s \in Stage /\ pc' = [pc EXCEPT ![k] = s] /\ Fits(s, r)
    BY <1>4 DEF BanFind, RequestsFit, RequestData, Fits, Stage
  <2>2. r \in RequestData
    BY Zenon DEF RequestsFit, RequestData
  <2> HIDE DEF r
  <2>3. QED
    BY Zenon, <2>1, <2>2, OneMoves
<1>5. CASE VoiceAdd(k) \/ BanEject(k)
  <2>1. /\ pc' = [pc EXCEPT ![k] = "idle"]
        /\ End(k) \/ \E u : req' = [Stale(u) EXCEPT ![k] = NoReq]
    BY <1>5 DEF VoiceAdd, BanEject, End
  <2>2. CASE End(k)
    BY <2>2, OneEnds
  <2>3. ASSUME NEW u, req' = [Stale(u) EXCEPT ![k] = NoReq] PROVE RequestsFit'
    <3>1. \A j \in Task : Fits(pc'[j], req'[j])
      BY <2>1, <2>3, StaleFits, NoReqFits DEF RequestsFit
    <3>2. pc' \in [Task -> Stage] /\ req' \in [Task -> RequestData]
      BY <2>1, <2>3, StaleFits, NoReqFits DEF RequestsFit, Stage
    <3>3. QED
      BY <3>1, <3>2 DEF RequestsFit
  <2>4. QED
    BY <2>1, <2>2, <2>3
<1>6. QED
  BY Zenon, <1>1, <1>2, <1>3, <1>4, <1>5 DEF TaskStep, JoinInsert, LeaveDelete, InviteInsert,
     RevokeDelete, UnbanUpdate, RoleUpdate, DeleteCommit

\* Every step leaves each request with the data of its next statement.
LEMMA NextRequestsFit == RequestsFit /\ TypeOK /\ [Next]_vars => RequestsFit'
<1> SUFFICES ASSUME RequestsFit, TypeOK, [Next]_vars PROVE RequestsFit'
  OBVIOUS
<1>1. ASSUME NEW u, VoiceLeave(u) PROVE RequestsFit'
  <2>1. req' = Stale(u) /\ pc' = pc
    BY <1>1 DEF VoiceLeave
  <2>2. \A j \in Task : Fits(pc'[j], req'[j])
    BY <2>1, StaleFits
  <2>3. QED
    BY <2>1, <2>2, StaleFits DEF RequestsFit
<1>2. ASSUME NEW k \in Task, Abandon(k) \/ Victim(k) PROVE RequestsFit'
  BY <1>2, OneEnds DEF Abandon, Victim, Fail
<1>3. CASE UNCHANGED <<pc, req>>
  BY <1>3 DEF RequestsFit
<1>4. QED
  BY <1>1, <1>2, <1>3, RequestFits, StepFits
     DEF Next, vars, CreateChannel, Expire, SweepExpiredInvites

(***************************************************************************)
(* The row locks.  A transaction that uses an invite holds its row until   *)
(* it ends, and so keeps the invite there and its uses unchanged.          *)
(***************************************************************************)
LockTypes ==
    chanLock \in Task \cup {None} /\ invLock \in [Code -> Task \cup {None}]

Using == {"joinSelect", "joinInsert"}

\* Each lock is held by the one request that needs it: an invite's by a join
\* that has found a use to spare, the channel's by the request that deletes it.
LocksHeld ==
    /\ LockTypes
    /\ \A k \in Task : pc[k] \in Using =>
         /\ invLock[req[k].code] = k
         /\ req[k].code \in invites /\ uses[req[k].code] < MaxUses
    /\ \A c \in Code, k \in Task : invLock[c] = k => pc[k] \in Using /\ req[k].code = c
    /\ \A k \in Task : chanLock = k <=> pc[k] = "cascade"
    /\ \A k \in Task : pc[k] = "cascade" => phase = "live"

\* Before the channel is created nothing is locked.
LEMMA InitLocksHeld == Init => LocksHeld
BY ChannelNone DEF Init, LocksHeld, LockTypes, Using

\* A step that takes no lock and releases none, and that spares the invites in use.
LEMMA LocksKept ==
    ASSUME LocksHeld,
           UNCHANGED lockVars, phase = "live" => phase' = "live",
           \A j \in Task : /\ pc'[j] \in Using <=> pc[j] \in Using
                           /\ pc'[j] = "cascade" <=> pc[j] = "cascade",
           \A j \in Task : pc[j] \in Using => /\ req'[j].code = req[j].code
                                              /\ req[j].code \in invites'
                                              /\ uses'[req[j].code] = uses[req[j].code]
    PROVE  LocksHeld'
BY DEF LocksHeld, LockTypes, lockVars

\* A request that ends with its transaction releases its locks and no others.
LEMMA LocksReleased ==
    ASSUME LocksHeld, NEW k \in Task, pc' = [pc EXCEPT ![k] = "idle"], Unlock(k), RequestsFit,
           \A j \in Task \ {k} : pc[j] = "cascade" => phase' = phase,
           \A j \in Task \ {k} : pc[j] \in Using => /\ req'[j].code = req[j].code
                                                    /\ req[j].code \in invites'
                                                    /\ uses'[req[j].code] = uses[req[j].code]
    PROVE  LocksHeld'
<1>1. /\ pc'[k] \notin Using \cup {"cascade"}
      /\ \A j \in Task \ {k} : pc'[j] = pc[j]
  BY DEF RequestsFit, Using
<1>2. \A j \in Task : pc[j] \in Using => req[j].code \in Code
  BY DEF RequestsFit, Fits, Using
<1>3. LockTypes'
  BY DEF Unlock, LocksHeld, LockTypes
<1>4. ASSUME NEW j \in Task, pc'[j] \in Using
      PROVE  /\ invLock'[req'[j].code] = j
             /\ req'[j].code \in invites' /\ uses'[req'[j].code] < MaxUses
  BY <1>1, <1>2, <1>4 DEF Unlock, LocksHeld
<1>5. ASSUME NEW c \in Code, NEW j \in Task, invLock'[c] = j
      PROVE  pc'[j] \in Using /\ req'[j].code = c
  <2>1. j # k /\ invLock[c] = j
    BY <1>5, ChannelNone DEF Unlock
  <2>2. QED
    BY <1>1, <2>1 DEF LocksHeld
<1>6. \A j \in Task : chanLock' = j <=> pc'[j] = "cascade"
  BY <1>1, ChannelNone DEF Unlock, LocksHeld, LockTypes
<1>7. \A j \in Task : pc'[j] = "cascade" => phase' = "live"
  BY <1>1 DEF LocksHeld
<1>8. QED
  BY <1>3, <1>4, <1>5, <1>6, <1>7 DEF LocksHeld

\* join_channel_by_invite: the UPDATE of the invite takes its row, the rest of
\* the transaction keeps or releases it.
LEMMA JoinLocksHeld ==
    ASSUME RequestsFit, LocksHeld, TypeOK, NEW k \in Task,
           JoinUpdate(k) \/ JoinSelect(k) \/ JoinInsert(k)
    PROVE  LocksHeld'
<1> DEFINE c == req[k].code
<1>1. CASE JoinUpdate(k)
  <2>1. c \in Code
    BY Zenon, <1>1 DEF JoinUpdate, RequestsFit, Fits
  <2>2. CASE End(k)
    <3>1. /\ pc[k] = "join" /\ UNCHANGED <<lockVars, phase, invites, uses>>
          /\ pc' = [pc EXCEPT ![k] = "idle"] /\ req' = [req EXCEPT ![k] = NoReq]
      BY <1>1, <2>2 DEF JoinUpdate, GoTo, End, dbVars, lockVars, RequestsFit
    <3>2. \A j \in Task : /\ pc'[j] \in Using <=> pc[j] \in Using
                          /\ pc'[j] = "cascade" <=> pc[j] = "cascade"
                          /\ pc[j] \in Using => req'[j] = req[j]
      BY <3>1 DEF RequestsFit, Using
    <3>3. QED
      BY <3>1, <3>2, LocksKept DEF LocksHeld
  <2>3. CASE ~End(k)
    <3>1. /\ c \in invites /\ uses[c] < MaxUses /\ invLock[c] = None
          /\ invLock' = [invLock EXCEPT ![c] = k] /\ pc[k] = "join"
          /\ pc' = [pc EXCEPT ![k] = "joinSelect"]
          /\ UNCHANGED <<req, phase, invites, uses, chanLock>>
      BY <1>1, <2>3 DEF JoinUpdate, Usable, GoTo, dbVars
    <3> HIDE DEF c
    <3>2. LockTypes'
      BY Zenon, <3>1 DEF LocksHeld, LockTypes
    <3>3. ASSUME NEW j \in Task, pc'[j] \in Using
          PROVE  /\ invLock'[req'[j].code] = j
                 /\ req'[j].code \in invites' /\ uses'[req'[j].code] < MaxUses
      <4>1. CASE j = k
        BY <2>1, <3>1, <4>1 DEF c, LocksHeld, LockTypes
      <4>2. CASE j # k
        <5>1. pc[j] \in Using
          BY <3>1, <3>3, <4>2 DEF RequestsFit
        <5>2. req[j].code \in Code /\ invLock[req[j].code] = j /\ req[j].code # c
          BY <3>1, <5>1, ChannelNone DEF LocksHeld, RequestsFit, Fits, Using
        <5>3. QED
          BY <3>1, <5>1, <5>2 DEF LocksHeld, LockTypes
      <4>3. QED
        BY <4>1, <4>2
    <3>4. ASSUME NEW d \in Code, NEW j \in Task, invLock'[d] = j
          PROVE  pc'[j] \in Using /\ req'[j].code = d
      <4>1. CASE d = c
        BY <3>1, <3>4, <4>1, <2>1 DEF c, Using, LocksHeld, LockTypes, RequestsFit
      <4>2. CASE d # c
        <5>1. pc[j] \in Using /\ req[j].code = d
          BY <3>1, <3>4, <4>2 DEF LocksHeld, LockTypes
        <5>2. QED
          BY <3>1, <5>1 DEF Using, RequestsFit
      <4>3. QED
        BY <4>1, <4>2
    <3>5. QED
      BY ZenonT(90), <3>1, <3>2, <3>3, <3>4 DEF LocksHeld, RequestsFit
  <2>4. QED
    BY <2>2, <2>3
<1>2. CASE JoinSelect(k)
  <2>1. CASE End(k) /\ Unlock(k)
    <3>1. /\ pc' = [pc EXCEPT ![k] = "idle"] /\ req' = [req EXCEPT ![k] = NoReq]
          /\ UNCHANGED <<phase, invites, uses>>
      BY <1>2, <2>1 DEF JoinSelect, End, dbVars
    <3>2. \A j \in Task \ {k} : req'[j] = req[j]
      BY <3>1 DEF RequestsFit
    <3>3. QED
      BY ZenonT(30), <2>1, <3>1, <3>2, LocksReleased DEF LocksHeld
  <2>2. CASE GoTo(k, "joinInsert") /\ UNCHANGED lockVars
    <3>1. /\ pc[k] = "joinSelect" /\ pc' = [pc EXCEPT ![k] = "joinInsert"]
          /\ UNCHANGED <<lockVars, phase, invites, uses, req>>
      BY <1>2, <2>2 DEF JoinSelect, GoTo, dbVars
    <3>2. \A j \in Task : /\ pc'[j] \in Using <=> pc[j] \in Using
                          /\ pc'[j] = "cascade" <=> pc[j] = "cascade"
      BY Zenon, <3>1 DEF RequestsFit, Using
    <3>3. QED
      BY Zenon, <3>1, <3>2, LocksKept DEF LocksHeld
  <2>3. QED
    BY Zenon, <1>2, <2>1, <2>2 DEF JoinSelect
<1>3. CASE JoinInsert(k)
  <2>1. /\ pc[k] = "joinInsert" /\ Unlock(k)
        /\ pc' = [pc EXCEPT ![k] = "idle"] /\ req' = [req EXCEPT ![k] = NoReq]
        /\ \A d \in Code : d # c => uses'[d] = uses[d]
        /\ UNCHANGED <<phase, invites>>
    BY Zenon, <1>3 DEF JoinInsert, End, TypeOK
  <2>2. invLock[c] = k
    BY <2>1 DEF LocksHeld, Using
  <2>3. ASSUME NEW j \in Task \ {k}, pc[j] \in Using
        PROVE  /\ req'[j].code = req[j].code
               /\ req[j].code \in invites'
               /\ uses'[req[j].code] = uses[req[j].code]
    <3>1. req[j].code \in Code /\ req[j].code # c
      BY <2>2, <2>3 DEF LocksHeld, RequestsFit, Fits, Using
    <3>2. QED
      BY Zenon, <2>1, <2>3, <3>1 DEF LocksHeld, RequestsFit
  <2>4. QED
    BY Zenon, <2>1, <2>3, LocksReleased
<1>4. QED
  BY <1>1, <1>2, <1>3

\* A request takes a step that has nothing to do with locks and deletes no
\* invite that is in use.
LEMMA OneUnlocked ==
    ASSUME RequestsFit, LocksHeld, NEW k \in Task, pc[k] \notin Using \cup {"cascade"},
           \E s \in Stage \ (Using \cup {"cascade"}) : pc' = [pc EXCEPT ![k] = s],
           \A j \in Task \ {k} : req'[j].code = req[j].code,
           UNCHANGED <<lockVars, phase>>,
           \A c \in invites : invLock[c] # None => c \in invites' /\ uses'[c] = uses[c]
    PROVE  LocksHeld'
<1>1. \A j \in Task : /\ pc'[j] \in Using <=> pc[j] \in Using
                      /\ pc'[j] = "cascade" <=> pc[j] = "cascade"
  BY DEF RequestsFit
<1>2. \A j \in Task : pc[j] \in Using => /\ req[j].code \in invites'
                                         /\ uses'[req[j].code] = uses[req[j].code]
  BY ChannelNone DEF LocksHeld
<1>3. QED
  BY <1>1, <1>2, LocksKept

\* Forgetting a session leaves the codes alone.
LEMMA StaleCodes ==
    ASSUME RequestsFit, NEW u
    PROVE  \A j \in Task : Stale(u)[j].code = req[j].code
BY DEF Stale, RequestsFit, RequestData

\* DELETE FROM channel_invites waits for the invites in use.
LEMMA DeletesUnused ==
    ASSUME TypeOK, NEW gone, DeleteInvites(gone), \A c \in gone : invLock[c] = None
    PROVE  \A c \in invites : invLock[c] # None => c \in invites' /\ uses'[c] = uses[c]
BY DEF TypeOK, DeleteInvites

\* Everything else a request does.
LEMMA StepLocksHeld ==
    ASSUME RequestsFit, LocksHeld, TypeOK, NEW k \in Task, TaskStep(k) \/ Request(k)
    PROVE  LocksHeld'
<1> DEFINE Moves == /\ pc[k] \notin Using \cup {"cascade"}
                    /\ \E s \in Stage \ (Using \cup {"cascade"}) : pc' = [pc EXCEPT ![k] = s]
                    /\ UNCHANGED <<lockVars, phase>>
<1>1. CASE Request(k)
  <2>1. Moves /\ UNCHANGED <<invites, uses>> /\ \E r : req' = [req EXCEPT ![k] = r]
    BY ZenonT(60), <1>1
       DEF Request, Leave, CreateInvite, Join, RevokeInvite, Ban, Unban, ChangeRole,
                VoiceJoin, Delete, Begin, Stage, Using, dbVars
  <2>2. \A j \in Task \ {k} : req'[j].code = req[j].code
    BY <2>1 DEF RequestsFit
  <2>3. QED
    BY Zenon, <2>1, <2>2, OneUnlocked
<1>2. CASE LeaveDelete(k) \/ InviteInsert(k) \/ UnbanUpdate(k) \/ RoleUpdate(k) \/ BanUpdate(k)
  <2>1. Moves /\ UNCHANGED uses /\ invites \subseteq invites'
        /\ req' \in {req, [req EXCEPT ![k] = NoReq]}
    BY <1>2 DEF LeaveDelete, InviteInsert, DrawInvite, UnbanUpdate, RoleUpdate, BanUpdate,
                GoTo, End, Stage, Using
  <2>2. \A j \in Task \ {k} : req'[j].code = req[j].code
    BY <2>1 DEF RequestsFit
  <2>3. QED
    BY Zenon, <2>1, <2>2, OneUnlocked
<1>3. CASE RevokeDelete(k)
  <2>1. Moves /\ req' = [req EXCEPT ![k] = NoReq]
    BY Zenon, <1>3 DEF RevokeDelete, End, Stage, Using
  <2>2. \A j \in Task \ {k} : req'[j].code = req[j].code
    BY <2>1 DEF RequestsFit
  <2>3. \A c \in invites : invLock[c] # None => c \in invites' /\ uses'[c] = uses[c]
    BY <1>3, DeletesUnused DEF RevokeDelete
  <2>4. QED
    BY Zenon, <2>1, <2>2, <2>3, OneUnlocked
<1>4. CASE Target(k) \/ BanFind(k)
  <2>1. /\ pc[k] \notin Using \cup {"cascade"}
        /\ UNCHANGED <<lockVars, phase, invites, uses>>
        /\ \E r : req' = [req EXCEPT ![k] = r]
    BY <1>4 DEF Target, BanFind, End, Using, dbVars
  <2>2. \E s \in Stage \ (Using \cup {"cascade"}) : pc' = [pc EXCEPT ![k] = s]
    BY <1>4 DEF Target, BanFind, End, Stage, Using, RequestsFit, Fits
  <2>3. \A j \in Task \ {k} : req'[j].code = req[j].code
    BY <2>1 DEF RequestsFit
  <2>4. QED
    BY Zenon, <2>1, <2>2, <2>3, OneUnlocked
<1>5. CASE VoiceAdd(k) \/ BanEject(k)
  <2>1. Moves /\ UNCHANGED <<invites, uses>>
    BY <1>5 DEF VoiceAdd, BanEject, Stage, Using, dbVars
  <2>2. req' = [req EXCEPT ![k] = NoReq] \/ \E u : req' = [Stale(u) EXCEPT ![k] = NoReq]
    BY <1>5 DEF VoiceAdd, BanEject
  <2>3. \A j \in Task \ {k} : req'[j].code = req[j].code
    BY <2>2, StaleCodes, StaleFits DEF RequestsFit
  <2>4. QED
    BY Zenon, <2>1, <2>3, OneUnlocked
<1>6. CASE DeleteLock(k) /\ phase = "deleted"
  <2>1. Moves /\ UNCHANGED <<invites, uses>> /\ req' = [req EXCEPT ![k] = NoReq]
    BY <1>6 DEF DeleteLock, End, Stage, Using, dbVars, lockVars
  <2>2. \A j \in Task \ {k} : req'[j].code = req[j].code
    BY <2>1 DEF RequestsFit
  <2>3. QED
    BY ZenonT(30), <2>1, <2>2, OneUnlocked
<1>7. CASE DeleteLock(k) /\ phase # "deleted"
  <2>1. /\ pc[k] = "delete" /\ phase = "live" /\ chanLock = None /\ chanLock' = k
        /\ pc' = [pc EXCEPT ![k] = "cascade"]
        /\ UNCHANGED <<req, phase, invites, uses, invLock>>
    BY <1>7 DEF DeleteLock, GoTo, dbVars
  <2>2. \A j \in Task \ {k} : pc'[j] = pc[j] /\ pc[j] # "cascade"
    BY <2>1, ChannelNone DEF LocksHeld, RequestsFit
  <2>3. pc'[k] = "cascade" /\ pc[k] \notin Using /\ pc'[k] \notin Using
    BY <2>1 DEF RequestsFit, Using
  <2>4. QED
    BY <2>1, <2>2, <2>3 DEF LocksHeld, LockTypes
<1>8. CASE DeleteCommit(k)
  <2>1. /\ pc[k] = "cascade" /\ pc' = [pc EXCEPT ![k] = "idle"] /\ Unlock(k)
        /\ \A c \in invites : invLock[c] = None
    BY <1>8 DEF DeleteCommit, End
  <2>2. \A j \in Task \ {k} : pc[j] \notin Using /\ pc[j] # "cascade"
    BY <2>1, ChannelNone DEF LocksHeld
  <2>3. QED
    BY Zenon, <2>1, <2>2, LocksReleased
<1>9. CASE JoinUpdate(k) \/ JoinSelect(k) \/ JoinInsert(k)
  BY <1>9, JoinLocksHeld
<1>10. QED
  BY Zenon, <1>1, <1>2, <1>3, <1>4, <1>5, <1>6, <1>7, <1>8, <1>9 DEF TaskStep

\* Every step keeps each lock with the request that needs it.
LEMMA NextLocksHeld == RequestsFit /\ LocksHeld /\ TypeOK /\ [Next]_vars => LocksHeld'
<1> SUFFICES ASSUME RequestsFit, LocksHeld, TypeOK, [Next]_vars PROVE LocksHeld'
  OBVIOUS
<1>1. ASSUME UNCHANGED <<pc, lockVars>>, phase = "live" => phase' = "live",
             \A j \in Task : req'[j].code = req[j].code,
             \A c \in invites : invLock[c] # None => c \in invites' /\ uses'[c] = uses[c]
      PROVE  LocksHeld'
  <2>1. \A j \in Task : pc[j] \in Using => /\ req[j].code \in invites'
                                           /\ uses'[req[j].code] = uses[req[j].code]
    BY <1>1, ChannelNone DEF LocksHeld
  <2>2. QED
    BY <1>1, <2>1, LocksKept
<1>2. CASE UNCHANGED vars
  BY Zenon, <1>1, <1>2 DEF vars, dbVars
<1>3. CASE CreateChannel \/ \E c \in Code : Expire(c)
  BY <1>1, <1>3 DEF CreateChannel, Expire
<1>4. CASE SweepExpiredInvites
  <2> DEFINE gone == invites \cap expired
  <2>1. /\ DeleteInvites(gone) /\ \A c \in gone : invLock[c] = None
        /\ UNCHANGED <<pc, lockVars, phase, req>>
    BY <1>4 DEF SweepExpiredInvites
  <2> HIDE DEF gone
  <2>2. QED
    BY <1>1, <2>1, DeletesUnused
<1>5. CASE \E u \in VoiceUser : VoiceLeave(u)
  <2>1. \E u : req' = Stale(u)
    BY <1>5 DEF VoiceLeave
  <2>2. UNCHANGED <<pc, lockVars, phase, invites, uses>>
    BY Zenon, <1>5 DEF VoiceLeave, dbVars
  <2>3. QED
    BY <1>1, <2>1, <2>2, StaleCodes
<1>6. ASSUME NEW k \in Task, Fail(k) PROVE LocksHeld'
  <2>1. /\ pc' = [pc EXCEPT ![k] = "idle"] /\ Unlock(k) /\ req' = [req EXCEPT ![k] = NoReq]
        /\ UNCHANGED <<phase, invites, uses>>
    BY <1>6 DEF Fail, End, dbVars
  <2>2. \A j \in Task \ {k} : req'[j].code = req[j].code
    BY <2>1 DEF RequestsFit
  <2>3. QED
    BY Zenon, <2>1, <2>2, LocksReleased DEF LocksHeld
<1>7. QED
  BY <1>2, <1>3, <1>4, <1>5, <1>6, StepLocksHeld DEF Next, Abandon, Victim

(***************************************************************************)
(* The rows.                                                               *)
(***************************************************************************)
RowTypes ==
    /\ phase \in {"none", "live", "deleted"}
    /\ role \in [User -> Role]
    /\ banned \subseteq {u \in User : role[u] # "none"}
    /\ invites \subseteq drawn /\ drawn \subseteq Code /\ expired \subseteq invites
    /\ uses \in [Code -> 0 .. MaxUses] /\ joins \in [Code -> Nat]

VoiceTypes == voice \subseteq VoiceUser /\ escaped \subseteq VoiceUser

\* The type invariant by its parts, each kept by a different argument.
LEMMA TypeParts ==
    ASSUME RequestsFit
    PROVE  TypeOK <=> RowTypes /\ LockTypes /\ VoiceTypes
BY DEF TypeOK, RowTypes, LockTypes, VoiceTypes, RequestsFit, RequestData

\* Only users that join voice are ever in it.
LEMMA NextVoiceTypes == RequestsFit /\ VoiceTypes /\ [Next]_vars => VoiceTypes'
<1> SUFFICES ASSUME RequestsFit, VoiceTypes, [Next]_vars PROVE VoiceTypes'
  OBVIOUS
<1>1. ASSUME voice' \subseteq VoiceUser, \E more : KeepEscaped(more) PROVE VoiceTypes'
  BY Zenon, <1>1 DEF KeepEscaped, VoiceTypes
<1>2. ASSUME NEW k \in Task, VoiceAdd(k) PROVE VoiceTypes'
  BY ZenonT(30), <1>1, <1>2 DEF VoiceAdd, VoiceTypes, RequestsFit, Fits
<1>3. ASSUME NEW k \in Task, TaskStep(k), ~VoiceAdd(k) PROVE VoiceTypes'
  <2>1. voice' \subseteq voice
    BY ZenonT(30), <1>3 DEF TaskStep, JoinUpdate, JoinSelect, JoinInsert, LeaveDelete, InviteInsert,
                RevokeDelete, Target, BanUpdate, UnbanUpdate, RoleUpdate, BanFind, BanEject,
                DeleteLock, DeleteCommit, voiceVars
  <2>2. UNCHANGED escaped \/ \E more : KeepEscaped(more)
    BY <1>3 DEF TaskStep, JoinUpdate, JoinSelect, JoinInsert, LeaveDelete, InviteInsert,
                RevokeDelete, Target, BanUpdate, UnbanUpdate, RoleUpdate, BanFind, BanEject,
                DeleteLock, DeleteCommit, voiceVars
  <2>3. QED
    BY <1>1, <2>1, <2>2 DEF VoiceTypes
<1>4. ASSUME NEW k \in Task, Abandon(k) \/ Victim(k) PROVE VoiceTypes'
  BY <1>1, <1>4 DEF Abandon, Victim, Fail, VoiceTypes
<1>5. ASSUME NEW u, VoiceLeave(u) PROVE VoiceTypes'
  BY <1>1, <1>5 DEF VoiceLeave, VoiceTypes
<1>6. ASSUME NEW k \in Task, Request(k) PROVE UNCHANGED voiceVars
  BY ZenonT(60), <1>6
     DEF Request, Leave, CreateInvite, Join, RevokeInvite, Ban, Unban, ChangeRole,
              VoiceJoin, Delete, Begin
<1>7. CASE UNCHANGED voiceVars
  BY Zenon, <1>7 DEF voiceVars, VoiceTypes
<1>8. QED
  BY Zenon, <1>2, <1>3, <1>4, <1>5, <1>6, <1>7
     DEF Next, vars, CreateChannel, Expire, SweepExpiredInvites

(***************************************************************************)
(* What was checked in an earlier statement and still holds in a later     *)
(* one.  The UPDATE of a ban or a role and the DELETE of a leave repeat    *)
(* nothing; they spare the owner because nobody else ever becomes owner    *)
(* and the owner never stops being one.                                    *)
(***************************************************************************)
SparesOwner ==
    \A k \in Task : /\ pc[k] = "leave" => req[k].who # Owner
                    /\ pc[k] \in {"ban", "role"} => req[k].on # Owner

\* Nothing happens before the channel is created.
NotYet ==
    phase = "none" =>
        /\ \A u \in User : role[u] = "none"
        /\ invites = {} /\ \A k \in Task : pc[k] = "idle"

RowsInv ==
    RowTypes /\ OwnerStays /\ DeletedLeavesNothing /\ SparesOwner /\ NotYet /\ UsesAreJoins

\* Before the channel is created there are no rows and nobody is in voice.
LEMMA InitRowsInv == Init => RowsInv /\ VoiceTypes
BY UsesAssumption DEF Init, RowsInv, RowTypes, OwnerStays, DeletedLeavesNothing, SparesOwner,
   NotYet, UsesAreJoins, VoiceTypes, Role

\* A member of the channel that is not its owner can only be met while it lives.
LEMMA MetWhileLive ==
    ASSUME RowsInv, NEW u \in User, role[u] # "none"
    PROVE  phase = "live" /\ (role[u] # "owner" => u # Owner)
BY OwnerAssumption DEF RowsInv, RowTypes, OwnerStays, DeletedLeavesNothing, NotYet

\* A request goes on without forgetting whom it must spare.
LEMMA SparesKept ==
    ASSUME RequestsFit, SparesOwner, NEW k \in Task,
           \E s \in Stage \ {"leave", "ban", "role"} : pc' = [pc EXCEPT ![k] = s],
           \A j \in Task \ {k} : req'[j].who = req[j].who /\ req'[j].on = req[j].on
    PROVE  SparesOwner'
BY DEF RequestsFit, SparesOwner

\* A step that leaves the rows alone.
LEMMA RowsUntouched ==
    ASSUME RowsInv, UNCHANGED dbVars, SparesOwner', phase # "none" \/ UNCHANGED pc
    PROVE  RowsInv'
BY DEF RowsInv, RowTypes, OwnerStays, DeletedLeavesNothing, NotYet, UsesAreJoins, dbVars

\* The first statement of a request.
LEMMA RequestRowsInv ==
    ASSUME RequestsFit, RowsInv, NEW k \in Task, Request(k)
    PROVE  RowsInv'
<1>1. UNCHANGED dbVars /\ phase # "none" /\ \E r : req' = [req EXCEPT ![k] = r]
  BY ZenonT(60)
     DEF Request, Leave, CreateInvite, Join, RevokeInvite, Ban, Unban, ChangeRole, VoiceJoin,
         Delete, Begin
<1>2. \A j \in Task \ {k} : req'[j] = req[j]
  BY <1>1 DEF RequestsFit
<1>3. CASE \E u \in User : Leave(k, u)
  <2> PICK u \in User : Leave(k, u)
    BY <1>3
  <2>1. u # Owner
    BY MetWhileLive DEF Leave
  <2>2. pc' = [pc EXCEPT ![k] = "leave"] /\ req'[k].who = u
    BY DEF Leave, Begin, NoReq, RequestsFit
  <2>3. SparesOwner'
    BY <1>2, <2>1, <2>2 DEF RowsInv, SparesOwner, RequestsFit
  <2>4. QED
    BY <1>1, <2>3, RowsUntouched
<1>4. CASE ~\E u \in User : Leave(k, u)
  <2>1. \E s \in Stage \ {"leave", "ban", "role"} : pc' = [pc EXCEPT ![k] = s]
    BY ZenonT(60), <1>4
       DEF Request, CreateInvite, Join, RevokeInvite, Ban, Unban, ChangeRole, VoiceJoin,
                Delete, Begin, Stage
  <2>2. QED
    BY Zenon, <1>1, <1>2, <2>1, SparesKept, RowsUntouched DEF RowsInv
<1>5. QED
  BY <1>3, <1>4

\* Whom a request is about does not change when a session is forgotten.
LEMMA StaleTargets ==
    ASSUME RequestsFit, NEW u
    PROVE  \A j \in Task : Stale(u)[j].who = req[j].who /\ Stale(u)[j].on = req[j].on
BY DEF Stale, RequestsFit, RequestData

\* A request that ends has nobody to spare any more.
LEMMA EndSpares ==
    ASSUME RequestsFit, SparesOwner, NEW k \in Task, End(k)
    PROVE  SparesOwner'
<1>1. \A j \in Task \ {k} : req'[j] = req[j]
  BY DEF End, RequestsFit
<1>2. \E s \in Stage \ {"leave", "ban", "role"} : pc' = [pc EXCEPT ![k] = s]
  BY Zenon DEF End, Stage
<1>3. QED
  BY Zenon, <1>1, <1>2, SparesKept

\* The statements that only read.
LEMMA ReadRowsInv ==
    ASSUME RequestsFit, RowsInv, NEW k \in Task,
           \/ JoinUpdate(k) \/ JoinSelect(k) \/ BanFind(k) \/ VoiceAdd(k) \/ BanEject(k)
           \/ DeleteLock(k) \/ Target(k) \/ Fail(k)
    PROVE  RowsInv'
<1>1. UNCHANGED dbVars /\ pc[k] # "idle"
  BY DEF JoinUpdate, JoinSelect, BanFind, VoiceAdd, BanEject, DeleteLock, Target, Fail, dbVars
<1>2. phase # "none"
  BY <1>1 DEF RowsInv, NotYet
<1>3. CASE JoinUpdate(k) \/ JoinSelect(k) \/ DeleteLock(k) \/ BanFind(k) \/ Fail(k)
  <2>1. \/ End(k)
        \/ /\ \E s \in Stage \ {"leave", "ban", "role"} : pc' = [pc EXCEPT ![k] = s]
           /\ \E r : req' = [req EXCEPT ![k] = r] \/ req' = req
    BY <1>3 DEF JoinUpdate, JoinSelect, DeleteLock, BanFind, Fail, GoTo, Stage
  <2>2. End(k) \/ \A j \in Task \ {k} : req'[j] = req[j]
    BY <2>1 DEF RequestsFit
  <2>3. SparesOwner'
    BY Zenon, <2>1, <2>2, EndSpares, SparesKept DEF RowsInv
  <2>4. QED
    BY <1>1, <1>2, <2>3, RowsUntouched
<1>4. CASE VoiceAdd(k) \/ BanEject(k)
  <2>1. \E s \in Stage \ {"leave", "ban", "role"} : pc' = [pc EXCEPT ![k] = s]
    BY ZenonT(30), <1>4 DEF VoiceAdd, BanEject, Stage
  <2>2. req' = [req EXCEPT ![k] = NoReq] \/ \E u : req' = [Stale(u) EXCEPT ![k] = NoReq]
    BY <1>4 DEF VoiceAdd, BanEject
  <2>3. \A j \in Task \ {k} : req'[j].who = req[j].who /\ req'[j].on = req[j].on
    BY <2>2, StaleTargets, StaleFits DEF RequestsFit
  <2>4. SparesOwner'
    BY Zenon, <2>1, <2>3, SparesKept DEF RowsInv
  <2>5. QED
    BY <1>1, <1>2, <2>4, RowsUntouched
<1>5. CASE Target(k) /\ ~End(k)
  <2>1. /\ pc[k] = "target" /\ TargetAccepted(req[k])
        /\ pc' = [pc EXCEPT ![k] = req[k].then]
        /\ req' = [req EXCEPT ![k].rank = "none", ![k].then = "idle"]
    BY <1>5 DEF Target
  <2>2. /\ req[k].on \in User /\ req[k].then \in {"ban", "unban", "role"}
        /\ req[k] \in RequestData
    BY <2>1 DEF RequestsFit, Fits
  <2>3. req'[k].on = req[k].on /\ \A j \in Task \ {k} : req'[j] = req[j] /\ pc'[j] = pc[j]
    BY <2>1, <2>2 DEF RequestsFit, RequestData
  <2>4. pc'[k] = req[k].then /\ (req[k].then \in {"ban", "role"} => req[k].on # Owner)
    BY <2>1, <2>2, MetWhileLive DEF TargetAccepted, RequestsFit
  <2>5. SparesOwner'
    BY <2>2, <2>3, <2>4 DEF RowsInv, SparesOwner
  <2>6. QED
    BY <1>1, <1>2, <2>5, RowsUntouched
<1>6. CASE Target(k) /\ End(k)
  BY <1>1, <1>2, <1>6, EndSpares, RowsUntouched DEF RowsInv
<1>7. QED
  BY Zenon, <1>3, <1>4, <1>5, <1>6

\* The INSERT of a join adds a member of a channel that lives, because the invite
\* it holds is still there, and takes the use that was to spare.
LEMMA JoinInsertRowsInv ==
    ASSUME RequestsFit, RowsInv, LocksHeld, NEW k \in Task, JoinInsert(k)
    PROVE  RowsInv'
<1> DEFINE u == req[k].who
           c == req[k].code
<1>1. /\ pc[k] = "joinInsert" /\ End(k)
      /\ \/ /\ role[u] = "none" /\ role' = [role EXCEPT ![u] = "member"]
            /\ uses' = [uses EXCEPT ![c] = @ + 1] /\ joins' = [joins EXCEPT ![c] = @ + 1]
         \/ UNCHANGED <<role, uses, joins>>
      /\ UNCHANGED <<phase, banned, invites, drawn, expired>>
  BY Zenon DEF JoinInsert
<1>2. u \in User /\ c \in Code /\ c \in invites /\ uses[c] < MaxUses
  BY Zenon, <1>1 DEF RequestsFit, Fits, LocksHeld, Using
<1>3. phase = "live"
  BY Zenon, <1>1, <1>2 DEF RowsInv, RowTypes, DeletedLeavesNothing, NotYet
<1>4. SparesOwner'
  BY <1>1, EndSpares DEF RowsInv
<1> HIDE DEF u, c
<1>5. RowTypes'
  <2>1. role' \in [User -> Role] /\ banned' \subseteq {v \in User : role'[v] # "none"}
    BY <1>1, <1>2 DEF RowsInv, RowTypes, Role
  <2>2. uses' \in [Code -> 0 .. MaxUses] /\ joins' \in [Code -> Nat]
    BY <1>1, <1>2, UsesAssumption DEF RowsInv, RowTypes
  <2>3. QED
    BY <1>1, <2>1, <2>2 DEF RowsInv, RowTypes
<1>6. OwnerStays'
  BY <1>1, <1>2, <1>3, OwnerAssumption DEF RowsInv, RowTypes, OwnerStays
<1>7. UsesAreJoins'
  BY <1>1, <1>2, UsesAssumption DEF RowsInv, RowTypes, UsesAreJoins
<1>8. QED
  BY Zenon, <1>1, <1>3, <1>4, <1>5, <1>6, <1>7 DEF RowsInv, DeletedLeavesNothing, NotYet

\* leave_channel and the UPDATEs of ban_member, unban_member and change_role.
LEMMA MemberRowsInv ==
    ASSUME RequestsFit, RowsInv, NEW k \in Task,
           LeaveDelete(k) \/ BanUpdate(k) \/ UnbanUpdate(k) \/ RoleUpdate(k)
    PROVE  RowsInv'
<1>1. /\ pc[k] \in {"leave", "ban", "unban", "role"}
      /\ UNCHANGED <<phase, invites, drawn, expired, uses, joins>>
  BY DEF LeaveDelete, BanUpdate, UnbanUpdate, RoleUpdate
<1>2. phase # "none"
  BY <1>1 DEF RowsInv, NotYet
<1>3. SparesOwner'
  <2>1. End(k) \/ (pc' = [pc EXCEPT ![k] = "banFind"] /\ req' = req)
    BY DEF LeaveDelete, BanUpdate, UnbanUpdate, RoleUpdate, GoTo
  <2>2. End(k) \/ \E s \in Stage \ {"leave", "ban", "role"} : pc' = [pc EXCEPT ![k] = s]
    BY <2>1 DEF Stage
  <2>3. QED
    BY Zenon, <2>1, <2>2, EndSpares, SparesKept DEF RowsInv
<1>4. ASSUME role' \in [User -> Role],
             banned' \subseteq {v \in User : role'[v] # "none"},
             \A v \in User : role[v] = "none" => role'[v] = "none",
             phase = "live" => {v \in User : role'[v] = "owner"} = {Owner} /\ Owner \notin banned'
      PROVE  RowsInv'
  <2>1. OwnerStays' /\ DeletedLeavesNothing' /\ NotYet' /\ UsesAreJoins'
    BY <1>1, <1>2, <1>4 DEF RowsInv, OwnerStays, DeletedLeavesNothing, NotYet, UsesAreJoins
  <2>2. RowTypes'
    BY <1>1, <1>4 DEF RowsInv, RowTypes
  <2>3. QED
    BY Zenon, <1>3, <2>1, <2>2 DEF RowsInv
<1>5. CASE LeaveDelete(k)
  <2>1. req[k].who \in User /\ req[k].who # Owner
    BY Zenon, <1>5 DEF LeaveDelete, RequestsFit, Fits, RowsInv, SparesOwner
  <2>2. /\ role' = [role EXCEPT ![req[k].who] = "none"]
        /\ banned' = banned \ {req[k].who}
    BY Zenon, <1>5 DEF LeaveDelete
  <2>3. QED
    BY ZenonT(30), <1>4, <2>1, <2>2, OwnerAssumption DEF RowsInv, RowTypes, OwnerStays, Role
<1>6. CASE BanUpdate(k)
  <2>1. req[k].on \in User /\ req[k].on # Owner
    BY Zenon, <1>6 DEF BanUpdate, RequestsFit, Fits, RowsInv, SparesOwner
  <2>2. /\ role' = role
        /\ \/ banned' = banned
           \/ banned' = banned \cup {req[k].on} /\ role[req[k].on] # "none"
    BY Zenon, <1>6 DEF BanUpdate
  <2>3. QED
    BY Zenon, <1>4, <2>1, <2>2 DEF RowsInv, RowTypes, OwnerStays
<1>7. CASE UnbanUpdate(k)
  BY Zenon, <1>4, <1>7 DEF UnbanUpdate, RowsInv, RowTypes, OwnerStays
<1>8. CASE RoleUpdate(k)
  <2>1. req[k].on \in User /\ req[k].on # Owner /\ req[k].to \in {"member", "admin"}
    BY <1>8 DEF RoleUpdate, RequestsFit, Fits, RowsInv, SparesOwner
  <2>2. /\ role' = [role EXCEPT ![req[k].on] = IF @ = "none" THEN "none" ELSE req[k].to]
        /\ banned' = banned
    BY <1>8 DEF RoleUpdate
  <2>3. QED
    BY ZenonT(30), <1>4, <2>1, <2>2, OwnerAssumption DEF RowsInv, RowTypes, OwnerStays, Role
<1>9. QED
  BY ZenonT(30), <1>5, <1>6, <1>7, <1>8

\* create_invite, revoke_invite, the expiry and the sweep of invites, and the
\* deletion and the creation of the channel.
LEMMA InviteRowsInv ==
    ASSUME RequestsFit, RowsInv,
           \/ \E k \in Task : InviteInsert(k) \/ RevokeDelete(k)
           \/ \E c \in Code : Expire(c)
           \/ SweepExpiredInvites
    PROVE  RowsInv'
<1>1. UNCHANGED <<phase, role, banned>>
  BY ZenonT(30) DEF InviteInsert, RevokeDelete, Expire, SweepExpiredInvites
<1>2. SparesOwner'
  <2>1. UNCHANGED <<pc, req>> \/ \E k \in Task : End(k)
    BY ZenonT(60) DEF InviteInsert, RevokeDelete, Expire, SweepExpiredInvites
  <2>2. QED
    BY <2>1, EndSpares DEF RowsInv, SparesOwner
<1>3. phase = "none" => UNCHANGED <<invites, pc>>
  BY Zenon DEF InviteInsert, RevokeDelete, Expire, SweepExpiredInvites, RowsInv, NotYet
<1>4. ASSUME NEW gone, DeleteInvites(gone), UNCHANGED drawn
      PROVE  RowTypes' /\ UsesAreJoins' /\ invites' \subseteq invites
  <2>1. invites' \subseteq drawn' /\ drawn' \subseteq Code /\ expired' \subseteq invites'
    BY <1>4 DEF DeleteInvites, RowsInv, RowTypes
  <2>2. uses' \in [Code -> 0 .. MaxUses] /\ joins' \in [Code -> Nat]
    BY <1>4, UsesAssumption DEF DeleteInvites, RowsInv, RowTypes
  <2>3. UsesAreJoins'
    BY <1>4, UsesAssumption DEF DeleteInvites, RowsInv, UsesAreJoins
  <2>4. QED
    BY <1>1, <1>4, <2>1, <2>2, <2>3 DEF RowsInv, RowTypes, DeleteInvites
<1>5. RowTypes' /\ UsesAreJoins' /\ (phase = "deleted" => invites' \subseteq invites)
  <2>1. CASE \E k \in Task : InviteInsert(k)
    <3>1. UNCHANGED <<expired, uses, joins>>
      BY <2>1 DEF InviteInsert
    <3>2. \/ UNCHANGED <<invites, drawn>>
          \/ phase = "live" /\ Code # drawn /\ DrawInvite(Fresh(Code, drawn))
      BY <2>1 DEF InviteInsert
    <3>3. Code # drawn => Fresh(Code, drawn) \in Code
      BY DEF Fresh, RowsInv, RowTypes
    <3>4. invites' \subseteq drawn' /\ drawn' \subseteq Code /\ expired' \subseteq invites'
      BY <3>1, <3>2, <3>3 DEF DrawInvite, RowsInv, RowTypes
    <3>5. QED
      BY <1>1, <3>1, <3>2, <3>4 DEF RowsInv, RowTypes, UsesAreJoins
  <2>2. CASE \E k \in Task : RevokeDelete(k)
    BY <1>4, <2>2 DEF RevokeDelete
  <2>3. CASE \E c \in Code : Expire(c)
    BY <2>3 DEF Expire, RowsInv, RowTypes, UsesAreJoins
  <2>4. CASE SweepExpiredInvites
    BY <1>4, <2>4 DEF SweepExpiredInvites
  <2>5. QED
    BY Zenon, <2>1, <2>2, <2>3, <2>4
<1>6. OwnerStays' /\ DeletedLeavesNothing' /\ NotYet'
  BY <1>1, <1>3, <1>5 DEF RowsInv, OwnerStays, DeletedLeavesNothing, NotYet
<1>7. QED
  BY <1>2, <1>5, <1>6 DEF RowsInv

\* The creation and the deletion of the channel.
LEMMA ChannelRowsInv ==
    ASSUME RequestsFit, RowsInv, CreateChannel \/ \E k \in Task : DeleteCommit(k)
    PROVE  RowsInv'
<1>1. CASE CreateChannel
  <2>1. /\ phase = "none" /\ phase' = "live" /\ role' = [role EXCEPT ![Owner] = "owner"]
        /\ UNCHANGED <<banned, invites, drawn, expired, uses, joins, pc, req>>
    BY <1>1 DEF CreateChannel
  <2>2. (\A u \in User : role[u] = "none") /\ banned = {}
    BY <2>1 DEF RowsInv, RowTypes, NotYet
  <2>3. RowTypes' /\ OwnerStays'
    BY ZenonT(30), <2>1, <2>2, OwnerAssumption DEF RowsInv, RowTypes, OwnerStays, Role
  <2>4. SparesOwner' /\ UsesAreJoins'
    BY <2>1 DEF RowsInv, SparesOwner, UsesAreJoins
  <2>5. QED
    BY <2>1, <2>3, <2>4 DEF RowsInv, DeletedLeavesNothing, NotYet
<1>2. CASE \E k \in Task : DeleteCommit(k)
  <2> PICK k \in Task : DeleteCommit(k)
    BY <1>2
  <2>1. /\ phase' = "deleted" /\ role' = [u \in User |-> "none"] /\ banned' = {}
        /\ DeleteInvites(invites) /\ UNCHANGED drawn /\ End(k)
    BY DEF DeleteCommit
  <2>2. SparesOwner'
    BY <2>1, EndSpares DEF RowsInv
  <2>3. invites' = {} /\ expired' = {}
    BY <2>1 DEF DeleteInvites, RowsInv, RowTypes
  <2>4. uses' \in [Code -> 0 .. MaxUses] /\ joins' \in [Code -> Nat]
    BY <2>1, UsesAssumption DEF DeleteInvites, RowsInv, RowTypes
  <2>5. RowTypes'
    BY Zenon, <2>1, <2>3, <2>4 DEF RowsInv, RowTypes, Role
  <2>6. UsesAreJoins'
    BY <2>1, UsesAssumption DEF DeleteInvites, RowsInv, UsesAreJoins
  <2>7. QED
    BY ZenonT(60), <2>1, <2>2, <2>3, <2>5, <2>6
       DEF RowsInv, OwnerStays, DeletedLeavesNothing, NotYet
<1>3. QED
  BY <1>1, <1>2

\* Every step keeps the rows in order.
LEMMA NextRowsInv == RequestsFit /\ RowsInv /\ LocksHeld /\ [Next]_vars => RowsInv'
<1> SUFFICES ASSUME RequestsFit, RowsInv, LocksHeld, [Next]_vars PROVE RowsInv'
  BY Zenon
<1>1. CASE UNCHANGED vars
  BY <1>1, RowsUntouched DEF vars, RowsInv, SparesOwner
<1>2. ASSUME NEW u, VoiceLeave(u) PROVE RowsInv'
  <2>1. req' = Stale(u) /\ UNCHANGED <<dbVars, pc>>
    BY Zenon, <1>2 DEF VoiceLeave
  <2>2. SparesOwner'
    BY <2>1, StaleTargets DEF RowsInv, SparesOwner
  <2>3. QED
    BY <2>1, <2>2, RowsUntouched
<1>3. ASSUME NEW k \in Task, TaskStep(k) PROVE RowsInv'
  BY Zenon, <1>3, ReadRowsInv, JoinInsertRowsInv, MemberRowsInv, InviteRowsInv, ChannelRowsInv
     DEF TaskStep
<1>4. QED
  BY <1>1, <1>2, <1>3, RequestRowsInv, ReadRowsInv, InviteRowsInv, ChannelRowsInv
     DEF Next, Abandon, Victim

(***************************************************************************)
(* Bans and voice.                                                         *)
(***************************************************************************)
\* A step that neither bans nor admits to voice, and that ends no ejection.
LEMMA BansKept ==
    ASSUME BanEjects, voice' \cap banned' \subseteq voice \cap banned,
           escaped \cap voice' \cap banned' \subseteq escaped',
           \A j \in Task : pc[j] = "banFind" \/ req[j].found =>
               req'[j].on = req[j].on /\ (pc'[j] = "banFind" \/ req'[j].found)
    PROVE  BanEjects'
BY ZenonT(30) DEF BanEjects

\* A request outside the ejection of a ban takes a step.
LEMMA OneElsewhere ==
    ASSUME RequestsFit, BanEjects, voice' \cap banned' \subseteq voice \cap banned,
           escaped \cap voice' \cap banned' \subseteq escaped',
           NEW k \in Task, pc[k] \notin {"banFind", "banEject"},
           \A j \in Task \ {k} : pc'[j] = pc[j] /\ req'[j] = req[j]
    PROVE  BanEjects'
BY BansKept DEF RequestsFit, Fits

\* A statement of a request, or its failure.  A ban that reaches its UPDATE goes on
\* to look for the user in voice; it ejects the session it finds unless that is
\* replaced by one whose join was past its check; a ban dropped in between counts
\* its user as escaped.
LEMMA StepBanEjects ==
    ASSUME RequestsFit, BanEjects, NEW k \in Task, TaskStep(k) \/ Request(k) \/ Fail(k)
    PROVE  BanEjects'
<1>1. CASE \/ Request(k) \/ JoinUpdate(k) \/ JoinSelect(k) \/ JoinInsert(k) \/ InviteInsert(k)
           \/ RevokeDelete(k) \/ Target(k) \/ RoleUpdate(k) \/ DeleteLock(k)
           \/ LeaveDelete(k) \/ UnbanUpdate(k) \/ DeleteCommit(k)
  <2>1. /\ pc[k] \notin {"banFind", "banEject"}
        /\ \E s : pc' = [pc EXCEPT ![k] = s]
        /\ req' = req \/ \E r : req' = [req EXCEPT ![k] = r]
    <3>1. CASE Request(k)
      BY ZenonT(60), <3>1
         DEF Request, Leave, CreateInvite, Join, RevokeInvite, Ban, Unban, ChangeRole,
                  VoiceJoin, Delete, Begin
    <3>2. CASE Target(k)
      BY <3>2 DEF Target, End, RequestsFit
    <3>3. CASE ~Request(k) /\ ~Target(k)
      BY ZenonT(60), <1>1, <3>3
         DEF JoinUpdate, JoinSelect, JoinInsert, InviteInsert, RevokeDelete,
         RoleUpdate, DeleteLock, LeaveDelete, UnbanUpdate, DeleteCommit, GoTo, End
    <3>4. QED
      BY <3>1, <3>2, <3>3
  <2>2. /\ voice' = voice /\ banned' \subseteq banned
        /\ escaped' = escaped \/ KeepEscaped({})
    BY ZenonT(60), <1>1
       DEF Request, Leave, CreateInvite, Join, RevokeInvite, Ban, Unban, ChangeRole,
         VoiceJoin, Delete, Begin, JoinUpdate, JoinSelect, JoinInsert, InviteInsert,
         RevokeDelete, Target, RoleUpdate, DeleteLock, LeaveDelete, UnbanUpdate, DeleteCommit,
         dbVars, voiceVars
  <2>3. \A j \in Task \ {k} : pc'[j] = pc[j] /\ req'[j] = req[j]
    BY <2>1 DEF RequestsFit
  <2>4. escaped \cap voice' \cap banned' \subseteq escaped'
    BY <2>2 DEF KeepEscaped
  <2>5. QED
    BY Zenon, <2>1, <2>2, <2>3, <2>4, OneElsewhere
<1>2. CASE BanUpdate(k)
  <2>1. CASE End(k)
    <3>1. /\ pc[k] = "ban" /\ UNCHANGED <<banned, voice, escaped>>
          /\ \A j \in Task \ {k} : pc'[j] = pc[j] /\ req'[j] = req[j]
      BY ZenonT(60), <1>2, <2>1 DEF BanUpdate, GoTo, End, voiceVars, RequestsFit
    <3>2. QED
      BY <3>1, OneElsewhere
  <2>2. CASE ~End(k)
    <3>1. /\ pc[k] = "ban" /\ banned' = banned \cup {req[k].on}
          /\ pc' = [pc EXCEPT ![k] = "banFind"] /\ UNCHANGED <<req, voice, escaped>>
      BY <1>2, <2>2 DEF BanUpdate, GoTo, voiceVars
    <3>2. pc'[k] = "banFind" /\ \A j \in Task \ {k} : pc'[j] = pc[j]
      BY ZenonT(30), <3>1 DEF RequestsFit
    <3>3. QED
      BY SMTT(30), <3>1, <3>2 DEF BanEjects
  <2>3. QED
    BY Zenon, <2>1, <2>2
<1>3. CASE BanFind(k)
  <2>1. pc[k] = "banFind" /\ UNCHANGED <<banned, voice, escaped>> /\ ~req[k].found
    BY <1>3 DEF BanFind, dbVars, voiceVars, RequestsFit, Fits
  <2>2. /\ \A j \in Task \ {k} : pc'[j] = pc[j] /\ req'[j] = req[j]
        /\ req[k].on \in voice => req'[k].on = req[k].on /\ req'[k].found
    BY ZenonT(30), <1>3 DEF BanFind, End, RequestsFit, RequestData
  <2>3. QED
    BY <2>1, <2>2 DEF BanEjects
<1>4. CASE VoiceAdd(k)
  <2> DEFINE u == req[k].who
  <2>1. /\ pc[k] = "voice" /\ voice' = voice \cup {u} /\ KeepEscaped({u})
        /\ pc' = [pc EXCEPT ![k] = "idle"] /\ req' = [Stale(u) EXCEPT ![k] = NoReq]
        /\ UNCHANGED banned
    BY <1>4 DEF VoiceAdd, dbVars
  <2>2. \A j \in Task \ {k} : pc'[j] = pc[j] /\ (req[j].on # u => req'[j] = req[j])
    BY ZenonT(30), <2>1 DEF Stale, RequestsFit
  <2>3. ~req[k].found
    BY Zenon, <2>1 DEF RequestsFit, Fits
  <2> HIDE DEF u
  <2>4. QED
    BY <2>1, <2>2, <2>3 DEF BanEjects, KeepEscaped
<1>5. CASE BanEject(k)
  <2> DEFINE u == req[k].on
  <2>1. /\ pc[k] = "banEject" /\ KeepEscaped({}) /\ pc' = [pc EXCEPT ![k] = "idle"]
        /\ \/ voice' = voice \ {u} /\ req' = [Stale(u) EXCEPT ![k] = NoReq]
           \/ ~req[k].found /\ voice' = voice /\ req' = [req EXCEPT ![k] = NoReq]
        /\ UNCHANGED banned
    BY <1>5 DEF BanEject, dbVars
  <2>2. \A j \in Task \ {k} : pc'[j] = pc[j] /\ (req[j].on # u => req'[j] = req[j])
    BY ZenonT(30), <2>1 DEF Stale, RequestsFit
  <2>3. CASE voice' = voice \ {u}
    <3> HIDE DEF u
    <3>1. QED
      BY SMTT(30), <2>1, <2>2, <2>3 DEF u, BanEjects, KeepEscaped
  <2>4. CASE ~req[k].found /\ voice' = voice /\ req' = [req EXCEPT ![k] = NoReq]
    <3>1. \A j \in Task \ {k} : req'[j] = req[j]
      BY <2>4 DEF RequestsFit
    <3>2. QED
      BY <2>1, <2>2, <2>4, <3>1 DEF BanEjects, KeepEscaped
  <2>5. QED
    BY ZenonT(30), <2>1, <2>3, <2>4
<1>6. CASE Fail(k)
  <2>1. /\ pc' = [pc EXCEPT ![k] = "idle"] /\ req' = [req EXCEPT ![k] = NoReq]
        /\ UNCHANGED <<banned, voice>>
        /\ KeepEscaped(IF pc[k] \in {"banFind", "banEject"} THEN {req[k].on} ELSE {})
    BY <1>6 DEF Fail, End, dbVars
  <2>2. \A j \in Task \ {k} : pc'[j] = pc[j] /\ req'[j] = req[j]
    BY Zenon, <2>1 DEF RequestsFit
  <2>3. req[k].found => pc[k] = "banEject"
    BY ZenonT(30) DEF RequestsFit, Fits
  <2>4. QED
    BY SMTT(30), <2>1, <2>2, <2>3 DEF BanEjects, KeepEscaped
<1>7. QED
  BY <1>1, <1>2, <1>3, <1>4, <1>5, <1>6 DEF TaskStep

\* Every step keeps account of the banned users in voice.
LEMMA NextBanEjects == RequestsFit /\ RowsInv /\ BanEjects /\ [Next]_vars => BanEjects'
<1> SUFFICES ASSUME RequestsFit, RowsInv, BanEjects, [Next]_vars PROVE BanEjects'
  OBVIOUS
<1>1. CASE UNCHANGED <<pc, req, voice, escaped, banned>>
  BY Zenon, <1>1 DEF BanEjects
<1>2. ASSUME NEW u, VoiceLeave(u) PROVE BanEjects'
  <2>1. /\ voice' = voice \ {u} /\ req' = Stale(u) /\ KeepEscaped({})
        /\ UNCHANGED <<pc, banned>>
    BY <1>2 DEF VoiceLeave, dbVars
  <2>2. \A j \in Task : req[j].on # u => req'[j] = req[j]
    BY <2>1 DEF Stale
  <2>3. QED
    BY <2>1, <2>2 DEF BanEjects, KeepEscaped
<1>3. QED
  BY Zenon, <1>1, <1>2, StepBanEjects
     DEF Next, vars, dbVars, voiceVars, CreateChannel, Expire, SweepExpiredInvites, Abandon, Victim

(***************************************************************************)
(* The results.                                                            *)
(***************************************************************************)
Inv == RequestsFit /\ LocksHeld /\ RowsInv /\ VoiceTypes /\ BanEjects

\* The inductive invariant of a channel.
LEMMA InductiveInv == Spec => []Inv
<1>1. Init => Inv
  BY InitRequestsFit, InitLocksHeld, InitRowsInv DEF Inv, Init, BanEjects
<1>2. Inv /\ [Next]_vars => Inv'
  <2>1. Inv => TypeOK
    BY TypeParts DEF Inv, RowsInv, LocksHeld
  <2>2. QED
    BY Zenon, <2>1, NextRequestsFit, NextLocksHeld, NextRowsInv, NextVoiceTypes, NextBanEjects DEF Inv
<1>3. QED
  BY <1>1, <1>2, PTL DEF Spec

\* However requests interleave, fail or deadlock, a live channel keeps its creator
\* as its one owner, never banned, and a deleted one has no members and no invites.
THEOREM ChannelAlwaysConsistent == Spec => []ChannelInv
<1>1. Inv => ChannelInv
  BY Zenon, TypeParts DEF Inv, RowsInv, LocksHeld, ChannelInv
<1>2. QED
  BY <1>1, InductiveInv, PTL

\* The uses counted on an invite are the members it let in, at most max_uses,
\* however many joins race for the last use or are rolled back.
THEOREM UsesAreAlwaysJoins == Spec => []UsesAreJoins
<1>1. Inv => UsesAreJoins
  BY DEF Inv, RowsInv
<1>2. QED
  BY <1>1, InductiveInv, PTL

\* A banned user in voice is about to be ejected, had passed the membership check of
\* join_voice before the ban, or is left by a ban request that was dropped.
THEOREM BansAlwaysEject == Spec => []BanEjects
<1>1. Inv => BanEjects
  BY DEF Inv
<1>2. QED
  BY <1>1, InductiveInv, PTL

\* A row lock is held exactly by the request that is using the invite or deleting
\* the channel: no end of a transaction, by commit, refusal, failure or deadlock,
\* leaves one behind, and no invite goes away while it is being used.
THEOREM LocksAlwaysHeld == Spec => []LocksHeld
<1>1. Inv => LocksHeld
  BY DEF Inv
<1>2. QED
  BY <1>1, InductiveInv, PTL

\* A ban ends only by unban_member, with the channel, or by a leave that had been
\* checked before the ban.
THEOREM BansOutliveJoins == Spec => BanOutlivesJoins
<1> DEFINE Ends == \A u \in banned \ banned' :
                       \/ phase' = "deleted"
                       \/ \E k \in Task : pc[k] = "unban" /\ req[k].on = u
                       \/ \E k \in Task : pc[k] = "leave" /\ req[k].who = u
<1>1. ASSUME NEW k \in Task, Request(k) \/ Abandon(k) \/ Victim(k) PROVE banned' = banned
  BY ZenonT(60), <1>1
     DEF Request, Leave, CreateInvite, Join, RevokeInvite, Ban, Unban, ChangeRole,
              VoiceJoin, Delete, Begin, Abandon, Victim, Fail, dbVars
<1>2. ASSUME NEW k \in Task, LeaveDelete(k) \/ UnbanUpdate(k) \/ DeleteCommit(k) PROVE Ends
  BY Zenon, <1>2 DEF LeaveDelete, UnbanUpdate, DeleteCommit
<1>3. ASSUME NEW k \in Task, TaskStep(k), ~(LeaveDelete(k) \/ UnbanUpdate(k) \/ DeleteCommit(k))
      PROVE  banned \subseteq banned'
  BY <1>3 DEF TaskStep, JoinUpdate, JoinSelect, JoinInsert, InviteInsert, RevokeDelete, Target,
              BanUpdate, RoleUpdate, VoiceAdd, BanFind, BanEject, DeleteLock, dbVars
<1>4. Next => Ends
  BY ZenonT(60), <1>1, <1>2, <1>3
     DEF Next, CreateChannel, VoiceLeave, Expire, SweepExpiredInvites, dbVars
<1>5. [Next]_vars => [Ends]_vars
  BY <1>4
<1>6. QED
  BY <1>5, PTL DEF Spec, BanOutlivesJoins
=============================================================================
