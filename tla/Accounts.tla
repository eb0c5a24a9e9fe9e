------------------------------ MODULE Accounts ------------------------------
(***************************************************************************)
(* The sessions of one account (auth/auth.rs, device.rs, pairing.rs): its  *)
(* devices, its refresh tokens with rotation and reuse detection, logout   *)
(* everywhere, and the pairing that adds a device.                         *)
(*                                                                         *)
(* All state is in Postgres and every transaction runs at its default      *)
(* isolation, READ COMMITTED: a statement sees what was committed when it  *)
(* began, an UPDATE waits for the holder of a row it wants and then looks  *)
(* at the row again, and a cycle of waiting transactions is broken by      *)
(* failing one of them.  A statement is a step; statements that nothing    *)
(* can come between, or that only read what never changes, are one step    *)
(* with their neighbour.  Access tokens are signed from the epoch a        *)
(* transaction read and are not modelled, and neither are the wrong        *)
(* phrases and unknown tokens that change nothing.                         *)
(***************************************************************************)
EXTENDS Naturals, FiniteSets

CONSTANTS
    Requests,       \* number of requests, each handled by a task of its own
    Device,         \* devices.device_id
    Token,          \* refresh tokens that can be drawn
    None,           \* placeholder: no task, token or device
    MaxAttempts     \* wrong pairing codes that lock a pairing, 5 in the code

\* Tasks are numbered in the order in which their requests arrive.
Task == 1 .. Requests

ASSUME FinitenessAssumption == Requests \in Nat /\ IsFiniteSet(Device) /\ IsFiniteSet(Token)
ASSUME NoneAssumption == None \notin Task \cup Device \cup Token
ASSUME AttemptsAssumption == MaxAttempts \in Nat
\* No request is refused for want of a token or a device to name.
ASSUME SupplyAssumption ==
    /\ Cardinality(Token) > Requests
    /\ Cardinality(Device) > Requests

VARIABLES
    devices,        \* rows of devices
    devRevoked,     \* devices with revoked_at
    rows,           \* rows of refresh_tokens, by token
    devOf,          \* refresh_tokens.device_id
    consumed,       \* tokens that got a consumed_at
    revoked,        \* tokens that got a revoked_at
    expired,        \* tokens whose expires_at has passed
    epoch,          \* users.session_epoch
    rowLock,        \* the task whose transaction holds a token's row
    userLock,       \* the task whose transaction holds the user's row
    pairing,        \* the row of pairings
    pc,             \* where each request is
    arg,            \* its token or device
    todo,           \* rows its revoking UPDATE has still to lock
    drawn,          \* tokens drawn so far
    parent,         \* history: the token a token was rotated from
    snap,           \* history: rows the revoking UPDATE of a task set out to revoke
    paired          \* history: devices added by finish_pairing

tokenVars == <<rows, devOf, consumed, revoked, expired, drawn, parent>>
lockVars == <<rowLock, userLock>>
deviceVars == <<devices, devRevoked, paired>>
taskVars == <<arg, todo, snap>>
vars == <<tokenVars, lockVars, deviceVars, epoch, pairing, pc, taskVars>>

LockStage == {"reuseLock", "logoutLock", "deviceLock"}
Stage == {"idle", "rotate", "rotated", "reuse", "logout", "logoutSnap", "device", "recover",
          "approve", "finish", "miss", "done"} \cup LockStage

Pairing == [started : BOOLEAN, approved : BOOLEAN, used : BOOLEAN, expired : BOOLEAN,
            attempts : Nat]

\* A random identifier: any one not in use will do.
Fresh(S, used) == CHOOSE x \in S \ used : TRUE

\* An account as register_user_with_invite leaves it: one device, one token.
Init ==
    /\ devices = {Fresh(Device, {})}
    /\ rows = {Fresh(Token, {})} /\ drawn = rows
    /\ devOf = [u \in Token |-> IF u \in rows THEN Fresh(Device, {}) ELSE None]
    /\ devRevoked = {} /\ paired = {}
    /\ consumed = {} /\ revoked = {} /\ expired = {}
    /\ epoch = 0
    /\ rowLock = [t \in Token |-> None] /\ userLock = None
    /\ pairing = [started |-> FALSE, approved |-> FALSE, used |-> FALSE, expired |-> FALSE,
                  attempts |-> 0]
    /\ pc = [k \in Task |-> "idle"]
    /\ arg = [k \in Task |-> None]
    /\ todo = [k \in Task |-> {}] /\ snap = [k \in Task |-> {}]
    /\ parent = [t \in Token |-> None]

\* The request is over and its local variables are gone.
Forget(k) ==
    /\ arg' = [arg EXCEPT ![k] = None]
    /\ todo' = [todo EXCEPT ![k] = {}]
    /\ snap' = [snap EXCEPT ![k] = {}]

GoTo(k, from, to) == pc[k] = from /\ pc' = [pc EXCEPT ![k] = to]

\* A row that try_rotate's UPDATE matches.
Live(t) == t \in rows \ (consumed \cup revoked \cup expired)

\* A new row of refresh_tokens for device d.
IssueToken(d, from) ==
    LET u == Fresh(Token, drawn)
    IN  /\ drawn' = drawn \cup {u}
        /\ rows' = rows \cup {u}
        /\ devOf' = [devOf EXCEPT ![u] = d]
        /\ parent' = [parent EXCEPT ![u] = from]

\* The transaction of k ends and its locks are released.
Unlocked(k) == [t \in Token |-> IF rowLock[t] = k THEN None ELSE rowLock[t]]
Unlock(k) ==
    /\ rowLock' = Unlocked(k)
    /\ userLock' = IF userLock = k THEN None ELSE userLock

\* The extractor accepted an access token, so some device is active.
Authenticated == devices \ devRevoked # {}

(***************************************************************************)
(* Refresh: rotation, or reuse detection.                                  *)
(***************************************************************************)

Refresh(k, t) ==
    /\ GoTo(k, "idle", "rotate")
    /\ t \in drawn
    /\ arg' = [arg EXCEPT ![k] = t]
    /\ UNCHANGED <<tokenVars, lockVars, deviceVars, epoch, pairing, todo, snap>>

\* try_rotate's UPDATE takes the row of a live token, waiting for its holder.
\* A row that is not live needs no lock: if it is there and was consumed, the
\* token is being reused.
MutRotateUpdate(k) ==
    /\ pc[k] = "rotate"
    /\ \/ /\ arg[k] \in rows \ (revoked \cup expired)
          /\ rowLock[arg[k]] = None
          /\ rowLock' = [rowLock EXCEPT ![arg[k]] = k]
          /\ pc' = [pc EXCEPT ![k] = "rotated"]
          /\ UNCHANGED taskVars
       \/ /\ ~Live(arg[k])
          /\ pc' = [pc EXCEPT ![k] = IF arg[k] \in rows \cap consumed THEN "reuse" ELSE "done"]
          /\ Forget(k)
          /\ UNCHANGED rowLock
    /\ UNCHANGED <<tokenVars, userLock, deviceVars, epoch, pairing>>

MutRotateRetry(k) ==
    /\ GoTo(k, "rotate", "rotated")
    /\ Live(arg[k])
    /\ rowLock[arg[k]] = None
    /\ rowLock' = [rowLock EXCEPT ![arg[k]] = k]
    /\ UNCHANGED <<tokenVars, userLock, deviceVars, epoch, pairing, taskVars>>

RotateUpdate(k) ==
    /\ pc[k] = "rotate"
    /\ \/ /\ Live(arg[k])
          /\ rowLock[arg[k]] = None
          /\ rowLock' = [rowLock EXCEPT ![arg[k]] = k]
          /\ pc' = [pc EXCEPT ![k] = "rotated"]
          /\ UNCHANGED taskVars
       \/ /\ ~Live(arg[k])
          /\ pc' = [pc EXCEPT ![k] = IF arg[k] \in rows \cap consumed THEN "reuse" ELSE "done"]
          /\ Forget(k)
          /\ UNCHANGED rowLock
    /\ UNCHANGED <<tokenVars, userLock, deviceVars, epoch, pairing>>

\* The successor is inserted and the transaction commits.
RotateCommit(k) ==
    /\ GoTo(k, "rotated", "done")
    /\ IssueToken(devOf[arg[k]], arg[k])
    /\ consumed' = consumed \cup {arg[k]}
    /\ Unlock(k)
    /\ Forget(k)
    /\ UNCHANGED <<revoked, expired, deviceVars, epoch, pairing>>

(***************************************************************************)
(* UPDATE refresh_tokens SET revoked_at: the rows it saw unrevoked when it *)
(* began are locked one by one and take effect together at the commit.     *)
(***************************************************************************)

RevokeStart(k, from, to, scope) ==
    /\ GoTo(k, from, to)
    /\ todo' = [todo EXCEPT ![k] = scope \ revoked]
    /\ snap' = [snap EXCEPT ![k] = scope \ revoked]
    /\ UNCHANGED <<tokenVars, lockVars, deviceVars, epoch, pairing, arg>>

\* Once a row is free it is looked at again: it may be gone, or revoked.
MutLockRow(k) ==
    /\ pc[k] \in LockStage
    /\ \E t \in todo[k] :
         /\ todo' = [todo EXCEPT ![k] = @ \ {t}]
         /\ rowLock' = IF t \in rows \ revoked /\ rowLock[t] = None
                       THEN [rowLock EXCEPT ![t] = k] ELSE rowLock
    /\ UNCHANGED <<tokenVars, userLock, deviceVars, epoch, pairing, pc, arg, snap>>

LockRow(k) ==
    /\ pc[k] \in LockStage
    /\ \E t \in todo[k] :
         /\ rowLock[t] = None
         /\ todo' = [todo EXCEPT ![k] = @ \ {t}]
         /\ rowLock' = IF t \in rows \ revoked THEN [rowLock EXCEPT ![t] = k] ELSE rowLock
    /\ UNCHANGED <<tokenVars, userLock, deviceVars, epoch, pairing, pc, arg, snap>>

RevokeCommit(k, from) ==
    /\ GoTo(k, from, "done")
    /\ todo[k] = {}
    /\ revoked' = revoked \cup {t \in Token : rowLock[t] = k}
    /\ Unlock(k)
    /\ Forget(k)
    /\ UNCHANGED <<rows, devOf, consumed, expired, drawn, parent, deviceVars, pairing>>

\* A reused token revokes every token of the account, then bumps the epoch.
Reuse(k) == RevokeStart(k, "reuse", "reuseLock", rows)

ReuseCommit(k) ==
    /\ userLock = None
    /\ RevokeCommit(k, "reuseLock")
    /\ epoch' = epoch + 1

\* logout_all bumps the epoch first and revokes every token then.
Logout(k) ==
    /\ Authenticated
    /\ GoTo(k, "idle", "logout")
    /\ UNCHANGED <<tokenVars, lockVars, deviceVars, epoch, pairing, taskVars>>

LogoutUser(k) ==
    /\ GoTo(k, "logout", "logoutSnap")
    /\ userLock = None
    /\ userLock' = k
    /\ UNCHANGED <<tokenVars, rowLock, deviceVars, epoch, pairing, taskVars>>

LogoutRevoke(k) == RevokeStart(k, "logoutSnap", "logoutLock", rows)

LogoutCommit(k) ==
    /\ RevokeCommit(k, "logoutLock")
    /\ epoch' = epoch + 1

\* revoke_device: the device, then its tokens, as two transactions.
RevokeDevice(k, d) ==
    /\ Authenticated
    /\ GoTo(k, "idle", "device")
    /\ d \in devices
    /\ devRevoked' = devRevoked \cup {d}
    /\ arg' = [arg EXCEPT ![k] = d]
    /\ UNCHANGED <<tokenVars, lockVars, devices, paired, epoch, pairing, todo, snap>>

DeviceRevoke(k) == RevokeStart(k, "device", "deviceLock", {t \in rows : devOf[t] = arg[k]})

DeviceCommit(k) ==
    /\ RevokeCommit(k, "deviceLock")
    /\ UNCHANGED epoch

(***************************************************************************)
(* New devices: recovery by phrase, and pairing.                           *)
(***************************************************************************)

\* recover_account, the phrase being right: the device, then its token.
Recover(k) ==
    /\ GoTo(k, "idle", "recover")
    /\ devices' = devices \cup {Fresh(Device, devices)}
    /\ arg' = [arg EXCEPT ![k] = Fresh(Device, devices)]
    /\ UNCHANGED <<tokenVars, lockVars, devRevoked, paired, epoch, pairing, todo, snap>>

RecoverToken(k) ==
    /\ GoTo(k, "recover", "done")
    /\ IssueToken(arg[k], None)
    /\ Forget(k)
    /\ UNCHANGED <<consumed, revoked, expired, lockVars, deviceVars, epoch, pairing>>

StartPairing ==
    /\ ~pairing.started
    /\ pairing' = [pairing EXCEPT !.started = TRUE]
    /\ UNCHANGED <<tokenVars, lockVars, deviceVars, epoch, pc, taskVars>>

\* There is a pairing that is neither used, nor expired, nor locked.
Open(p) == p.started /\ ~p.used /\ ~p.expired /\ p.attempts < MaxAttempts

\* approve_pairing and finish_pairing look at the row first; what they do then
\* depends on whether the code was right.
ApproveSelect(k) ==
    /\ Authenticated
    /\ Open(pairing) /\ ~pairing.approved
    /\ GoTo(k, "idle", "approve") \/ GoTo(k, "idle", "miss")
    /\ UNCHANGED <<tokenVars, lockVars, deviceVars, epoch, pairing, taskVars>>

FinishSelect(k) ==
    /\ Open(pairing) /\ pairing.approved
    /\ GoTo(k, "idle", "finish") \/ GoTo(k, "idle", "miss")
    /\ UNCHANGED <<tokenVars, lockVars, deviceVars, epoch, pairing, taskVars>>

\* A wrong code is counted unless the pairing was used or expired meanwhile.
CountMiss(k) ==
    /\ GoTo(k, "miss", "done")
    /\ pairing' = IF pairing.used \/ pairing.expired THEN pairing
                  ELSE [pairing EXCEPT !.attempts = @ + 1]
    /\ UNCHANGED <<tokenVars, lockVars, deviceVars, epoch, taskVars>>

\* The conditional UPDATEs repeat what the SELECT checked.
MutApproveUpdate(k) ==
    /\ GoTo(k, "approve", "done")
    /\ pairing' = IF ~pairing.approved /\ ~pairing.expired
                  THEN [pairing EXCEPT !.approved = TRUE] ELSE pairing
    /\ UNCHANGED <<tokenVars, lockVars, deviceVars, epoch, taskVars>>

ApproveUpdate(k) ==
    /\ GoTo(k, "approve", "done")
    /\ pairing' = IF Open(pairing) /\ ~pairing.approved
                  THEN [pairing EXCEPT !.approved = TRUE] ELSE pairing
    /\ UNCHANGED <<tokenVars, lockVars, deviceVars, epoch, taskVars>>

\* finish_pairing's transaction: used_at, the device and its token.
AddPaired(d) ==
    /\ IssueToken(d, None)
    /\ devices' = devices \cup {d}
    /\ paired' = paired \cup {d}

FinishCommit(k) ==
    /\ GoTo(k, "finish", "done")
    /\ \/ /\ Open(pairing) /\ pairing.approved
          /\ AddPaired(Fresh(Device, devices))
          /\ pairing' = [pairing EXCEPT !.used = TRUE]
       \/ /\ ~(Open(pairing) /\ pairing.approved)
          /\ UNCHANGED <<rows, devOf, drawn, parent, devices, paired, pairing>>
    /\ UNCHANGED <<consumed, revoked, expired, lockVars, devRevoked, epoch, taskVars>>

(***************************************************************************)
(* Time, the sweeps, and Postgres' deadlock detection.                     *)
(***************************************************************************)

\* expires_at passes.  For a row that is dead already this changes nothing.
Expire(t) ==
    /\ Live(t)
    /\ expired' = expired \cup {t}
    /\ UNCHANGED <<rows, devOf, consumed, revoked, drawn, parent, lockVars, deviceVars,
                   epoch, pairing, pc, taskVars>>

\* No statement that writes matches an expired pairing, so it makes no
\* difference when sweep_expired_pairings deletes it.
ExpirePairing ==
    /\ pairing.started /\ ~pairing.expired
    /\ pairing' = [pairing EXCEPT !.expired = TRUE]
    /\ UNCHANGED <<tokenVars, lockVars, deviceVars, epoch, pc, taskVars>>

\* A DELETE waits for locked rows.  How long ago a token was consumed or
\* revoked is not modelled, so any of those may be past its retention.
Sweep(gone) ==
    /\ gone # {}
    /\ \A t \in gone : rowLock[t] = None
    /\ rows' = rows \ gone
    /\ devOf' = [t \in Token |-> IF t \in gone THEN None ELSE devOf[t]]
    /\ revoked' = revoked \ gone
    /\ expired' = expired \ gone
    /\ UNCHANGED <<consumed, drawn, parent, lockVars, deviceVars,
                   epoch, pairing, pc, taskVars>>

SweepExpired == Sweep(rows \cap expired)

SweepConsumed == \E gone \in SUBSET (rows \cap (consumed \cup revoked)) : Sweep(gone)

WaitsFor(k, j) ==
    \/ pc[k] = "rotate" /\ Live(arg[k]) /\ rowLock[arg[k]] = j
    \/ \E t \in todo[k] : rowLock[t] = j
    \/ pc[k] = "logout" /\ userLock = j
    \/ pc[k] = "reuseLock" /\ todo[k] = {} /\ userLock = j

\* k is on a cycle: some tasks can be permuted so that each waits for the next.
Deadlocked(k) ==
    /\ \E j \in Task : WaitsFor(k, j)
    /\ \E S \in SUBSET Task :
         /\ k \in S
         /\ \E next \in [S -> S] :
              /\ \A x \in S : WaitsFor(x, next[x])
              /\ {next[x] : x \in S} = S

\* The request fails and what its transaction did is rolled back; earlier
\* transactions of it stand.
Fail(k) ==
    /\ pc[k] \notin {"idle", "done"}
    /\ pc' = [pc EXCEPT ![k] = "done"]
    /\ Unlock(k)
    /\ Forget(k)
    /\ UNCHANGED <<tokenVars, deviceVars, epoch, pairing>>

\* The client hangs up and the handler is dropped, or the connection to the
\* database is lost.
Abandon(k) == Fail(k)

\* A deadlock is not a serialization failure: rotate_refresh_token does not
\* try again.
Victim(k) == Deadlocked(k) /\ Fail(k)

Request(k) ==
    /\ \A j \in 1 .. k - 1 : pc[j] # "idle"
    /\ \/ \E t \in Token : Refresh(k, t)
       \/ \E d \in Device : RevokeDevice(k, d)
       \/ Logout(k) \/ Recover(k) \/ ApproveSelect(k) \/ FinishSelect(k)

TaskStep(k) ==
    \/ RotateUpdate(k) \/ RotateCommit(k) \/ Reuse(k) \/ LockRow(k) \/ ReuseCommit(k)
    \/ LogoutUser(k) \/ LogoutRevoke(k) \/ LogoutCommit(k)
    \/ DeviceRevoke(k) \/ DeviceCommit(k) \/ RecoverToken(k)
    \/ CountMiss(k) \/ ApproveUpdate(k) \/ FinishCommit(k)

Environment ==
    \/ StartPairing \/ ExpirePairing
    \/ \E t \in Token : Expire(t)
    \/ SweepExpired \/ SweepConsumed

Next ==
    \/ \E k \in Task : Request(k) \/ TaskStep(k) \/ Abandon(k) \/ Victim(k)
    \/ Environment

Spec == Init /\ [][Next]_vars

\* As long as some started request can go on, one of them does, and Postgres
\* finds deadlocks.  As each request is made once, no task needs fairness of
\* its own.
Fairness == WF_vars(\E k \in Task : TaskStep(k) \/ Victim(k))

FairSpec == Spec /\ Fairness

-----------------------------------------------------------------------------
TypeOK ==
    /\ devRevoked \subseteq devices /\ paired \subseteq devices /\ devices \subseteq Device
    /\ rows \subseteq drawn /\ drawn \subseteq Token
    /\ devOf \in [Token -> Device \cup {None}]
    /\ \A t \in rows : devOf[t] \in devices
    /\ consumed \subseteq drawn /\ revoked \subseteq rows /\ expired \subseteq rows
    /\ epoch \in Nat
    /\ rowLock \in [Token -> Task \cup {None}] /\ userLock \in Task \cup {None}
    /\ pairing \in Pairing
    /\ pc \in [Task -> Stage]
    /\ arg \in [Task -> Token \cup Device \cup {None}]
    /\ todo \in [Task -> SUBSET Token] /\ snap \in [Task -> SUBSET Token]
    /\ parent \in [Token -> Token \cup {None}]

\* A refresh token is exchanged for exactly one successor, and only then
\* marked consumed, however many requests present it at the same time
\* (try_rotate's conditional UPDATE "prevents double-consume races").
OneSuccessor ==
    \A t \in Token :
        Cardinality({u \in drawn : parent[u] = t}) = IF t \in consumed THEN 1 ELSE 0

\* When logout_all, revoke_device or reuse detection commits, no token that
\* was there when its UPDATE began can be rotated any more, not even one that
\* another transaction was rotating meanwhile.
RevokesWhatItSaw ==
    [][\A k \in Task :
         ReuseCommit(k) \/ LogoutCommit(k) \/ DeviceCommit(k) =>
             \A t \in snap[k] : ~Live(t)']_vars

\* "After 5 total failures the pairing is permanently locked": from then on it
\* is neither approved nor used, even by a request that had already read it.
LockedPairingIsFinal ==
    [][pairing.attempts >= MaxAttempts =>
         pairing'.approved = pairing.approved /\ pairing'.used = pairing.used]_vars

\* A pairing adds at most one device, and only an approved one does, although
\* several requests may pass finish_pairing's first look at the row.
PairsOneDevice ==
    /\ Cardinality(paired) <= 1
    /\ pairing.used <=> paired # {}
    /\ pairing.used => pairing.approved

\* The rows fit together between any two statements: each consumed token has
\* its one successor, and the pairing its one device.
AccountsInv == TypeOK /\ OneSuccessor /\ PairsOneDevice

\* Every request ends: those that wait for each other, as reuse detection
\* (tokens, then user) and logout_all (user, then tokens) may, are broken up.
\* A request that is over stays over, so that no started one is left behind if
\* none is under way time and again.
RequestEnds == []<>(\A k \in Task : pc[k] \in {"idle", "done"})
=============================================================================
