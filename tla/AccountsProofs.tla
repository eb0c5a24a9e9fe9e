--------------------------- MODULE AccountsProofs ---------------------------
(***************************************************************************)
(* Proofs about Accounts, for any number of requests, any supply of tokens *)
(* and devices that outnumbers them, and any limit on wrong codes.         *)
(***************************************************************************)
EXTENDS Accounts, FiniteSetTheorems, TLAPS

(***************************************************************************)
(* The supply of tokens and devices.                                       *)
(***************************************************************************)
Done == {k \in Task : pc[k] = "done"}

\* Requests that have named a new device, or may have.
Named == {k \in Task : pc[k] \in {"recover", "done"}}

\* Each request draws at most one token and names at most one device.
Supply ==
    /\ Cardinality(drawn) <= 1 + Cardinality(Done)
    /\ Cardinality(devices) <= 1 + Cardinality(Named)

\* There are as many tasks as requests.
LEMMA TaskCount == IsFiniteSet(Task) /\ Cardinality(Task) = Requests
BY FS_Interval, FinitenessAssumption DEF Task

\* Tasks that are not all of them are fewer than there are requests.
LEMMA SomeTasks ==
    ASSUME NEW S \in SUBSET Task, NEW k \in Task, k \notin S
    PROVE  Cardinality(S) \in Nat /\ Cardinality(S) + 1 <= Requests
<1>1. IsFiniteSet(Task) /\ Cardinality(Task) = Requests /\ Requests \in Nat
  BY TaskCount, FinitenessAssumption
<1>2. S \cup {k} \subseteq Task /\ IsFiniteSet(S)
  BY <1>1, FS_Subset
<1>3. /\ Cardinality(S) \in Nat /\ Cardinality(S \cup {k}) = Cardinality(S) + 1
      /\ Cardinality(S \cup {k}) <= Cardinality(Task)
  BY <1>1, <1>2, FS_AddElement, FS_CardinalityType, FS_Subset
<1>4. QED
  BY <1>1, <1>3

\* A request that is not over still finds a token to draw,
LEMMA FreshToken ==
    ASSUME drawn \subseteq Token, Supply, NEW k \in Task, pc[k] # "done"
    PROVE  Fresh(Token, drawn) \in Token \ drawn
<1>1. Cardinality(Done) \in Nat /\ Cardinality(Done) + 1 <= Requests
  BY SomeTasks DEF Done
<1>2. IsFiniteSet(drawn) /\ Cardinality(drawn) \in Nat /\ Cardinality(Token) \in Nat
  BY FinitenessAssumption, FS_Subset, FS_CardinalityType
<1>3. drawn # Token
  BY <1>1, <1>2, SupplyAssumption, FinitenessAssumption DEF Supply
<1>4. QED
  BY <1>3 DEF Fresh

\* and one that has not named a device finds one to name.
LEMMA FreshDevice ==
    ASSUME devices \subseteq Device, Supply, NEW k \in Task, pc[k] \notin {"recover", "done"}
    PROVE  Fresh(Device, devices) \in Device \ devices
<1>1. Cardinality(Named) \in Nat /\ Cardinality(Named) + 1 <= Requests
  BY SomeTasks DEF Named
<1>2. IsFiniteSet(devices) /\ Cardinality(devices) \in Nat /\ Cardinality(Device) \in Nat
  BY FinitenessAssumption, FS_Subset, FS_CardinalityType
<1>3. devices # Device
  BY <1>1, <1>2, SupplyAssumption, FinitenessAssumption DEF Supply
<1>4. QED
  BY <1>3 DEF Fresh

\* A set grows by at most one element when a set of tasks grows by one, or not at
\* all when no task leaves that set.
LEMMA OneMore ==
    ASSUME NEW S, IsFiniteSet(S), NEW T \in SUBSET Task, NEW U \in SUBSET Task, T \subseteq U,
           Cardinality(S) <= 1 + Cardinality(T), NEW x, NEW k \in Task,
           NEW R, R = S \/ (R = S \cup {x} /\ k \in U \ T)
    PROVE  IsFiniteSet(R) /\ Cardinality(R) <= 1 + Cardinality(U)
<1>1. IsFiniteSet(T) /\ IsFiniteSet(U)
  BY TaskCount, FS_Subset
<1>2. /\ Cardinality(S) \in Nat /\ Cardinality(T) \in Nat /\ Cardinality(U) \in Nat
      /\ Cardinality(T) <= Cardinality(U)
  BY <1>1, FS_CardinalityType, FS_Subset
<1>3. CASE R = S
  BY <1>2, <1>3
<1>4. CASE R = S \cup {x} /\ k \in U \ T
  <2>1. IsFiniteSet(R) /\ Cardinality(R) \in Nat /\ Cardinality(R) <= Cardinality(S) + 1
    <3>1. /\ IsFiniteSet(S \cup {x})
          /\ Cardinality(S \cup {x}) = IF x \in S THEN Cardinality(S) ELSE Cardinality(S) + 1
      BY FS_AddElement
    <3>2. QED
      BY <1>2, <1>4, <3>1
  <2>2. Cardinality(T) + 1 <= Cardinality(U)
    <3>1. T \cup {k} \subseteq U /\ Cardinality(T \cup {k}) = Cardinality(T) + 1
      BY Zenon, <1>1, <1>4, FS_AddElement
    <3>2. QED
      BY <1>1, <3>1, FS_Subset
  <2>3. QED
    BY <1>2, <2>1, <2>2
<1>5. QED
  BY <1>3, <1>4

(***************************************************************************)
(* The row locks.                                                          *)
(***************************************************************************)
\* A transaction holds the row it is rotating, or some of those that its revoking
\* UPDATE set out to revoke; a row that is held stays there.
LocksHeld ==
    /\ \A t \in Token, k \in Task : rowLock[t] = k =>
         /\ t \in rows
         /\ \/ pc[k] = "rotated" /\ arg[k] = t
            \/ pc[k] \in LockStage /\ t \in snap[k]
    /\ \A k \in Task : pc[k] = "rotated" => rowLock[arg[k]] = k /\ arg[k] \notin consumed
    /\ \A k \in Task : userLock = k <=> pc[k] \in {"logoutSnap", "logoutLock"}

\* What a request carries from one statement to the next.
ArgsFit ==
    \A k \in Task :
        /\ pc[k] \in {"rotate", "rotated"} => arg[k] \in drawn
        /\ pc[k] = "recover" => arg[k] \in devices

\* The rows that a revoking UPDATE has seen are still to be locked, are locked, or
\* have been deleted or revoked by others in the meantime.
SeenRows ==
    \A k \in Task :
        /\ todo[k] \subseteq snap[k] /\ snap[k] \subseteq drawn
        /\ pc[k] \in LockStage =>
             \A t \in snap[k] : t \in todo[k] \/ rowLock[t] = k \/ t \notin rows \ revoked

(***************************************************************************)
(* Types.  What the requests remember, and the rows they work on, are kept *)
(* apart: few actions write both.                                          *)
(***************************************************************************)
TaskTypes ==
    /\ rowLock \in [Token -> Task \cup {None}] /\ userLock \in Task \cup {None}
    /\ pc \in [Task -> Stage]
    /\ arg \in [Task -> Token \cup Device \cup {None}]
    /\ todo \in [Task -> SUBSET Token] /\ snap \in [Task -> SUBSET Token]

RowTypes ==
    /\ devRevoked \subseteq devices /\ paired \subseteq devices /\ devices \subseteq Device
    /\ rows \subseteq drawn /\ drawn \subseteq Token
    /\ devOf \in [Token -> Device \cup {None}]
    /\ \A t \in rows : devOf[t] \in devices
    /\ consumed \subseteq drawn /\ revoked \subseteq rows /\ expired \subseteq rows
    /\ epoch \in Nat
    /\ pairing \in Pairing
    /\ parent \in [Token -> Token \cup {None}]

\* The two parts make up the type invariant.
LEMMA TypeParts == TypeOK <=> TaskTypes /\ RowTypes
BY DEF TypeOK, TaskTypes, RowTypes

\* The stages by name.
LEMMA Stages ==
    /\ LockStage \subseteq Stage
    /\ {"idle", "rotate", "rotated", "reuse", "logout", "logoutSnap", "device", "recover",
        "approve", "finish", "miss", "done"} \subseteq Stage
BY DEF Stage

\* A transaction that ends leaves its locks and variables well typed.
LEMMA EndTypes ==
    ASSUME TaskTypes, NEW k \in Task, Forget(k),
           Unlock(k) \/ UNCHANGED lockVars,
           \E s \in Stage : pc' = [pc EXCEPT ![k] = s]
    PROVE  TaskTypes'
<1>1. rowLock' \in [Token -> Task \cup {None}] /\ userLock' \in Task \cup {None}
  BY DEF TaskTypes, Unlock, Unlocked, lockVars
<1>2. /\ arg' \in [Task -> Token \cup Device \cup {None}]
      /\ todo' \in [Task -> SUBSET Token] /\ snap' \in [Task -> SUBSET Token]
  BY DEF TaskTypes, Forget
<1>3. pc' \in [Task -> Stage]
  BY DEF TaskTypes
<1>4. QED
  BY <1>1, <1>2, <1>3 DEF TaskTypes

\* A step that only moves a request on leaves them so too.
LEMMA MoveTypes ==
    ASSUME TaskTypes, NEW k \in Task, UNCHANGED <<lockVars, taskVars>>,
           \E s \in Stage : pc' = [pc EXCEPT ![k] = s]
    PROVE  TaskTypes'
BY DEF TaskTypes, lockVars, taskVars

\* The revoking UPDATE sets out with a set of rows.
LEMMA StartTypes ==
    ASSUME TaskTypes, NEW k \in Task, NEW scope \in SUBSET Token,
           UNCHANGED <<rowLock, userLock, arg>>,
           todo' = [todo EXCEPT ![k] = scope \ revoked],
           snap' = [snap EXCEPT ![k] = scope \ revoked],
           \E s \in Stage : pc' = [pc EXCEPT ![k] = s]
    PROVE  TaskTypes'
<1>1. scope \ revoked \in SUBSET Token
  OBVIOUS
<1>2. todo' \in [Task -> SUBSET Token] /\ snap' \in [Task -> SUBSET Token]
  BY <1>1 DEF TaskTypes
<1>3. QED
  BY <1>2 DEF TaskTypes

\* Every step of the program keeps what requests remember well typed.
LEMMA NextTaskTypes ==
    ASSUME TypeOK, Supply, Next PROVE TaskTypes'
<1> USE TypeParts
<1>1. CASE Environment
  BY <1>1 DEF Environment, StartPairing, ExpirePairing, Expire, SweepExpired, SweepConsumed,
              Sweep, lockVars, taskVars, TaskTypes
<1>2. ASSUME NEW k \in Task, NEW t \in Token, Refresh(k, t) PROVE TaskTypes'
  BY <1>2, Stages DEF Refresh, GoTo, TaskTypes, lockVars
<1>3. ASSUME NEW k \in Task, NEW d \in Device, RevokeDevice(k, d) PROVE TaskTypes'
  BY <1>3, Stages DEF RevokeDevice, GoTo, TaskTypes, lockVars
<1>4. ASSUME NEW k \in Task, Recover(k) PROVE TaskTypes'
  <2>1. pc[k] = "idle"
    BY <1>4 DEF Recover, GoTo
  <2>2. Fresh(Device, devices) \in Device
    BY <2>1, FreshDevice DEF RowTypes
  <2>3. QED
    BY <1>4, <2>2, Stages DEF Recover, GoTo, TaskTypes, lockVars
<1>5. ASSUME NEW k \in Task, Logout(k) \/ ApproveSelect(k) \/ FinishSelect(k) \/ CountMiss(k)
                             \/ ApproveUpdate(k) \/ FinishCommit(k)
      PROVE  TaskTypes'
  <2>1. UNCHANGED <<lockVars, taskVars>> /\ \E s \in Stage : pc' = [pc EXCEPT ![k] = s]
    BY <1>5, Stages DEF Logout, ApproveSelect, FinishSelect, CountMiss, ApproveUpdate,
                        FinishCommit, GoTo
  <2>2. QED
    BY Zenon, <2>1, MoveTypes
<1>6. ASSUME NEW k \in Task, RotateUpdate(k) PROVE TaskTypes'
  <2>1. \E s \in Stage : pc' = [pc EXCEPT ![k] = s]
    BY <1>6, Stages DEF RotateUpdate
  <2>2. CASE Forget(k) /\ UNCHANGED rowLock
    BY Zenon, <1>6, <2>1, <2>2, EndTypes DEF RotateUpdate, lockVars
  <2>3. CASE UNCHANGED taskVars /\ rowLock' = [rowLock EXCEPT ![arg[k]] = k]
    <3>1. UNCHANGED userLock
      BY <1>6 DEF RotateUpdate
    <3>2. rowLock' \in [Token -> Task \cup {None}]
      BY Zenon, <2>3 DEF TaskTypes
    <3>3. pc' \in [Task -> Stage]
      BY <2>1 DEF TaskTypes
    <3>4. QED
      BY <2>3, <3>1, <3>2, <3>3 DEF TaskTypes, taskVars
  <2>4. QED
    BY <1>6, <2>2, <2>3 DEF RotateUpdate
<1>7. ASSUME NEW k \in Task, Reuse(k) \/ LogoutRevoke(k) \/ DeviceRevoke(k) PROVE TaskTypes'
  <2>1. /\ UNCHANGED <<rowLock, userLock, arg>>
        /\ \E s \in Stage : pc' = [pc EXCEPT ![k] = s]
    BY <1>7, Stages DEF Reuse, LogoutRevoke, DeviceRevoke, RevokeStart, GoTo, lockVars,
                        LockStage
  <2>2. PICK scope \in SUBSET Token : /\ todo' = [todo EXCEPT ![k] = scope \ revoked]
                                      /\ snap' = [snap EXCEPT ![k] = scope \ revoked]
    <3>1. rows \in SUBSET Token /\ {t \in rows : devOf[t] = arg[k]} \in SUBSET Token
      BY DEF RowTypes
    <3>2. QED
      BY <1>7, <3>1 DEF Reuse, LogoutRevoke, DeviceRevoke, RevokeStart
  <2>3. QED
    BY Zenon, <2>1, <2>2, StartTypes
<1>8. ASSUME NEW k \in Task, LockRow(k) PROVE TaskTypes'
  BY <1>8 DEF LockRow, TaskTypes
<1>9. ASSUME NEW k \in Task, LogoutUser(k) PROVE TaskTypes'
  BY <1>9, Stages DEF LogoutUser, GoTo, TaskTypes, taskVars
<1>10. ASSUME NEW k \in Task, RotateCommit(k) \/ ReuseCommit(k) \/ LogoutCommit(k)
                              \/ DeviceCommit(k) \/ RecoverToken(k) \/ Abandon(k) \/ Victim(k)
       PROVE  TaskTypes'
  <2>1. /\ Forget(k) /\ (Unlock(k) \/ UNCHANGED lockVars)
        /\ \E s \in Stage : pc' = [pc EXCEPT ![k] = s]
    BY <1>10, Stages DEF RotateCommit, ReuseCommit, LogoutCommit, DeviceCommit, RevokeCommit,
                         RecoverToken, Abandon, Victim, Fail, GoTo
  <2>2. QED
    BY Zenon, <2>1, EndTypes
<1>11. QED
  BY <1>1, <1>2, <1>3, <1>4, <1>5, <1>6, <1>7, <1>8, <1>9, <1>10 DEF Next, Request, TaskStep

\* The rows after a new token is inserted for a device that is there.
LEMMA IssueTypes ==
    ASSUME RowTypes, Fresh(Token, drawn) \in Token \ drawn,
           NEW d \in devices', NEW from \in Token \cup {None}, IssueToken(d, from),
           devices \subseteq devices', devices' \subseteq Device
    PROVE  /\ rows' \subseteq drawn' /\ drawn' \subseteq Token
           /\ drawn \subseteq drawn' /\ rows \subseteq rows'
           /\ devOf' \in [Token -> Device \cup {None}]
           /\ \A t \in rows' : devOf'[t] \in devices'
           /\ parent' \in [Token -> Token \cup {None}]
<1> DEFINE u == Fresh(Token, drawn)
<1>1. /\ drawn' = drawn \cup {u} /\ rows' = rows \cup {u}
      /\ devOf' = [devOf EXCEPT ![u] = d] /\ parent' = [parent EXCEPT ![u] = from]
  BY DEF IssueToken
<1>2. u \in Token \ drawn
  OBVIOUS
<1> HIDE DEF u
<1>3. /\ rows' \subseteq drawn' /\ drawn' \subseteq Token
      /\ drawn \subseteq drawn' /\ rows \subseteq rows'
  BY <1>1, <1>2 DEF RowTypes
<1>4. devOf' \in [Token -> Device \cup {None}] /\ parent' \in [Token -> Token \cup {None}]
  BY <1>1, <1>2 DEF RowTypes
<1>5. \A t \in rows' : devOf'[t] \in devices'
  BY <1>1, <1>2 DEF RowTypes
<1>6. QED
  BY <1>3, <1>4, <1>5

\* A pairing keeps its type, and its history only goes one way.
LEMMA PairingTypes ==
    ASSUME pairing \in Pairing,
           \/ UNCHANGED pairing
           \/ pairing' = [pairing EXCEPT !.started = TRUE]
           \/ pairing' = [pairing EXCEPT !.approved = TRUE]
           \/ pairing' = [pairing EXCEPT !.used = TRUE]
           \/ pairing' = [pairing EXCEPT !.expired = TRUE]
           \/ pairing' = [pairing EXCEPT !.attempts = @ + 1]
    PROVE  pairing' \in Pairing
<1>1. CASE UNCHANGED pairing
  BY <1>1
<1>2. CASE pairing' = [pairing EXCEPT !.started = TRUE]
  BY Zenon, <1>2 DEF Pairing
<1>3. CASE pairing' = [pairing EXCEPT !.approved = TRUE]
  BY Zenon, <1>3 DEF Pairing
<1>4. CASE pairing' = [pairing EXCEPT !.used = TRUE]
  BY Zenon, <1>4 DEF Pairing
<1>5. CASE pairing' = [pairing EXCEPT !.expired = TRUE]
  BY Zenon, <1>5 DEF Pairing
<1>6. CASE pairing' = [pairing EXCEPT !.attempts = @ + 1]
  BY <1>6 DEF Pairing
<1>7. QED
  BY <1>1, <1>2, <1>3, <1>4, <1>5, <1>6

\* Every step of the program keeps the rows well typed.
LEMMA NextRowTypes ==
    ASSUME TypeOK, Supply, LocksHeld, ArgsFit, Next PROVE RowTypes'
<1> USE TypeParts
<1>1. CASE StartPairing \/ ExpirePairing
  <2>1. pairing' \in Pairing
    BY <1>1, PairingTypes DEF StartPairing, ExpirePairing, RowTypes
  <2>2. QED
    BY <1>1, <2>1 DEF StartPairing, ExpirePairing, RowTypes, tokenVars, deviceVars
<1>2. ASSUME NEW t \in Token, Expire(t) PROVE RowTypes'
  BY <1>2 DEF Expire, Live, RowTypes, deviceVars
<1>3. ASSUME NEW gone \in SUBSET rows, Sweep(gone) PROVE RowTypes'
  <2>1. devOf' \in [Token -> Device \cup {None}] /\ \A t \in rows' : devOf'[t] \in devices'
    BY <1>3 DEF Sweep, RowTypes, deviceVars
  <2>2. QED
    BY <1>3, <2>1 DEF Sweep, RowTypes, deviceVars
<1>4. ASSUME NEW k \in Task, NEW t \in Token, Refresh(k, t) PROVE RowTypes'
  BY <1>4 DEF Refresh, RowTypes, tokenVars, deviceVars
<1>5. ASSUME NEW k \in Task, NEW d \in Device, RevokeDevice(k, d) PROVE RowTypes'
  BY <1>5 DEF RevokeDevice, RowTypes, tokenVars
<1>6. ASSUME NEW k \in Task, Recover(k) PROVE RowTypes'
  <2>1. pc[k] = "idle"
    BY <1>6 DEF Recover, GoTo
  <2>2. Fresh(Device, devices) \in Device
    BY <2>1, FreshDevice DEF RowTypes
  <2>3. devices' = devices \cup {Fresh(Device, devices)}
        /\ UNCHANGED <<tokenVars, devRevoked, paired, epoch, pairing>>
    BY <1>6 DEF Recover
  <2>4. QED
    BY <2>2, <2>3 DEF RowTypes, tokenVars
<1>7. ASSUME NEW k \in Task, Logout(k) \/ ApproveSelect(k) \/ FinishSelect(k) \/ RotateUpdate(k)
                             \/ Reuse(k) \/ LogoutRevoke(k) \/ DeviceRevoke(k) \/ LockRow(k)
                             \/ LogoutUser(k) \/ Abandon(k) \/ Victim(k)
      PROVE  RowTypes'
  <2>1. UNCHANGED <<tokenVars, deviceVars, epoch, pairing>>
    BY <1>7 DEF Logout, ApproveSelect, FinishSelect, RotateUpdate, Reuse, LogoutRevoke,
                DeviceRevoke, RevokeStart, LockRow, LogoutUser, Abandon, Victim, Fail
  <2>2. QED
    BY Zenon, <2>1 DEF RowTypes, tokenVars, deviceVars
<1>8. ASSUME NEW k \in Task, CountMiss(k) \/ ApproveUpdate(k) PROVE RowTypes'
  <2>1. pairing' \in Pairing
    BY <1>8, PairingTypes DEF CountMiss, ApproveUpdate, RowTypes
  <2>2. QED
    BY <1>8, <2>1 DEF CountMiss, ApproveUpdate, RowTypes, tokenVars, deviceVars
<1>9. ASSUME NEW k \in Task, RotateCommit(k) PROVE RowTypes'
  <2>1. pc[k] = "rotated" /\ arg[k] \in drawn /\ rowLock[arg[k]] = k
    BY <1>9 DEF RotateCommit, GoTo, LocksHeld, ArgsFit
  <2>2. /\ arg[k] \in rows /\ arg[k] \in Token /\ devOf[arg[k]] \in devices
    BY <2>1 DEF LocksHeld, RowTypes
  <2>3. Fresh(Token, drawn) \in Token \ drawn
    BY <2>1, FreshToken DEF RowTypes
  <2>4. /\ IssueToken(devOf[arg[k]], arg[k]) /\ consumed' = consumed \cup {arg[k]}
        /\ UNCHANGED <<revoked, expired, devices, devRevoked, paired, epoch, pairing>>
    BY <1>9 DEF RotateCommit, deviceVars
  <2>5. /\ rows' \subseteq drawn' /\ drawn' \subseteq Token
        /\ drawn \subseteq drawn' /\ rows \subseteq rows'
        /\ devOf' \in [Token -> Device \cup {None}]
        /\ \A t \in rows' : devOf'[t] \in devices'
        /\ parent' \in [Token -> Token \cup {None}]
    <3>1. devOf[arg[k]] \in devices' /\ devices' \subseteq Device /\ devices \subseteq devices'
      BY <2>2, <2>4 DEF RowTypes
    <3>2. QED
      BY <2>2, <2>3, <2>4, <3>1, IssueTypes
  <2>6. QED
    BY <2>1, <2>4, <2>5 DEF RowTypes
<1>10. ASSUME NEW k \in Task, RecoverToken(k) PROVE RowTypes'
  <2>1. pc[k] = "recover" /\ arg[k] \in devices
    BY <1>10 DEF RecoverToken, GoTo, ArgsFit
  <2>2. Fresh(Token, drawn) \in Token \ drawn
    BY <2>1, FreshToken DEF RowTypes
  <2>3. /\ IssueToken(arg[k], None)
        /\ UNCHANGED <<consumed, revoked, expired, devices, devRevoked, paired, epoch, pairing>>
    BY <1>10 DEF RecoverToken, deviceVars
  <2>4. /\ rows' \subseteq drawn' /\ drawn' \subseteq Token
        /\ drawn \subseteq drawn' /\ rows \subseteq rows'
        /\ devOf' \in [Token -> Device \cup {None}]
        /\ \A t \in rows' : devOf'[t] \in devices'
        /\ parent' \in [Token -> Token \cup {None}]
    <3>1. arg[k] \in devices' /\ devices' \subseteq Device /\ devices \subseteq devices'
      BY <2>1, <2>3 DEF RowTypes
    <3>2. QED
      BY <2>2, <2>3, <3>1, IssueTypes
  <2>5. QED
    BY <2>3, <2>4 DEF RowTypes
<1>11. ASSUME NEW k \in Task, FinishCommit(k) PROVE RowTypes'
  <2>1. pc[k] = "finish"
    BY <1>11 DEF FinishCommit, GoTo
  <2>2. Fresh(Token, drawn) \in Token \ drawn /\ Fresh(Device, devices) \in Device
    BY <2>1, FreshToken, FreshDevice DEF RowTypes
  <2>3. UNCHANGED <<consumed, revoked, expired, devRevoked, epoch>>
    BY <1>11 DEF FinishCommit
  <2>4. CASE UNCHANGED <<rows, devOf, drawn, parent, devices, paired, pairing>>
    BY <2>3, <2>4 DEF RowTypes
  <2>5. CASE AddPaired(Fresh(Device, devices)) /\ pairing' = [pairing EXCEPT !.used = TRUE]
    <3> DEFINE d == Fresh(Device, devices)
    <3>1. /\ IssueToken(d, None) /\ devices' = devices \cup {d} /\ paired' = paired \cup {d}
          /\ d \in Device
      BY <2>2, <2>5 DEF AddPaired
    <3> HIDE DEF d
    <3>2. d \in devices' /\ devices' \subseteq Device /\ devices \subseteq devices'
      BY <3>1 DEF RowTypes
    <3>3. /\ rows' \subseteq drawn' /\ drawn' \subseteq Token
          /\ drawn \subseteq drawn' /\ rows \subseteq rows'
          /\ devOf' \in [Token -> Device \cup {None}]
          /\ \A t \in rows' : devOf'[t] \in devices'
          /\ parent' \in [Token -> Token \cup {None}]
      BY <2>2, <3>1, <3>2, IssueTypes
    <3>4. pairing' \in Pairing
      BY <2>5, PairingTypes DEF RowTypes
    <3>5. QED
      BY <2>3, <3>1, <3>2, <3>3, <3>4 DEF RowTypes
  <2>6. QED
    BY <1>11, <2>4, <2>5 DEF FinishCommit
<1>12. ASSUME NEW k \in Task, ReuseCommit(k) \/ LogoutCommit(k) \/ DeviceCommit(k)
       PROVE  RowTypes'
  <2>1. /\ revoked' = revoked \cup {t \in Token : rowLock[t] = k}
        /\ UNCHANGED <<rows, devOf, consumed, expired, drawn, parent, deviceVars, pairing>>
        /\ epoch' = epoch + 1 \/ epoch' = epoch
    BY <1>12 DEF ReuseCommit, LogoutCommit, DeviceCommit, RevokeCommit
  <2>2. {t \in Token : rowLock[t] = k} \subseteq rows
    BY DEF LocksHeld
  <2>3. QED
    BY <2>1, <2>2 DEF RowTypes, deviceVars
<1>13. QED
  BY Zenon, <1>1, <1>2, <1>3, <1>4, <1>5, <1>6, <1>7, <1>8, <1>9, <1>10, <1>11, <1>12
     DEF Next, Request, TaskStep, Environment, SweepExpired, SweepConsumed

(***************************************************************************)
(* The supply and the arguments, step by step.                             *)
(***************************************************************************)
\* Tokens and devices are never undrawn, and a request that is over, or has named a
\* device, stays so.
LEMMA NextGrows ==
    ASSUME TypeOK, Next
    PROVE  /\ drawn \subseteq drawn' /\ devices \subseteq devices'
           /\ \A j \in Task : /\ pc[j] = "done" => pc'[j] = "done"
                              /\ pc[j] = "recover" => pc'[j] \in {"recover", "done"}
<1>1. drawn \subseteq drawn' /\ devices \subseteq devices'
  BY ZenonT(60) DEF Next, Request, TaskStep, Environment, StartPairing, ExpirePairing, Expire,
         SweepExpired, SweepConsumed, Sweep, Refresh, RevokeDevice, Recover, Logout,
         ApproveSelect, FinishSelect, CountMiss, ApproveUpdate, FinishCommit, AddPaired,
         RotateUpdate, RotateCommit, Reuse, LogoutRevoke, DeviceRevoke, RevokeStart, LockRow,
         ReuseCommit, LogoutCommit, DeviceCommit, RevokeCommit, LogoutUser, RecoverToken,
         Abandon, Victim, Fail, IssueToken, tokenVars, deviceVars
<1>2. CASE UNCHANGED pc
  BY <1>1, <1>2
<1>3. ASSUME NEW k \in Task, pc[k] \notin {"recover", "done"},
             \E s \in Stage : pc' = [pc EXCEPT ![k] = s]
      PROVE  \A j \in Task : /\ pc[j] = "done" => pc'[j] = "done"
                             /\ pc[j] = "recover" => pc'[j] \in {"recover", "done"}
  BY <1>3 DEF TypeOK
<1>4. ASSUME NEW k \in Task, pc' = [pc EXCEPT ![k] = "done"]
      PROVE  \A j \in Task : /\ pc[j] = "done" => pc'[j] = "done"
                             /\ pc[j] = "recover" => pc'[j] \in {"recover", "done"}
  BY <1>4 DEF TypeOK
<1>5. CASE Environment
  BY <1>2, <1>5 DEF Environment, StartPairing, ExpirePairing, Expire, SweepExpired,
                    SweepConsumed, Sweep
<1>6. ASSUME NEW k \in Task, Request(k)
      PROVE  pc[k] = "idle" /\ \E s \in Stage : pc' = [pc EXCEPT ![k] = s]
  BY <1>6, Stages DEF Request, Refresh, RevokeDevice, Recover, Logout, ApproveSelect,
                      FinishSelect, GoTo
<1>7. ASSUME NEW k \in Task, TaskStep(k) \/ Abandon(k) \/ Victim(k)
      PROVE  \/ UNCHANGED pc
             \/ pc' = [pc EXCEPT ![k] = "done"]
             \/ /\ pc[k] \in {"rotate", "reuse", "logout", "logoutSnap", "device"}
                /\ \E s \in Stage : pc' = [pc EXCEPT ![k] = s]
  BY <1>7, Stages DEF TaskStep, CountMiss, ApproveUpdate, FinishCommit, RotateUpdate,
         RotateCommit, Reuse, LogoutRevoke, DeviceRevoke, RevokeStart, LockRow, ReuseCommit,
         LogoutCommit, DeviceCommit, RevokeCommit, LogoutUser, RecoverToken, Abandon, Victim,
         Fail, GoTo, LockStage
<1>8. \A j \in Task : /\ pc[j] = "done" => pc'[j] = "done"
                      /\ pc[j] = "recover" => pc'[j] \in {"recover", "done"}
  BY <1>2, <1>3, <1>4, <1>5, <1>6, <1>7 DEF Next
<1>9. QED
  BY <1>1, <1>8

\* The request of a step keeps its argument, has it fit anew, or needs none.
LEMMA ArgsStep ==
    ASSUME TypeOK, ArgsFit, drawn \subseteq drawn', devices \subseteq devices',
           NEW k \in Task, \A j \in Task \ {k} : pc'[j] = pc[j] /\ arg'[j] = arg[j],
           /\ pc'[k] \in {"rotate", "rotated"} => arg'[k] \in drawn'
           /\ pc'[k] = "recover" => arg'[k] \in devices'
    PROVE  ArgsFit'
BY DEF ArgsFit

\* Every step keeps the arguments fitting.
LEMMA NextArgsFit ==
    ASSUME TypeOK, Supply, ArgsFit, Next PROVE ArgsFit'
<1>1. drawn \subseteq drawn' /\ devices \subseteq devices'
  BY NextGrows
<1>2. CASE UNCHANGED <<pc, arg>>
  BY <1>1, <1>2 DEF ArgsFit
<1>3. CASE Environment
  BY <1>2, <1>3 DEF Environment, StartPairing, ExpirePairing, Expire, SweepExpired,
                    SweepConsumed, Sweep, taskVars
<1>4. ASSUME NEW k \in Task, NEW t \in Token, Refresh(k, t) PROVE ArgsFit'
  <2>1. /\ \A j \in Task \ {k} : pc'[j] = pc[j] /\ arg'[j] = arg[j]
        /\ pc'[k] = "rotate" /\ arg'[k] = t /\ t \in drawn'
    BY <1>1, <1>4 DEF Refresh, GoTo, TypeOK
  <2>2. QED
    BY <1>1, <2>1, ArgsStep
<1>5. ASSUME NEW k \in Task, Recover(k) PROVE ArgsFit'
  <2>1. /\ \A j \in Task \ {k} : pc'[j] = pc[j] /\ arg'[j] = arg[j]
        /\ pc'[k] = "recover" /\ arg'[k] \in devices'
    BY <1>5 DEF Recover, GoTo, TypeOK
  <2>2. QED
    BY <1>1, <2>1, ArgsStep
<1>6. ASSUME NEW k \in Task, RotateUpdate(k) PROVE ArgsFit'
  <2>1. pc[k] = "rotate" /\ arg[k] \in drawn
    BY <1>6 DEF RotateUpdate, ArgsFit
  <2>2. CASE UNCHANGED taskVars /\ pc' = [pc EXCEPT ![k] = "rotated"]
    <3>1. /\ \A j \in Task \ {k} : pc'[j] = pc[j] /\ arg'[j] = arg[j]
          /\ pc'[k] = "rotated" /\ arg'[k] \in drawn'
      BY <1>1, <2>1, <2>2 DEF taskVars, TypeOK
    <3>2. QED
      BY <1>1, <3>1, ArgsStep
  <2>3. CASE Forget(k) /\ \E s \in {"reuse", "done"} : pc' = [pc EXCEPT ![k] = s]
    <3>1. /\ \A j \in Task \ {k} : pc'[j] = pc[j] /\ arg'[j] = arg[j]
          /\ pc'[k] \in {"reuse", "done"}
      BY <2>3 DEF Forget, TypeOK
    <3>2. QED
      BY <1>1, <3>1, ArgsStep
  <2>4. QED
    BY <1>6, <2>2, <2>3 DEF RotateUpdate
<1>7. ASSUME NEW k \in Task, NEW s \in Stage \ {"rotate", "rotated", "recover"},
             pc' = [pc EXCEPT ![k] = s],
             UNCHANGED arg \/ \E a \in Device \cup {None} : arg' = [arg EXCEPT ![k] = a]
      PROVE  ArgsFit'
  <2>1. /\ \A j \in Task \ {k} : pc'[j] = pc[j] /\ arg'[j] = arg[j]
        /\ pc'[k] = s
    BY <1>7 DEF TypeOK
  <2>2. QED
    BY <1>1, <2>1, ArgsStep
<1>8. ASSUME NEW k \in Task, \/ \E d \in Device : RevokeDevice(k, d)
                             \/ Logout(k) \/ ApproveSelect(k) \/ FinishSelect(k) \/ CountMiss(k)
                             \/ ApproveUpdate(k) \/ FinishCommit(k) \/ RotateCommit(k) \/ Reuse(k)
                             \/ LogoutRevoke(k) \/ DeviceRevoke(k) \/ ReuseCommit(k)
                             \/ LogoutCommit(k) \/ DeviceCommit(k) \/ LogoutUser(k)
                             \/ RecoverToken(k) \/ Abandon(k) \/ Victim(k)
      PROVE  ArgsFit'
  <2>1. \E s \in Stage \ {"rotate", "rotated", "recover"} : pc' = [pc EXCEPT ![k] = s]
    BY ZenonT(30), <1>8 DEF RevokeDevice, Logout, ApproveSelect, FinishSelect, CountMiss, ApproveUpdate,
         FinishCommit, RotateCommit, Reuse, LogoutRevoke, DeviceRevoke, RevokeStart,
         ReuseCommit, LogoutCommit, DeviceCommit, RevokeCommit, LogoutUser, RecoverToken,
         Abandon, Victim, Fail, GoTo, Stage, LockStage
  <2>2. UNCHANGED arg \/ \E a \in Device \cup {None} : arg' = [arg EXCEPT ![k] = a]
    BY Zenon, <1>8 DEF RevokeDevice, Logout, ApproveSelect, FinishSelect, CountMiss, ApproveUpdate,
         FinishCommit, RotateCommit, Reuse, LogoutRevoke, DeviceRevoke, RevokeStart,
         ReuseCommit, LogoutCommit, DeviceCommit, RevokeCommit, LogoutUser, RecoverToken,
         Abandon, Victim, Fail, Forget, taskVars
  <2>3. QED
    BY ZenonT(30), <1>7, <2>1, <2>2
<1>9. ASSUME NEW k \in Task, LockRow(k) PROVE ArgsFit'
  BY <1>2, <1>9 DEF LockRow
<1>10. QED
  BY Zenon, <1>3, <1>4, <1>5, <1>6, <1>8, <1>9 DEF Next, Request, TaskStep

\* A request draws a token as it ends, and names a device as it goes to recover or
\* to its end.
LEMMA NextSupply ==
    ASSUME TypeOK, Supply, Next PROVE Supply'
<1>1. Done \subseteq Done' /\ Named \subseteq Named'
  BY NextGrows DEF Done, Named
<1>2. Done \subseteq Task /\ Done' \subseteq Task /\ Named \subseteq Task /\ Named' \subseteq Task
  BY DEF Done, Named
<1>3. IsFiniteSet(drawn) /\ IsFiniteSet(devices)
  BY FinitenessAssumption, FS_Subset DEF TypeOK
<1>4. ASSUME NEW k \in Task, drawn' = drawn \/ \E x \in {Fresh(Token, drawn)} :
                               drawn' = drawn \cup {x} /\ k \in Done' \ Done
      PROVE  Cardinality(drawn') <= 1 + Cardinality(Done')
  BY Zenon, <1>1, <1>2, <1>3, <1>4, OneMore DEF Supply
<1>5. ASSUME NEW k \in Task, devices' = devices \/ \E x \in {Fresh(Device, devices)} :
                               devices' = devices \cup {x} /\ k \in Named' \ Named
      PROVE  Cardinality(devices') <= 1 + Cardinality(Named')
  BY Zenon, <1>1, <1>2, <1>3, <1>5, OneMore DEF Supply
<1>6. ASSUME NEW k \in Task, RotateCommit(k) \/ RecoverToken(k) \/ FinishCommit(k)
      PROVE  drawn' = drawn \/ \E x \in {Fresh(Token, drawn)} :
                 drawn' = drawn \cup {x} /\ k \in Done' \ Done
  <2>1. /\ pc[k] \in {"rotated", "recover", "finish"} /\ pc' = [pc EXCEPT ![k] = "done"]
        /\ drawn' = drawn \/ drawn' = drawn \cup {Fresh(Token, drawn)}
    BY <1>6 DEF RotateCommit, RecoverToken, FinishCommit, AddPaired, IssueToken, GoTo
  <2>2. k \in Done' \ Done
    BY <2>1 DEF Done, TypeOK
  <2>3. QED
    BY <2>1, <2>2
<1>7. ASSUME NEW k \in Task, Recover(k) \/ FinishCommit(k)
      PROVE  devices' = devices \/ \E x \in {Fresh(Device, devices)} :
                 devices' = devices \cup {x} /\ k \in Named' \ Named
  <2>1. /\ pc[k] \in {"idle", "finish"}
        /\ pc' = [pc EXCEPT ![k] = "done"] \/ pc' = [pc EXCEPT ![k] = "recover"]
        /\ devices' = devices \/ devices' = devices \cup {Fresh(Device, devices)}
    BY <1>7 DEF Recover, FinishCommit, AddPaired, GoTo
  <2>2. k \in Named' \ Named
    BY <2>1 DEF Named, TypeOK
  <2>3. QED
    BY <2>1, <2>2
<1>8. UNCHANGED drawn \/ \E k \in Task : RotateCommit(k) \/ RecoverToken(k) \/ FinishCommit(k)
  BY ZenonT(60) DEF Next, Request, TaskStep, Environment, StartPairing, ExpirePairing, Expire,
         SweepExpired, SweepConsumed, Sweep, Refresh, RevokeDevice, Recover, Logout,
         ApproveSelect, FinishSelect, CountMiss, ApproveUpdate, RotateUpdate, Reuse,
         LogoutRevoke, DeviceRevoke, RevokeStart, LockRow, ReuseCommit, LogoutCommit,
         DeviceCommit, RevokeCommit, LogoutUser, Abandon, Victim, Fail, tokenVars
<1>9. UNCHANGED devices \/ \E k \in Task : Recover(k) \/ FinishCommit(k)
  BY ZenonT(30) DEF Next, Request, TaskStep, Environment, StartPairing, ExpirePairing, Expire,
         SweepExpired, SweepConsumed, Sweep, Refresh, RevokeDevice, Logout,
         ApproveSelect, FinishSelect, CountMiss, ApproveUpdate, RotateUpdate, RotateCommit,
         Reuse, LogoutRevoke, DeviceRevoke, RevokeStart, LockRow, ReuseCommit, LogoutCommit,
         DeviceCommit, RevokeCommit, LogoutUser, RecoverToken, Abandon, Victim, Fail,
         deviceVars
<1>10. Cardinality(drawn') <= 1 + Cardinality(Done')
  <2>1. CASE UNCHANGED drawn
    <3>1. /\ IsFiniteSet(Done) /\ IsFiniteSet(Done') /\ Cardinality(drawn) \in Nat
      BY <1>2, <1>3, TaskCount, FS_Subset, FS_CardinalityType
    <3>2. /\ Cardinality(Done) <= Cardinality(Done')
          /\ Cardinality(Done) \in Nat /\ Cardinality(Done') \in Nat
      BY <1>1, <3>1, FS_Subset, FS_CardinalityType
    <3>3. QED
      BY <2>1, <3>1, <3>2 DEF Supply
  <2>2. QED
    BY <1>4, <1>6, <1>8, <2>1
<1>11. Cardinality(devices') <= 1 + Cardinality(Named')
  <2>1. CASE UNCHANGED devices
    <3>1. /\ IsFiniteSet(Named) /\ IsFiniteSet(Named') /\ Cardinality(devices) \in Nat
      BY <1>2, <1>3, TaskCount, FS_Subset, FS_CardinalityType
    <3>2. /\ Cardinality(Named) <= Cardinality(Named')
          /\ Cardinality(Named) \in Nat /\ Cardinality(Named') \in Nat
      BY <1>1, <3>1, FS_Subset, FS_CardinalityType
    <3>3. QED
      BY <2>1, <3>1, <3>2 DEF Supply
  <2>2. QED
    BY <1>5, <1>7, <1>9, <2>1
<1>12. QED
  BY Zenon, <1>10, <1>11 DEF Supply

(***************************************************************************)
(* The locks, step by step.                                                *)
(***************************************************************************)
\* Stages at which a request holds rows of tokens,
Holding == LockStage \cup {"rotated"}

\* and those at which it holds the user's row.
UserHolding == {"logoutSnap", "logoutLock"}

\* No lock is taken or released: requests that hold rows stay as they are, and
\* locked rows stay where they are.
LEMMA LocksKept ==
    ASSUME TypeOK, LocksHeld, UNCHANGED <<rowLock, userLock, consumed>>,
           \A t \in Token : rowLock[t] # None /\ t \in rows => t \in rows',
           \A j \in Task :
               \/ pc'[j] = pc[j] /\ arg'[j] = arg[j] /\ snap'[j] = snap[j]
               \/ /\ pc[j] \notin Holding /\ pc'[j] # "rotated"
                  /\ pc[j] \in UserHolding <=> pc'[j] \in UserHolding
    PROVE  LocksHeld'
<1>1. ASSUME NEW t \in Token, NEW k \in Task, rowLock'[t] = k
      PROVE  /\ t \in rows'
             /\ \/ pc'[k] = "rotated" /\ arg'[k] = t
                \/ pc'[k] \in LockStage /\ t \in snap'[k]
  <2>1. rowLock[t] = k /\ rowLock[t] # None
    BY Zenon, <1>1, NoneAssumption
  <2>2. /\ t \in rows
        /\ \/ pc[k] = "rotated" /\ arg[k] = t
           \/ pc[k] \in LockStage /\ t \in snap[k]
    BY <2>1 DEF LocksHeld
  <2>3. pc[k] \in Holding
    BY Zenon, <2>2 DEF Holding
  <2>4. QED
    BY Zenon, <2>1, <2>2, <2>3
<1>2. ASSUME NEW k \in Task, pc'[k] = "rotated"
      PROVE  rowLock'[arg'[k]] = k /\ arg'[k] \notin consumed'
  BY <1>2 DEF LocksHeld
<1>3. ASSUME NEW k \in Task PROVE userLock' = k <=> pc'[k] \in UserHolding
  BY Zenon DEF LocksHeld, UserHolding
<1>4. QED
  BY <1>1, <1>2, <1>3 DEF LocksHeld, UserHolding

\* The transaction of k ends.
LEMMA LocksReleased ==
    ASSUME TypeOK, LocksHeld, NEW k \in Task, Unlock(k), rows \subseteq rows', pc'[k] = "done",
           \A j \in Task \ {k} : pc'[j] = pc[j] /\ arg'[j] = arg[j] /\ snap'[j] = snap[j],
           \A j \in Task \ {k} : pc[j] = "rotated" => arg[j] \in Token /\ arg[j] \notin consumed'
    PROVE  LocksHeld'
<1>1. /\ \A t \in Token : rowLock'[t] = IF rowLock[t] = k THEN None ELSE rowLock[t]
      /\ userLock' = IF userLock = k THEN None ELSE userLock
  BY DEF Unlock, Unlocked
<1>2. ASSUME NEW t \in Token, NEW j \in Task, rowLock'[t] = j
      PROVE  /\ t \in rows'
             /\ \/ pc'[j] = "rotated" /\ arg'[j] = t
                \/ pc'[j] \in LockStage /\ t \in snap'[j]
  <2>1. rowLock[t] = j /\ j # k
    BY Zenon, <1>1, <1>2, NoneAssumption
  <2>2. /\ t \in rows
        /\ \/ pc[j] = "rotated" /\ arg[j] = t
           \/ pc[j] \in LockStage /\ t \in snap[j]
    BY <2>1 DEF LocksHeld
  <2>3. QED
    BY <2>1, <2>2
<1>3. ASSUME NEW j \in Task, pc'[j] = "rotated"
      PROVE  rowLock'[arg'[j]] = j /\ arg'[j] \notin consumed'
  <2>1. j # k /\ pc[j] = "rotated"
    BY Zenon, <1>3
  <2>2. arg[j] \in Token /\ arg'[j] = arg[j] /\ arg[j] \notin consumed' /\ rowLock[arg[j]] = j
    BY <2>1 DEF LocksHeld
  <2>3. QED
    BY Zenon, <1>1, <2>1, <2>2
<1>4. ASSUME NEW j \in Task PROVE userLock' = j <=> pc'[j] \in UserHolding
  BY ZenonT(30), <1>1, NoneAssumption DEF LocksHeld, UserHolding
<1>5. QED
  BY Zenon, <1>2, <1>3, <1>4 DEF LocksHeld, UserHolding

\* A row that is free is locked by k, which was in stage "rotate" or is locking what
\* its UPDATE saw.
LEMMA LockTaken ==
    ASSUME TypeOK, LocksHeld, ArgsFit, NEW k \in Task, NEW r \in rows,
           rowLock[r] = None, rowLock' = [rowLock EXCEPT ![r] = k],
           UNCHANGED <<userLock, rows, consumed, arg, snap>>,
           \/ /\ pc[k] = "rotate" /\ pc' = [pc EXCEPT ![k] = "rotated"]
              /\ arg[k] = r /\ r \notin consumed
           \/ pc[k] \in LockStage /\ UNCHANGED pc /\ r \in snap[k]
    PROVE  LocksHeld'
<1>1. /\ \A t \in Token : rowLock'[t] = IF t = r THEN k ELSE rowLock[t]
      /\ \A j \in Task \ {k} : pc'[j] = pc[j]
  BY Zenon DEF TypeOK
<1>2. \/ pc[k] = "rotate" /\ pc'[k] = "rotated" /\ arg[k] = r /\ r \notin consumed
      \/ pc[k] \in LockStage /\ pc'[k] = pc[k] /\ r \in snap[k]
  BY DEF TypeOK
<1>3. r \in Token
  BY DEF TypeOK
<1>4. ASSUME NEW t \in Token, NEW j \in Task, rowLock'[t] = j
      PROVE  /\ t \in rows'
             /\ \/ pc'[j] = "rotated" /\ arg'[j] = t
                \/ pc'[j] \in LockStage /\ t \in snap'[j]
  <2>1. CASE t = r
    BY <1>1, <1>2, <1>4, <2>1
  <2>2. CASE t # r
    <3>1. rowLock[t] = j
      BY Zenon, <1>1, <1>4, <2>2
    <3>2. /\ t \in rows
          /\ \/ pc[j] = "rotated" /\ arg[j] = t
             \/ pc[j] \in LockStage /\ t \in snap[j]
      BY <3>1 DEF LocksHeld
    <3>3. QED
      BY <1>1, <1>2, <3>2 DEF LockStage
  <2>3. QED
    BY Zenon, <2>1, <2>2
<1>5. ASSUME NEW j \in Task, pc'[j] = "rotated"
      PROVE  rowLock'[arg'[j]] = j /\ arg'[j] \notin consumed'
  <2>1. CASE j = k
    BY Zenon, <1>1, <1>2, <1>3, <1>5, <2>1 DEF LockStage
  <2>2. CASE j # k
    <3>1. pc[j] = "rotated" /\ arg'[j] = arg[j]
      BY <1>1, <1>5, <2>2
    <3>2. rowLock[arg[j]] = j /\ arg[j] \notin consumed
      BY Zenon, <3>1 DEF LocksHeld
    <3>3. arg[j] # r /\ arg[j] \in Token
      BY Zenon, <3>1, <3>2, NoneAssumption DEF ArgsFit, TypeOK
    <3>4. rowLock'[arg[j]] = rowLock[arg[j]]
      BY <1>1, <3>3
    <3>5. QED
      BY <3>1, <3>2, <3>4
  <2>3. QED
    BY <2>1, <2>2
<1>6. ASSUME NEW j \in Task PROVE userLock' = j <=> pc'[j] \in UserHolding
  BY <1>1, <1>2 DEF LocksHeld, UserHolding
<1>7. QED
  BY <1>4, <1>5, <1>6 DEF LocksHeld, UserHolding

\* Every step keeps the locks with the requests that need them.
LEMMA NextLocksHeld ==
    ASSUME TypeOK, LocksHeld, ArgsFit, SeenRows, Next PROVE LocksHeld'
<1>1. CASE StartPairing \/ ExpirePairing \/ \E t \in Token : Expire(t)
  <2>1. UNCHANGED <<rowLock, userLock, rows, consumed, pc, arg, snap>>
    BY <1>1 DEF StartPairing, ExpirePairing, Expire, tokenVars, lockVars, taskVars
  <2>2. QED
    BY <2>1, LocksKept
<1>2. ASSUME NEW gone \in SUBSET rows, Sweep(gone) PROVE LocksHeld'
  <2>1. /\ UNCHANGED <<rowLock, userLock, consumed, pc, arg, snap>>
        /\ rows' = rows \ gone /\ \A t \in gone : rowLock[t] = None
    BY <1>2 DEF Sweep, lockVars, taskVars
  <2>2. QED
    BY Zenon, <2>1, LocksKept
<1>3. ASSUME NEW k \in Task, Request(k) \/ CountMiss(k) \/ ApproveUpdate(k) \/ FinishCommit(k)
                             \/ RecoverToken(k) \/ Reuse(k) \/ LogoutRevoke(k) \/ DeviceRevoke(k)
      PROVE  LocksHeld'
  <2>1. UNCHANGED <<rowLock, userLock, consumed>> /\ rows \subseteq rows'
    BY Zenon, <1>3 DEF Request, Refresh, RevokeDevice, Logout, Recover, ApproveSelect, FinishSelect,
         CountMiss, ApproveUpdate, FinishCommit, AddPaired, IssueToken, RecoverToken, Reuse,
         LogoutRevoke, DeviceRevoke, RevokeStart, tokenVars, lockVars
  <2>2. /\ pc[k] \notin Holding
        /\ \E s \in Stage \ {"rotated"} :
             /\ pc' = [pc EXCEPT ![k] = s]
             /\ pc[k] \in UserHolding <=> s \in UserHolding
    BY ZenonT(30), <1>3 DEF Request, Refresh, RevokeDevice, Logout, Recover, ApproveSelect, FinishSelect,
         CountMiss, ApproveUpdate, FinishCommit, RecoverToken, Reuse, LogoutRevoke,
         DeviceRevoke, RevokeStart, GoTo, Holding, UserHolding, Stage, LockStage
  <2>3. /\ UNCHANGED arg \/ \E a : arg' = [arg EXCEPT ![k] = a]
        /\ UNCHANGED snap \/ \E s : snap' = [snap EXCEPT ![k] = s]
    BY <1>3 DEF Request, Refresh, RevokeDevice, Logout, Recover, ApproveSelect, FinishSelect,
         CountMiss, ApproveUpdate, FinishCommit, RecoverToken, Reuse, LogoutRevoke,
         DeviceRevoke, RevokeStart, Forget, taskVars
  <2>4. \A j \in Task \ {k} : pc'[j] = pc[j] /\ arg'[j] = arg[j] /\ snap'[j] = snap[j]
    BY <2>2, <2>3 DEF TypeOK
  <2>5. pc'[k] # "rotated" /\ (pc[k] \in UserHolding <=> pc'[k] \in UserHolding)
    BY <2>2 DEF TypeOK
  <2>6. QED
    BY Zenon, <2>1, <2>2, <2>4, <2>5, LocksKept
<1>4. ASSUME NEW k \in Task, RotateUpdate(k) PROVE LocksHeld'
  <2>1. pc[k] = "rotate" /\ UNCHANGED <<userLock, rows, consumed>>
    BY <1>4 DEF RotateUpdate, tokenVars
  <2>2. CASE /\ Live(arg[k]) /\ rowLock[arg[k]] = None
             /\ rowLock' = [rowLock EXCEPT ![arg[k]] = k]
             /\ pc' = [pc EXCEPT ![k] = "rotated"]
             /\ UNCHANGED taskVars
    BY ZenonT(30), <2>1, <2>2, LockTaken DEF Live, taskVars
  <2>3. CASE /\ UNCHANGED rowLock /\ Forget(k)
             /\ \E s \in {"reuse", "done"} : pc' = [pc EXCEPT ![k] = s]
    <3>1. /\ \A j \in Task \ {k} : pc'[j] = pc[j] /\ arg'[j] = arg[j] /\ snap'[j] = snap[j]
          /\ pc'[k] \in {"reuse", "done"}
      BY <2>3 DEF Forget, TypeOK
    <3>2. QED
      BY <2>1, <2>3, <3>1, LocksKept DEF Holding, UserHolding, LockStage
  <2>4. QED
    BY <1>4, <2>2, <2>3 DEF RotateUpdate
<1>5. ASSUME NEW k \in Task, LockRow(k), NEW r \in todo[k], rowLock[r] = None,
             rowLock' = IF r \in rows \ revoked THEN [rowLock EXCEPT ![r] = k] ELSE rowLock,
             todo[k] \subseteq snap[k]
      PROVE  LocksHeld'
  <2>1. pc[k] \in LockStage /\ UNCHANGED <<userLock, rows, consumed, pc, arg, snap>>
    BY Zenon, <1>5 DEF LockRow, tokenVars
  <2>2. CASE UNCHANGED rowLock
    BY Zenon, <2>1, <2>2, LocksKept
  <2>3. CASE r \in rows /\ rowLock' = [rowLock EXCEPT ![r] = k]
    BY ZenonT(30), <1>5, <2>1, <2>3, LockTaken
  <2>4. QED
    BY <1>5, <2>2, <2>3
<1>6. ASSUME NEW k \in Task, LogoutUser(k) PROVE LocksHeld'
  <2>1. /\ pc[k] = "logout" /\ userLock = None /\ userLock' = k
        /\ UNCHANGED <<rowLock, rows, consumed, arg, snap>>
        /\ pc' = [pc EXCEPT ![k] = "logoutSnap"]
    BY Zenon, <1>6 DEF LogoutUser, GoTo, tokenVars, taskVars
  <2>2. pc'[k] = "logoutSnap" /\ \A j \in Task \ {k} : pc'[j] = pc[j]
    BY <2>1 DEF TypeOK
  <2>3. ASSUME NEW t \in Token, NEW j \in Task, rowLock[t] = j
        PROVE  /\ t \in rows
               /\ \/ pc'[j] = "rotated" /\ arg[j] = t
                  \/ pc'[j] \in LockStage /\ t \in snap[j]
    BY <2>1, <2>2, <2>3 DEF LocksHeld, LockStage
  <2>4. \A j \in Task : pc'[j] = "rotated" => rowLock[arg[j]] = j /\ arg[j] \notin consumed
    BY <2>1, <2>2 DEF LocksHeld
  <2>5. \A j \in Task : userLock' = j <=> pc'[j] \in {"logoutSnap", "logoutLock"}
    BY Zenon, <2>1, <2>2, NoneAssumption DEF LocksHeld
  <2>6. QED
    BY <2>1, <2>3, <2>4, <2>5 DEF LocksHeld
<1>7. ASSUME NEW k \in Task, RotateCommit(k) \/ ReuseCommit(k) \/ LogoutCommit(k)
                             \/ DeviceCommit(k) \/ Abandon(k) \/ Victim(k)
      PROVE  LocksHeld'
  <2>1. /\ Unlock(k) /\ Forget(k) /\ rows \subseteq rows' /\ pc' = [pc EXCEPT ![k] = "done"]
        /\ \/ UNCHANGED consumed
           \/ pc[k] = "rotated" /\ consumed' = consumed \cup {arg[k]}
    BY <1>7 DEF RotateCommit, IssueToken, ReuseCommit, LogoutCommit, DeviceCommit, RevokeCommit,
         Abandon, Victim, Fail, GoTo, tokenVars
  <2>2. /\ \A j \in Task \ {k} : pc'[j] = pc[j] /\ arg'[j] = arg[j] /\ snap'[j] = snap[j]
        /\ pc'[k] = "done"
    BY Zenon, <2>1 DEF Forget, TypeOK
  <2>3. ASSUME NEW j \in Task \ {k}, pc[j] = "rotated"
        PROVE  arg[j] \in Token /\ arg[j] \notin consumed'
    <3>1. arg[j] \in Token /\ rowLock[arg[j]] = j /\ arg[j] \notin consumed
      BY <2>3 DEF LocksHeld, ArgsFit, TypeOK
    <3>2. pc[k] = "rotated" => rowLock[arg[k]] = k
      BY DEF LocksHeld
    <3>3. QED
      BY Zenon, <2>1, <2>3, <3>1, <3>2
  <2>4. QED
    BY ZenonT(30), <2>1, <2>2, <2>3, LocksReleased
<1>8. ASSUME NEW k \in Task, LockRow(k) PROVE LocksHeld'
  BY Zenon, <1>5, <1>8 DEF LockRow, SeenRows
<1>9. QED
  BY Zenon, <1>1, <1>2, <1>3, <1>4, <1>6, <1>7, <1>8
     DEF Next, TaskStep, Environment, SweepExpired, SweepConsumed

(***************************************************************************)
(* The rows that a revoking UPDATE has seen.                               *)
(***************************************************************************)
\* A token whose row is gone or revoked never gets a row that is not.
LEMMA DeadStaysDead ==
    ASSUME TypeOK, Supply, Next, NEW t \in drawn, t \notin rows \ revoked
    PROVE  t \notin rows' \ revoked'
<1>1. CASE rows' \subseteq rows /\ revoked \subseteq revoked'
  BY Zenon, <1>1
<1>2. ASSUME NEW gone \in SUBSET rows, Sweep(gone) PROVE t \notin rows' \ revoked'
  BY <1>2 DEF Sweep
<1>3. ASSUME NEW k \in Task, RotateCommit(k) \/ RecoverToken(k) \/ FinishCommit(k)
      PROVE  t \notin rows' \ revoked'
  <2>1. pc[k] # "done" /\ revoked' = revoked
        /\ (rows' = rows \/ rows' = rows \cup {Fresh(Token, drawn)})
    BY <1>3 DEF RotateCommit, RecoverToken, FinishCommit, AddPaired, IssueToken, GoTo
  <2>2. Fresh(Token, drawn) \notin drawn
    BY <2>1, FreshToken DEF TypeOK
  <2>3. QED
    BY <2>1, <2>2
<1>4. CASE Next /\ ~(\E gone \in SUBSET rows : Sweep(gone))
               /\ ~(\E k \in Task : RotateCommit(k) \/ RecoverToken(k) \/ FinishCommit(k))
  <2>1. rows' = rows /\ revoked \subseteq revoked'
    BY ZenonT(60), <1>4 DEF Next, Request, TaskStep, Environment, StartPairing, ExpirePairing, Expire,
         SweepExpired, SweepConsumed, Refresh, RevokeDevice, Recover, Logout, ApproveSelect,
         FinishSelect, CountMiss, ApproveUpdate, RotateUpdate, Reuse, LogoutRevoke,
         DeviceRevoke, RevokeStart, LockRow, ReuseCommit, LogoutCommit, DeviceCommit,
         RevokeCommit, LogoutUser, Abandon, Victim, Fail, tokenVars
  <2>2. QED
    BY <1>1, <2>1
<1>5. QED
  BY <1>2, <1>3, <1>4

\* A request either keeps its sets of rows and the locks it has, or starts with rows
\* that are all still to be locked.
LEMMA SeenStep ==
    ASSUME TypeOK, SeenRows, drawn \subseteq drawn',
           \A t \in drawn : t \notin rows \ revoked => t \notin rows' \ revoked',
           \A j \in Task :
               \/ /\ todo'[j] = todo[j] /\ snap'[j] = snap[j]
                  /\ pc'[j] \in LockStage => pc[j] \in LockStage
                  /\ \A t \in Token : rowLock[t] = j => rowLock'[t] = j
               \/ todo'[j] = snap'[j] /\ snap'[j] \subseteq drawn
    PROVE  SeenRows'
<1> SUFFICES ASSUME NEW j \in Task
             PROVE  /\ todo'[j] \subseteq snap'[j] /\ snap'[j] \subseteq drawn'
                    /\ pc'[j] \in LockStage => \A t \in snap'[j] :
                         t \in todo'[j] \/ rowLock'[t] = j \/ t \notin rows' \ revoked'
  BY Zenon DEF SeenRows
<1>1. CASE todo'[j] = snap'[j] /\ snap'[j] \subseteq drawn
  BY <1>1
<1>2. CASE /\ todo'[j] = todo[j] /\ snap'[j] = snap[j]
           /\ pc'[j] \in LockStage => pc[j] \in LockStage
           /\ \A t \in Token : rowLock[t] = j => rowLock'[t] = j
  <2>1. todo[j] \subseteq snap[j] /\ snap[j] \subseteq drawn /\ drawn \subseteq Token
    BY DEF SeenRows, TypeOK
  <2>2. ASSUME pc'[j] \in LockStage, NEW t \in snap[j]
        PROVE  t \in todo[j] \/ rowLock'[t] = j \/ t \notin rows' \ revoked'
    <3>1. t \in todo[j] \/ rowLock[t] = j \/ t \notin rows \ revoked
      BY <1>2, <2>2 DEF SeenRows
    <3>2. QED
      BY ZenonT(30), <1>2, <2>1, <3>1
  <2>3. QED
    BY ZenonT(30), <1>2, <2>1, <2>2
<1>3. QED
  BY ZenonT(30), <1>1, <1>2

\* Every step keeps account of the rows that revoking UPDATEs have seen.
LEMMA NextSeenRows ==
    ASSUME TypeOK, Supply, SeenRows, Next PROVE SeenRows'
<1>1. /\ drawn \subseteq drawn'
      /\ \A t \in drawn : t \notin rows \ revoked => t \notin rows' \ revoked'
  BY ZenonT(30), NextGrows, DeadStaysDead
<1>2. CASE Environment
  <2>1. UNCHANGED <<pc, rowLock, todo, snap>>
    BY Zenon, <1>2 DEF Environment, StartPairing, ExpirePairing, Expire, SweepExpired, SweepConsumed,
                Sweep, lockVars, taskVars
  <2>2. QED
    BY <1>1, <2>1, SeenStep
<1>3. ASSUME NEW k \in Task, Request(k) \/ CountMiss(k) \/ ApproveUpdate(k) \/ FinishCommit(k)
                             \/ LogoutUser(k)
      PROVE  SeenRows'
  <2>1. UNCHANGED <<rowLock, todo, snap>>
    BY <1>3 DEF Request, Refresh, RevokeDevice, Logout, Recover, ApproveSelect, FinishSelect,
         CountMiss, ApproveUpdate, FinishCommit, LogoutUser, lockVars, taskVars
  <2>2. \E s \in Stage \ LockStage : pc' = [pc EXCEPT ![k] = s]
    BY ZenonT(30), <1>3 DEF Request, Refresh, RevokeDevice, Logout, Recover, ApproveSelect, FinishSelect,
         CountMiss, ApproveUpdate, FinishCommit, LogoutUser, GoTo, Stage, LockStage
  <2>3. \A j \in Task : pc'[j] \in LockStage => pc[j] \in LockStage
    BY <2>2 DEF TypeOK
  <2>4. QED
    BY Zenon, <1>1, <2>1, <2>3, SeenStep
<1>4. ASSUME NEW k \in Task, RotateUpdate(k) PROVE SeenRows'
  <2>1. CASE UNCHANGED rowLock /\ Forget(k) /\ \A j \in Task \ {k} : pc'[j] = pc[j]
    <3>1. /\ todo'[k] = {} /\ snap'[k] = {}
          /\ \A j \in Task \ {k} : todo'[j] = todo[j] /\ snap'[j] = snap[j]
      BY Zenon, <2>1 DEF Forget, TypeOK
    <3>2. QED
      BY Zenon, <1>1, <2>1, <3>1, SeenStep
  <2>2. CASE /\ rowLock[arg[k]] = None /\ rowLock' = [rowLock EXCEPT ![arg[k]] = k]
             /\ pc' = [pc EXCEPT ![k] = "rotated"] /\ UNCHANGED taskVars
    <3>1. /\ UNCHANGED <<todo, snap>>
          /\ \A j \in Task : pc'[j] \in LockStage => pc[j] \in LockStage
      BY Zenon, <2>2 DEF taskVars, TypeOK, LockStage
    <3>2. \A t \in Token, j \in Task : rowLock[t] = j => rowLock'[t] = j
      BY ZenonT(30), <2>2, NoneAssumption DEF TypeOK
    <3>3. QED
      BY Zenon, <1>1, <3>1, <3>2, SeenStep
  <2>3. \A j \in Task \ {k} : pc'[j] = pc[j]
    BY <1>4 DEF RotateUpdate, TypeOK
  <2>4. QED
    BY ZenonT(30), <1>4, <2>1, <2>2, <2>3 DEF RotateUpdate
<1>5. ASSUME NEW k \in Task, RotateCommit(k) \/ ReuseCommit(k) \/ LogoutCommit(k)
                             \/ DeviceCommit(k) \/ RecoverToken(k) \/ Abandon(k) \/ Victim(k)
      PROVE  SeenRows'
  <2>1. /\ Forget(k) /\ (Unlock(k) \/ UNCHANGED rowLock)
        /\ pc' = [pc EXCEPT ![k] = "done"]
    BY Zenon, <1>5 DEF RotateCommit, ReuseCommit, LogoutCommit, DeviceCommit, RevokeCommit,
         RecoverToken, Abandon, Victim, Fail, GoTo, lockVars
  <2>2. /\ todo'[k] = {} /\ snap'[k] = {}
        /\ \A j \in Task \ {k} : todo'[j] = todo[j] /\ snap'[j] = snap[j] /\ pc'[j] = pc[j]
    BY <2>1 DEF Forget, TypeOK
  <2>3. \A t \in Token, j \in Task \ {k} : rowLock[t] = j => rowLock'[t] = j
    BY <2>1 DEF Unlock, Unlocked
  <2>4. QED
    BY ZenonT(30), <1>1, <2>2, <2>3, SeenStep
<1>6. ASSUME NEW k \in Task, Reuse(k) \/ LogoutRevoke(k) \/ DeviceRevoke(k) PROVE SeenRows'
  <2>1. /\ UNCHANGED rowLock
        /\ \E s \in Stage : pc' = [pc EXCEPT ![k] = s]
    BY Zenon, <1>6, Stages DEF Reuse, LogoutRevoke, DeviceRevoke, RevokeStart, GoTo, lockVars,
                        LockStage
  <2>2. \E S \in SUBSET rows : /\ todo' = [todo EXCEPT ![k] = S]
                               /\ snap' = [snap EXCEPT ![k] = S]
    <3>1. /\ rows \ revoked \in SUBSET rows
          /\ {t \in rows : devOf[t] = arg[k]} \ revoked \in SUBSET rows
      OBVIOUS
    <3>2. QED
      BY <1>6, <3>1 DEF Reuse, LogoutRevoke, DeviceRevoke, RevokeStart
  <2>3. /\ todo'[k] = snap'[k] /\ snap'[k] \subseteq drawn
        /\ \A j \in Task \ {k} : todo'[j] = todo[j] /\ snap'[j] = snap[j] /\ pc'[j] = pc[j]
    BY ZenonT(30), <2>1, <2>2 DEF TypeOK
  <2>4. QED
    BY Zenon, <1>1, <2>1, <2>3, SeenStep
<1>7. ASSUME NEW k \in Task, LockRow(k) PROVE SeenRows'
  <2>1. PICK r \in todo[k] :
          /\ rowLock[r] = None /\ todo' = [todo EXCEPT ![k] = @ \ {r}]
          /\ rowLock' = IF r \in rows \ revoked THEN [rowLock EXCEPT ![r] = k] ELSE rowLock
    BY Zenon, <1>7 DEF LockRow
  <2>2. UNCHANGED <<rows, revoked, drawn, pc, snap>>
    BY <1>7 DEF LockRow, tokenVars
  <2>3. /\ todo'[k] = todo[k] \ {r} /\ \A j \in Task \ {k} : todo'[j] = todo[j]
        /\ r \in Token
    BY Zenon, <2>1 DEF TypeOK
  <2>4. /\ \A t \in Token, j \in Task : rowLock[t] = j => rowLock'[t] = j
        /\ rowLock'[r] = k \/ r \notin rows \ revoked
    BY <2>1, <2>3, NoneAssumption DEF TypeOK
  <2>5. ASSUME NEW j \in Task
        PROVE  /\ todo'[j] \subseteq snap[j] /\ snap[j] \subseteq drawn
               /\ pc[j] \in LockStage => \A t \in snap[j] :
                    t \in todo'[j] \/ rowLock'[t] = j \/ t \notin rows \ revoked
    <3>1. /\ todo[j] \subseteq snap[j] /\ snap[j] \subseteq drawn /\ drawn \subseteq Token
          /\ pc[j] \in LockStage => \A t \in snap[j] :
               t \in todo[j] \/ rowLock[t] = j \/ t \notin rows \ revoked
      BY Zenon DEF SeenRows, TypeOK
    <3>2. CASE j = k
      BY ZenonT(30), <2>3, <2>4, <3>1, <3>2
    <3>3. CASE j # k
      BY Zenon, <2>3, <2>4, <3>1, <3>3
    <3>4. QED
      BY Zenon, <3>2, <3>3
  <2>6. QED
    BY Zenon, <2>2, <2>5 DEF SeenRows
<1>8. QED
  BY Zenon, <1>2, <1>3, <1>4, <1>5, <1>6, <1>7 DEF Next, TaskStep

(***************************************************************************)
(* One successor for each token, one device for a pairing.                 *)
(***************************************************************************)
\* The tokens a token was exchanged for.
Successors(t) == {u \in drawn : parent[u] = t}

\* A new token succeeds the one it was rotated from, if any, and no other.
LEMMA NewSuccessor ==
    ASSUME TypeOK, Fresh(Token, drawn) \in Token \ drawn, NEW d,
           NEW from \in Token \cup {None}, IssueToken(d, from)
    PROVE  /\ from \in Token => Successors(from)' = Successors(from) \cup {Fresh(Token, drawn)}
           /\ \A t \in Token \ {from} : Successors(t)' = Successors(t)
<1> DEFINE u == Fresh(Token, drawn)
<1>1. drawn' = drawn \cup {u} /\ parent' = [parent EXCEPT ![u] = from] /\ u \in Token \ drawn
  BY DEF IssueToken
<1> HIDE DEF u
<1>2. parent'[u] = from /\ \A v \in drawn : parent'[v] = parent[v]
  BY <1>1 DEF TypeOK
<1>3. /\ from \in Token => Successors(from)' = Successors(from) \cup {u}
      /\ \A t \in Token \ {from} : Successors(t)' = Successors(t)
  BY <1>1, <1>2 DEF Successors
<1>4. QED
  BY <1>3 DEF u

\* Tokens get at most one successor, and are consumed by getting it.
LEMMA NextOneSuccessor ==
    ASSUME TypeOK, LocksHeld, ArgsFit, Supply, OneSuccessor, Next PROVE OneSuccessor'
<1>1. \A t \in Token : Cardinality(Successors(t)) = IF t \in consumed THEN 1 ELSE 0
  BY DEF OneSuccessor, Successors
<1>2. ASSUME \A t \in Token : Cardinality(Successors(t)') = IF t \in consumed' THEN 1 ELSE 0
      PROVE  OneSuccessor'
  BY <1>2 DEF OneSuccessor, Successors
<1>3. CASE UNCHANGED <<drawn, parent, consumed>>
  <2>1. \A t \in Token : Successors(t)' = Successors(t)
    BY <1>3 DEF Successors
  <2>2. QED
    BY <1>1, <1>2, <1>3, <2>1
<1>4. ASSUME NEW k \in Task, NEW d, pc[k] # "done", IssueToken(d, None), UNCHANGED consumed
      PROVE  OneSuccessor'
  <2>1. Fresh(Token, drawn) \in Token \ drawn
    BY <1>4, FreshToken DEF TypeOK
  <2>2. \A t \in Token : Successors(t)' = Successors(t)
    BY ZenonT(30), <1>4, <2>1, NewSuccessor, NoneAssumption
  <2>3. QED
    BY Zenon, <1>1, <1>2, <1>4, <2>2
<1>5. ASSUME NEW k \in Task, RecoverToken(k) PROVE OneSuccessor'
  BY <1>4, <1>5 DEF RecoverToken, GoTo
<1>6. ASSUME NEW k \in Task, FinishCommit(k) PROVE OneSuccessor'
  <2>1. CASE UNCHANGED <<drawn, parent>>
    BY <1>3, <1>6, <2>1 DEF FinishCommit
  <2>2. CASE AddPaired(Fresh(Device, devices))
    BY Zenon, <1>4, <1>6, <2>2 DEF FinishCommit, AddPaired, GoTo
  <2>3. QED
    BY <1>6, <2>1, <2>2 DEF FinishCommit
<1>7. ASSUME NEW k \in Task, RotateCommit(k) PROVE OneSuccessor'
  <2>1. pc[k] = "rotated" /\ arg[k] \in Token \ consumed
    BY ZenonT(30), <1>7 DEF RotateCommit, GoTo, LocksHeld, ArgsFit, TypeOK
  <2>2. PICK a \in Token \ consumed :
          IssueToken(devOf[a], a) /\ consumed' = consumed \cup {a}
    BY <1>7, <2>1 DEF RotateCommit
  <2>3. Fresh(Token, drawn) \in Token \ drawn
    BY Zenon, <2>1, FreshToken DEF TypeOK
  <2>4. /\ Successors(a)' = Successors(a) \cup {Fresh(Token, drawn)}
        /\ \A t \in Token \ {a} : Successors(t)' = Successors(t)
    BY Zenon, <2>2, <2>3, NewSuccessor
  <2>5. Successors(a) = {}
    <3>1. Successors(a) \subseteq Token /\ IsFiniteSet(Successors(a))
      BY Zenon, FinitenessAssumption, FS_Subset DEF Successors, TypeOK
    <3>2. QED
      BY ZenonT(30), <1>1, <2>2, <3>1, FS_EmptySet
  <2>6. Cardinality(Successors(a)') = 1
    BY SMTT(30), <2>4, <2>5, FS_Singleton
  <2>7. ASSUME NEW t \in Token
        PROVE  Cardinality(Successors(t)') = IF t \in consumed' THEN 1 ELSE 0
    <3>1. CASE t = a
      BY <2>2, <2>6, <3>1
    <3>2. CASE t # a
      <4>1. Successors(t)' = Successors(t) /\ (t \in consumed' <=> t \in consumed)
        BY ZenonT(30), <2>2, <2>4, <3>2
      <4>2. QED
        BY Zenon, <1>1, <4>1
    <3>3. QED
      BY <3>1, <3>2
  <2>8. QED
    BY <1>2, <2>7
<1>8. CASE Next /\ ~(\E k \in Task : RotateCommit(k) \/ RecoverToken(k) \/ FinishCommit(k))
  BY ZenonT(60), <1>3, <1>8 DEF Next, Request, TaskStep, Environment, StartPairing, ExpirePairing, Expire,
         SweepExpired, SweepConsumed, Sweep, Refresh, RevokeDevice, Recover, Logout,
         ApproveSelect, FinishSelect, CountMiss, ApproveUpdate, RotateUpdate, Reuse,
         LogoutRevoke, DeviceRevoke, RevokeStart, LockRow, ReuseCommit, LogoutCommit,
         DeviceCommit, RevokeCommit, LogoutUser, Abandon, Victim, Fail, tokenVars
<1>9. QED
  BY <1>5, <1>6, <1>7, <1>8

\* What a step may do to the pairing and to the devices it added.
LEMMA PairingSteps ==
    ASSUME TypeOK, Next
    PROVE  \/ UNCHANGED <<pairing, paired>>
           \/ /\ UNCHANGED paired
              /\ \/ pairing' = [pairing EXCEPT !.started = TRUE]
                 \/ pairing' = [pairing EXCEPT !.expired = TRUE]
                 \/ pairing' = [pairing EXCEPT !.attempts = @ + 1]
           \/ /\ UNCHANGED paired /\ Open(pairing)
              /\ pairing' = [pairing EXCEPT !.approved = TRUE]
           \/ /\ Open(pairing) /\ pairing.approved
              /\ \E d : paired' = paired \cup {d}
              /\ pairing' = [pairing EXCEPT !.used = TRUE]
<1>1. CASE Environment
  BY <1>1 DEF Environment, StartPairing, ExpirePairing, Expire, SweepExpired, SweepConsumed,
              Sweep, deviceVars
<1>2. ASSUME NEW k \in Task, CountMiss(k)
      PROVE  UNCHANGED paired /\ (UNCHANGED pairing \/ pairing' = [pairing EXCEPT !.attempts = @ + 1])
  BY <1>2 DEF CountMiss, deviceVars
<1>3. ASSUME NEW k \in Task, ApproveUpdate(k)
      PROVE  UNCHANGED paired /\ (\/ UNCHANGED pairing
                                  \/ /\ Open(pairing)
                                     /\ pairing' = [pairing EXCEPT !.approved = TRUE])
  BY <1>3 DEF ApproveUpdate, deviceVars
<1>4. ASSUME NEW k \in Task, FinishCommit(k)
      PROVE  \/ UNCHANGED <<pairing, paired>>
             \/ /\ Open(pairing) /\ pairing.approved
                /\ \E d : paired' = paired \cup {d}
                /\ pairing' = [pairing EXCEPT !.used = TRUE]
  BY <1>4 DEF FinishCommit, AddPaired
<1>5. CASE Next /\ ~Environment
                /\ ~(\E k \in Task : CountMiss(k) \/ ApproveUpdate(k) \/ FinishCommit(k))
  BY ZenonT(60), <1>5 DEF Next, Request, TaskStep, Refresh, RevokeDevice, Recover, Logout,
         ApproveSelect, FinishSelect, RotateUpdate, RotateCommit, Reuse, LogoutRevoke,
         DeviceRevoke, RevokeStart, LockRow, ReuseCommit, LogoutCommit, DeviceCommit,
         RevokeCommit, LogoutUser, RecoverToken, Abandon, Victim, Fail, deviceVars
<1>6. QED
  BY ZenonT(30), <1>1, <1>2, <1>3, <1>4, <1>5

\* A pairing adds its device once, when it is used.
LEMMA NextPairsOneDevice ==
    ASSUME TypeOK, PairsOneDevice, Next PROVE PairsOneDevice'
<1>1. /\ pairing \in Pairing /\ (pairing.used <=> paired # {})
      /\ pairing.used => pairing.approved
      /\ Cardinality(paired) <= 1
  BY DEF TypeOK, PairsOneDevice
<1>2. CASE UNCHANGED <<pairing, paired>>
  BY <1>2 DEF PairsOneDevice
<1>3. CASE UNCHANGED paired /\ pairing'.used = pairing.used
                            /\ pairing'.approved \in {pairing.approved, TRUE}
  BY Zenon, <1>1, <1>3 DEF PairsOneDevice, Pairing
<1>4. CASE /\ Open(pairing) /\ pairing.approved /\ \E d : paired' = paired \cup {d}
           /\ pairing' = [pairing EXCEPT !.used = TRUE]
  <2>1. paired = {}
    BY <1>1, <1>4 DEF Open
  <2>2. PICK d : paired' = {d}
    BY <1>4, <2>1
  <2>3. Cardinality(paired') <= 1 /\ paired' # {}
    <3>1. Cardinality({d}) = 1
      BY FS_Singleton
    <3>2. QED
      BY <2>2, <3>1
  <2>4. pairing'.used /\ pairing'.approved
    BY <1>1, <1>4 DEF Pairing
  <2>5. QED
    BY <2>3, <2>4 DEF PairsOneDevice
<1>5. ASSUME \/ pairing' = [pairing EXCEPT !.started = TRUE]
             \/ pairing' = [pairing EXCEPT !.expired = TRUE]
             \/ pairing' = [pairing EXCEPT !.attempts = @ + 1]
             \/ pairing' = [pairing EXCEPT !.approved = TRUE]
      PROVE  pairing'.used = pairing.used /\ pairing'.approved \in {pairing.approved, TRUE}
  BY ZenonT(30), <1>1, <1>5 DEF Pairing
<1>6. QED
  BY Zenon, <1>2, <1>3, <1>4, <1>5, PairingSteps

(***************************************************************************)
(* The theorems.                                                           *)
(***************************************************************************)
IInv == AccountsInv /\ LocksHeld /\ ArgsFit /\ SeenRows /\ Supply

\* A new account has a device, a token and nothing else.
LEMMA InitIInv == Init => IInv
<1> SUFFICES ASSUME Init PROVE IInv
  OBVIOUS
<1> DEFINE d == Fresh(Device, {})
           u == Fresh(Token, {})
<1>1. d \in Device /\ u \in Token
  <2>1. Device # {} /\ Token # {}
    BY SMTT(30), FS_EmptySet, SupplyAssumption, FinitenessAssumption
  <2>2. QED
    BY <2>1 DEF Fresh
<1>2. /\ devices = {d} /\ rows = {u} /\ drawn = {u}
      /\ devOf = [v \in Token |-> IF v \in rows THEN d ELSE None]
      /\ devRevoked = {} /\ paired = {} /\ consumed = {} /\ revoked = {} /\ expired = {}
      /\ epoch = 0 /\ rowLock = [t \in Token |-> None] /\ userLock = None
      /\ pairing = [started |-> FALSE, approved |-> FALSE, used |-> FALSE, expired |-> FALSE,
                    attempts |-> 0]
      /\ pc = [k \in Task |-> "idle"]
      /\ arg = [k \in Task |-> None]
      /\ todo = [k \in Task |-> {}] /\ snap = [k \in Task |-> {}]
      /\ parent = [t \in Token |-> None]
  BY DEF Init
<1> HIDE DEF d, u
<1>3. TypeOK
  <2>1. TaskTypes
    BY Zenon, <1>1, <1>2, Stages DEF TaskTypes
  <2>2. pairing \in Pairing
    BY <1>2 DEF Pairing
  <2>3. RowTypes
    BY Zenon, <1>1, <1>2, <2>2 DEF RowTypes
  <2>4. QED
    BY Zenon, <2>1, <2>3, TypeParts
<1>4. OneSuccessor
  <2>1. \A t \in Token : {v \in drawn : parent[v] = t} = {}
    BY Zenon, <1>1, <1>2, NoneAssumption
  <2>2. QED
    BY Zenon, <1>2, <2>1, FS_EmptySet DEF OneSuccessor
<1>5. PairsOneDevice
  BY <1>2, FS_EmptySet DEF PairsOneDevice
<1>6. LocksHeld /\ ArgsFit
  BY Zenon, <1>2, NoneAssumption DEF LocksHeld, ArgsFit
<1>7. SeenRows
  BY <1>2 DEF SeenRows, LockStage
<1>8. Supply
  <2>1. Cardinality(drawn) = 1 /\ Cardinality(devices) = 1
    BY ZenonT(30), <1>2, FS_Singleton
  <2>2. Done = {} /\ Named = {}
    BY <1>2 DEF Done, Named
  <2>3. QED
    BY SMTT(30), <2>1, <2>2, FS_EmptySet DEF Supply
<1>9. QED
  BY Zenon, <1>3, <1>4, <1>5, <1>6, <1>7, <1>8 DEF IInv, AccountsInv

\* Every step of the program keeps the inductive invariant.
LEMMA NextIInv == IInv /\ [Next]_vars => IInv'
<1> SUFFICES ASSUME IInv, [Next]_vars PROVE IInv'
  OBVIOUS
<1>1. CASE Next
  <2>1. TypeOK /\ OneSuccessor /\ PairsOneDevice /\ LocksHeld /\ ArgsFit /\ SeenRows /\ Supply
    BY ZenonT(30) DEF IInv, AccountsInv
  <2>2. TypeOK'
    <3>1. TaskTypes' /\ RowTypes'
      BY <1>1, <2>1, NextTaskTypes, NextRowTypes
    <3>2. QED
      BY <3>1 DEF TypeOK, TaskTypes, RowTypes
  <2>3. OneSuccessor' /\ PairsOneDevice'
    BY <1>1, <2>1, NextOneSuccessor, NextPairsOneDevice
  <2>4. LocksHeld' /\ ArgsFit' /\ SeenRows' /\ Supply'
    BY Zenon, <1>1, <2>1, NextLocksHeld, NextArgsFit, NextSeenRows, NextSupply
  <2>5. QED
    BY <2>2, <2>3, <2>4 DEF IInv, AccountsInv
<1>2. CASE UNCHANGED vars
  <2>1. /\ UNCHANGED <<rows, devOf, consumed, revoked, expired, drawn, parent>>
        /\ UNCHANGED <<rowLock, userLock, devices, devRevoked, paired>>
        /\ UNCHANGED <<epoch, pairing, pc, arg, todo, snap>>
    BY ZenonT(30), <1>2 DEF vars, tokenVars, lockVars, deviceVars, taskVars
  <2>2. TypeOK'
    BY <2>1 DEF IInv, AccountsInv, TypeOK
  <2>3. OneSuccessor' /\ PairsOneDevice'
    BY Zenon, <2>1 DEF IInv, AccountsInv, OneSuccessor, PairsOneDevice
  <2>4. LocksHeld' /\ ArgsFit'
    BY Zenon, <2>1 DEF IInv, LocksHeld, ArgsFit
  <2>5. SeenRows'
    BY Zenon, <2>1 DEF IInv, SeenRows
  <2>6. Supply'
    BY <2>1 DEF IInv, Supply, Done, Named
  <2>7. QED
    BY ZenonT(30), <2>2, <2>3, <2>4, <2>5, <2>6 DEF IInv, AccountsInv
<1>3. QED
  BY <1>1, <1>2

\* The inductive invariant holds throughout.
LEMMA IInvAlways == Spec => []IInv
BY InitIInv, NextIInv, PTL DEF Spec

\* The rows of an account fit together between any two statements of any requests:
\* the types, one successor for each consumed refresh token and none for the others,
\* and at most one device from a pairing, which had been approved.
THEOREM AccountsAlwaysConsistent == Spec => []AccountsInv
<1>1. IInv => AccountsInv
  BY DEF IInv
<1>2. QED
  BY <1>1, IInvAlways, PTL

\* A transaction holds the row that it rotates until it ends, that row is there and
\* nobody has consumed it, and a revoking UPDATE holds only rows that it had seen.
THEOREM RowLocksAlwaysHeld == Spec => []LocksHeld
<1>1. IInv => LocksHeld
  BY DEF IInv
<1>2. QED
  BY <1>1, IInvAlways, PTL

\* A revoking UPDATE that has locked all it can leaves no row of those it saw that is
\* there and neither revoked nor locked by it: hence its commit revokes them all.
LEMMA CommitRevokes ==
    ASSUME IInv, NEW k \in Task, ReuseCommit(k) \/ LogoutCommit(k) \/ DeviceCommit(k),
           NEW t \in snap[k]
    PROVE  ~Live(t)'
<1>1. /\ pc[k] \in LockStage /\ todo[k] = {} /\ rows' = rows
      /\ revoked' = revoked \cup {r \in Token : rowLock[r] = k}
  BY DEF ReuseCommit, LogoutCommit, DeviceCommit, RevokeCommit, GoTo, LockStage
<1>2. t \in Token
  BY Zenon DEF IInv, AccountsInv, TypeOK
<1>3. rowLock[t] = k \/ t \notin rows \ revoked
  BY Zenon, <1>1 DEF IInv, SeenRows
<1>4. t \notin rows' \ revoked'
  BY <1>1, <1>2, <1>3
<1>5. QED
  BY ZenonT(30), <1>4 DEF Live

\* When logout_all, revoke_device or the detection of a reused token commits, no token
\* that its UPDATE saw can be rotated any more, whatever ran meanwhile.
THEOREM CommitsRevokeWhatTheySaw == Spec => RevokesWhatItSaw
<1>1. IInv /\ [Next]_vars =>
        [\A k \in Task : ReuseCommit(k) \/ LogoutCommit(k) \/ DeviceCommit(k) =>
             \A t \in snap[k] : ~Live(t)']_vars
  BY CommitRevokes
<1>2. QED
  BY <1>1, IInvAlways, PTL DEF Spec, RevokesWhatItSaw

\* A pairing that wrong codes have locked is never approved or used after that, not
\* even by a request that had found it open.
THEOREM LockedPairingsAreFinal == Spec => LockedPairingIsFinal
<1> DEFINE Final == pairing.attempts >= MaxAttempts =>
                      pairing'.approved = pairing.approved /\ pairing'.used = pairing.used
<1>1. ASSUME IInv, Next PROVE Final
  <2>1. TypeOK /\ pairing \in Pairing /\ MaxAttempts \in Nat
    BY <1>1, AttemptsAssumption DEF IInv, AccountsInv, TypeOK
  <2>2. CASE UNCHANGED pairing
    BY <2>2
  <2>3. CASE \/ pairing' = [pairing EXCEPT !.started = TRUE]
             \/ pairing' = [pairing EXCEPT !.expired = TRUE]
             \/ pairing' = [pairing EXCEPT !.attempts = @ + 1]
    BY <2>1, <2>3 DEF Pairing
  <2>4. CASE Open(pairing)
    BY SMTT(30), <2>1, <2>4 DEF Open, Pairing
  <2>5. QED
    BY ZenonT(30), <1>1, <2>1, <2>2, <2>3, <2>4, PairingSteps
<1>2. IInv /\ [Next]_vars => [Final]_vars
  BY <1>1
<1>3. QED
  BY <1>2, IInvAlways, PTL DEF Spec, LockedPairingIsFinal
=============================================================================
