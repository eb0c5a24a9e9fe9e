------------------------- MODULE RoomRegistryProofs ------------------------
(***************************************************************************)
(* Theorems about the invite store and about the registry that uses it.    *)
(*                                                                         *)
(* The store, for any codes, rooms and limits: CountsMatch is what makes   *)
(* the per-room limit mean anything, since generate checks the count and   *)
(* LimitsRespected is about the records.  The inductive invariant is       *)
(* RegistryTypeOK, CountsMatch, LimitsRespected and UsesAccounted together; the    *)
(* cardinalities come from FiniteSetTheorems.                              *)
(*                                                                         *)
(* The registry, for any finite set of connections, and any setups:        *)
(* it implements the store, and its maps fit together although every       *)
(* operation changes them under several locks.                             *)
(***************************************************************************)
EXTENDS RoomRegistry, TLAPS

(***************************************************************************)
(* The registry.  A connection is inside the room before it is in the      *)
(* index, and out of the index before it leaves the room; what holds in    *)
(* between is told by its stage, or by the stage of who removes it.        *)
(***************************************************************************)
\* Where remove_peer returns to.
After == {"idle", "closed", "lList", "lArtifacts", "kList"}

\* The connection has not been inserted.
Outside == {"idle", "panicked", "bCheck", "bDrop", "jLookup", "jCreate", "jSfu", "jArc", "jLock",
            "cRoom", "cEntry", "cArc", "cLock"}

\* It is on a peer list, and its next step is the index.
Entering == {"jIndex", "cIndex"}

\* It has not been on a participant list, and a failure may make it idle again.
Early(p) ==
    \/ pc[p] \in Outside \cup Entering \cup {"jPush", "cSfu", "cInvite", "cPush"}
    \/ pc[p] \in RemoveStage /\ then[p] \in {"idle", "closed"}

\* Its index entry is gone.
Away == Outside \cup Entering \cup {"lList", "lArtifacts", "lInvites", "closed"}

\* It is past the step that takes it off the participant list.
Delisted(p) ==
    \/ pc[p] \in {"lArtifacts", "lInvites", "closed"}
    \/ pc[p] \in RemoveStage /\ then[p] = "lArtifacts"

\* What a task holds: the object it is about to lock, and whom it removes.  Only a
\* kick removes somebody else.
Fit(p) ==
    /\ then[p] \in After
    /\ pc[p] \in {"jLock", "rLock", "cLock"} => arc[p] \in Object /\ arc[p] <= made
    /\ pc[p] \in RemoveStage => target[p] \in Peer /\ (then[p] # "kList" => target[p] = p)

\* What the maps say of a connection at each stage.
AtStage(p) ==
    /\ Early(p) => \A o \in Object : p \notin participants[o]
    /\ Early(p) /\ pc[p] \notin {"jIndex", "jPush"} => via[p] = NoCode
    /\ pc[p] \in Away => p \notin index
    /\ pc[p] \in {"rArc", "rLock", "rDrop"} => target[p] \notin index
    /\ p \in index \/ pc[p] \in Entering => \E o \in Object : p \in peers[o]
    /\ Delisted(p) /\ EntryIs("sfu") => p \notin participants[entry]

\* Only who has been on a participant list is kicked.
Unkicked ==
    \A p, q \in Peer : Early(p) /\ q # p /\ pc[q] \in RemoveStage => target[q] # p

\* An object that is not made yet is empty.
Unmade == \A o \in Object : o > made => peers[o] = {} /\ participants[o] = {}

\* q is on its way to take p off the peer list of the room that is in the map.
Removing(q, p) ==
    target[q] = p /\ (pc[q] = "rArc" \/ (pc[q] = "rLock" /\ arc[q] = entry))

\* Who is in the room of the map and not in the index is entering or being removed.
Lingering ==
    entry # None =>
        \A p \in peers[entry] :
            p \in index \/ pc[p] \in Entering \/ \E q \in Peer : Removing(q, p)

\* p will look at the room of the map again, and drop it or be in it.
Tends(p) ==
    \/ pc[p] \in {"rDrop", "bDrop"}
    \/ p \in fresh /\ pc[p] \in {"jSfu", "jArc", "bCheck"}
    \/ p \in fresh /\ pc[p] = "jLock" /\ arc[p] = entry

\* A channel's room is only made by join_voice, and never left to itself.
Tended ==
    setup.channel =>
        /\ \A p \in Peer : pc[p] \notin {"jLookup", "jCreate"} \cup CreateStage
        /\ entry # None => peers[entry] # {} \/ \E p \in Peer : Tends(p)

\* The types, apart from those of the store.
Types ==
    /\ setup \in Setups
    /\ entry \in {None} \cup Object /\ made \in 0 .. MaxObjects /\ entry <= made
    /\ kind \in [Object -> {"p2p", "sfu"}]
    /\ peers \in [Object -> SUBSET Peer]
    /\ participants \in [Object -> SUBSET Peer]
    /\ index \subseteq Peer /\ fresh \subseteq Peer
    /\ pc \in [Peer -> Stage] /\ then \in [Peer -> Stage]
    /\ want \in [Peer -> [kind : {"p2p", "sfu"}, code : Code \cup {NoCode}]]
    /\ arc \in [Peer -> {None} \cup Object]
    /\ target \in [Peer -> Peer \cup {NoPeer}]
    /\ role \in [Peer -> {"none", "host", "guest"}]
    /\ via \in [Peer -> Code \cup {NoCode}] /\ placed \subseteq Peer

\* RegistryTypeOK is these types and those of the store.
LEMMA TypeParts == RegistryTypeOK <=> Types /\ TypeOK
BY DEF RegistryTypeOK, Types

(***************************************************************************)
(* What a step of p may do.                                                *)
(***************************************************************************)
\* It moves no other task.
Only(p) ==
    \A q \in Peer \ {p} :
        /\ pc'[q] = pc[q] /\ then'[q] = then[q] /\ target'[q] = target[q] /\ arc'[q] = arc[q]
        /\ via'[q] = via[q] /\ (q \in fresh' <=> q \in fresh)

\* The map keeps its object, drops it, or gets a new one, which a channel's room
\* gets from a join that will see to it.
MapMove(p) ==
    /\ setup' = setup
    /\ \/ UNCHANGED <<entry, made, kind>>
       \/ entry' = None /\ UNCHANGED <<made, kind, peers, participants>>
       \/ /\ entry = None /\ made + 1 \in Object /\ made' = made + 1 /\ entry' = made + 1
          /\ \E k \in {"p2p", "sfu"} : kind' = [kind EXCEPT ![made + 1] = k]
          /\ setup.channel => pc'[p] = "jSfu" /\ p \in fresh'
          /\ UNCHANGED <<peers, participants>>

\* The peer list of the object it holds loses its target or gets p.
PeersMove(p) ==
    \/ peers' = peers /\ pc[p] # "rLock"
    \/ /\ pc[p] = "rLock" /\ peers' = [peers EXCEPT ![arc[p]] = @ \ {target[p]}]
       /\ peers[arc[p]] \ {target[p]} = {} => pc'[p] = "rDrop"
       /\ entry' = entry
    \/ /\ pc[p] \in {"jLock", "cLock"} /\ pc'[p] \in Entering
       /\ peers' = [peers EXCEPT ![arc[p]] = @ \cup {p}]
       /\ entry' = entry

\* The participant list of the room in the map gets p, or loses somebody.
ListsMove(p) ==
    \/ participants' = participants
    \/ /\ participants' = [o \in Object |->
                             IF o = entry THEN participants[o] \cup {p} ELSE participants[o]]
       /\ entry' = entry /\ ~Early(p)'
    \/ \E q :
         participants' = [o \in Object |->
                            IF o = entry THEN participants[o] \ {q} ELSE participants[o]]

\* The index gets p on its way in, or loses the target of a removal.
IndexMove(p) ==
    \/ index' = index /\ pc[p] \notin Entering
    \/ pc[p] \in Entering /\ index' = index \cup {p}
    \/ /\ pc[p] = "rIndex" /\ index' = index \ {target[p]} /\ target'[p] = target[p]
       /\ target[p] \in index => pc'[p] = "rArc"

\* p does not become early again; it aims at itself, where it aimed before, or at a
\* participant; and it does not stop on its way to take somebody off the list.
TaskMove(p) ==
    /\ Early(p)' => Early(p)
    /\ pc'[p] \in RemoveStage =>
         \/ target'[p] = p
         \/ pc[p] \in RemoveStage /\ target'[p] = target[p]
         \/ \E o \in Object : target'[p] \in participants[o]
    /\ pc[p] = "rArc" /\ entry # None => /\ pc'[p] = "rLock" /\ arc'[p] = entry
                                         /\ target'[p] = target[p] /\ entry' = entry

\* What a step of p does to what the tasks share.
Shared(p) == Only(p) /\ MapMove(p) /\ PeersMove(p) /\ ListsMove(p) /\ IndexMove(p)

\* How p tends a channel's room in a step that lets it stay.
TendMove(p) ==
    setup.channel =>
        /\ pc'[p] \notin {"jLookup", "jCreate"} \cup CreateStage
        /\ Tends(p) /\ entry # None /\ entry' = entry => Tends(p)' \/ peers'[entry] # {}

\* What it does to p itself.
Own(p) == TaskMove(p) /\ TendMove(p) /\ Fit(p)'

\* A step of p that keeps p's part of the invariant.
Keeps(p) == Shared(p) /\ Own(p) /\ Types' /\ AtStage(p)'

\* The constants of the store, and the room that is followed.
LEMMA StoreAssumption ==
    /\ IsFiniteSet(Code) /\ TheRoom \in Room
    /\ MaxUses \in Nat /\ TTL \in Nat /\ MaxPerRoom \in Nat /\ MaxGlobal \in Nat
BY CodeAssumption, TheRoomAssumption, LimitAssumption

\* What AppState and a client may be set up to.
LEMMA KindsFit == Types => setup.kinds \subseteq {"p2p", "sfu"} /\ setup.maxSfu \in Nat
BY SetupsAssumption DEF Types

\* create_room: the map keeps its object, or gets the next one.
LEMMA InsertMoves ==
    ASSUME Types, NEW k \in {"p2p", "sfu"}, Insert(k)
    PROVE  /\ setup' = setup
           /\ entry' \in {None} \cup Object /\ made' \in 0 .. MaxObjects /\ entry' <= made'
           /\ kind' \in [Object -> {"p2p", "sfu"}]
           /\ entry' # None /\ made <= made'
           /\ \/ UNCHANGED <<entry, made, kind>>
              \/ /\ entry = None /\ made + 1 \in Object /\ made' = made + 1 /\ entry' = made + 1
                 /\ kind' = [kind EXCEPT ![made + 1] = k]
BY BoundAssumption DEF Insert, Types, mapVars, Object, None

\* remove_peer_internal: the index, then the peer list, then the map.
LEMMA RemoveKeeps ==
    ASSUME Types, Tended, Unmade, NEW p \in Peer, Fit(p), AtStage(p), RemoveStep(p)
    PROVE  Keeps(p)
<1> USE DEF Types, Fit, After, Outside, Entering, Away, RemoveStage, JoinStage, CreateStage,
            Goes, mapVars, objVars, taskVars, histVars
<1>1. CASE RemoveIndex(p)
  <2>1. Shared(p)
    BY <1>1 DEF Shared, Only, MapMove, PeersMove, ListsMove, IndexMove, Tended, Early,
       RemoveIndex
  <2>2. Own(p)
    BY <1>1 DEF Own, TaskMove, TendMove, Tends, Tended, Early, RemoveIndex
  <2>3. Types'
    BY <1>1 DEF Stage, RemoveIndex
  <2>4. AtStage(p)'
    BY <1>1 DEF AtStage, Early, Delisted, EntryIs, RemoveIndex
  <2>5. QED
    BY <2>1, <2>2, <2>3, <2>4 DEF Keeps
<1>2. CASE RemoveArc(p)
  <2>1. Shared(p)
    BY <1>2 DEF Shared, Only, MapMove, PeersMove, ListsMove, IndexMove, Tended, Early,
       RemoveArc
  <2>2. Own(p)
    BY <1>2 DEF Own, TaskMove, TendMove, Tends, Tended, Early, Object, None, RemoveArc
  <2>3. Types'
    BY <1>2 DEF Stage, None, RemoveArc
  <2>4. AtStage(p)'
    BY <1>2 DEF AtStage, Early, Delisted, EntryIs, RemoveArc
  <2>5. QED
    BY <2>1, <2>2, <2>3, <2>4 DEF Keeps
<1>3. CASE RemoveLock(p)
  <2>1. Shared(p)
    BY <1>3 DEF Shared, Only, MapMove, PeersMove, ListsMove, IndexMove, Tended, Early,
       RemoveLock, Release
  <2>2. Own(p)
    BY <1>3 DEF Own, TaskMove, TendMove, Tends, Tended, Early, RemoveLock, Release
  <2>3. Types'
    BY <1>3 DEF Stage, None, RemoveLock, Release
  <2>4. AtStage(p)'
    BY <1>3 DEF AtStage, Early, Delisted, EntryIs, RemoveLock, Release
  <2>5. QED
    BY <2>1, <2>2, <2>3, <2>4 DEF Keeps
<1>4. CASE RemoveDrop(p)
  <2>1. Shared(p)
    BY <1>4 DEF Shared, Only, MapMove, PeersMove, ListsMove, IndexMove, Tended, Early,
       RemoveDrop
  <2>2. Own(p)
    BY <1>4 DEF Own, TaskMove, TendMove, Tends, Tended, Early, RemoveDrop
  <2>3. Types'
    BY <1>4 DEF Stage, None, RemoveDrop
  <2>4. AtStage(p)'
    BY <1>4 DEF AtStage, Early, Delisted, EntryIs, RemoveDrop
  <2>5. QED
    BY <2>1, <2>2, <2>3, <2>4 DEF Keeps
<1>5. QED
  BY <1>1, <1>2, <1>3, <1>4 DEF RemoveStep

\* The steps of a join, and the rollback of join_voice.
LEMMA JoinKeeps ==
    ASSUME Types, Tended, Unmade, NEW p \in Peer, Fit(p), AtStage(p), JoinStep(p)
    PROVE  Keeps(p)
<1> USE DEF Types, Fit, After, Outside, Entering, Away, RemoveStage, JoinStage, CreateStage,
            Goes, mapVars, objVars, taskVars, histVars
<1>1. CASE JoinLookup(p)
  <2>1. Shared(p)
    BY <1>1 DEF Shared, Only, MapMove, PeersMove, ListsMove, IndexMove, Tended, Early,
       JoinLookup
  <2>2. Own(p)
    BY <1>1 DEF Own, TaskMove, TendMove, Tends, Tended, Early, JoinLookup
  <2>3. Types'
    BY SMTT(30), <1>1 DEF Stage, JoinLookup
  <2>4. AtStage(p)'
    BY <1>1 DEF AtStage, Early, Delisted, EntryIs, JoinLookup
  <2>5. QED
    BY <2>1, <2>2, <2>3, <2>4 DEF Keeps
<1>2. CASE JoinCreate(p)
  <2>1. Shared(p)
    BY <1>2, InsertMoves DEF Shared, Only, MapMove, PeersMove, ListsMove, IndexMove, Tended,
       Early, JoinCreate
  <2>2. Own(p)
    BY <1>2, InsertMoves DEF Own, TaskMove, TendMove, Tends, Tended, Early, JoinCreate
  <2>3. Types'
    BY <1>2, InsertMoves DEF Stage, None, JoinCreate
  <2>4. AtStage(p)'
    BY <1>2, InsertMoves DEF AtStage, Early, Delisted, EntryIs, Unmade, JoinCreate
  <2>5. QED
    BY <2>1, <2>2, <2>3, <2>4 DEF Keeps
<1>3. CASE JoinSfu(p)
  <2>1. Shared(p)
    BY <1>3 DEF Shared, Only, MapMove, PeersMove, ListsMove, IndexMove, Tended, Early,
       JoinSfu, GiveUp
  <2>2. Own(p)
    BY <1>3 DEF Own, TaskMove, TendMove, Tends, Tended, Early, JoinSfu, GiveUp
  <2>3. Types'
    BY <1>3 DEF Stage, JoinSfu, GiveUp
  <2>4. AtStage(p)'
    BY <1>3 DEF AtStage, Early, Delisted, EntryIs, JoinSfu, GiveUp
  <2>5. QED
    BY <2>1, <2>2, <2>3, <2>4 DEF Keeps
<1>4. CASE JoinArc(p)
  <2>1. Shared(p)
    BY <1>4 DEF Shared, Only, MapMove, PeersMove, ListsMove, IndexMove, Tended, Early,
       JoinArc, GiveUp
  <2>2. Own(p)
    BY <1>4 DEF Own, TaskMove, TendMove, Tends, Tended, Early, Object, None, JoinArc, GiveUp
  <2>3. Types'
    BY <1>4 DEF Stage, None, JoinArc, GiveUp
  <2>4. AtStage(p)'
    BY <1>4 DEF AtStage, Early, Delisted, EntryIs, JoinArc, GiveUp
  <2>5. QED
    BY <2>1, <2>2, <2>3, <2>4 DEF Keeps
<1>5. CASE JoinLock(p)
  <2>1. Shared(p)
    BY ZenonT(30), <1>5 DEF Shared, Only, MapMove, PeersMove, ListsMove, IndexMove, Tended, Early,
       JoinLock, Release, GiveUp, Enters
  <2>2. Own(p)
    <3>1. CASE Goes(p, "jLock", "jIndex") /\ Enters(p)
      BY ZenonT(30), <1>5, <3>1
      DEF Own, TaskMove, TendMove, Tends, Tended, Early, JoinLock, Release,
         GiveUp, Enters
    <3>2. CASE Goes(p, "jLock", GiveUp(p)) /\ UNCHANGED <<mapVars, objVars, fresh, target, then>>
      BY ZenonT(30), <1>5, <3>2
      DEF Own, TaskMove, TendMove, Tends, Tended, Early, JoinLock, Release,
         GiveUp, Enters
    <3>3. QED
      BY <1>5, <3>1, <3>2 DEF JoinLock
  <2>3. Types'
    <3>1. CASE Goes(p, "jLock", "jIndex") /\ Enters(p)
      BY <1>5, <3>1 DEF Stage, None, JoinLock, Release, GiveUp, Enters
    <3>2. CASE /\ Goes(p, "jLock", GiveUp(p))
               /\ UNCHANGED <<mapVars, objVars, index, want, fresh, target, then, role, histVars>>
      BY <1>5, <3>2 DEF Stage, None, JoinLock, Release, GiveUp, Enters
    <3>3. QED
      BY <1>5, <3>1, <3>2 DEF JoinLock
  <2>4. AtStage(p)'
    <3>1. CASE Goes(p, "jLock", "jIndex") /\ Enters(p)
      BY ZenonT(30), <1>5, <3>1
      DEF AtStage, Early, Delisted, EntryIs, JoinLock, Release, GiveUp, Enters
    <3>2. CASE /\ Goes(p, "jLock", GiveUp(p))
               /\ UNCHANGED <<mapVars, objVars, index, want, fresh, target, then, role, histVars>>
      BY ZenonT(30), <1>5, <3>2
      DEF AtStage, Early, Delisted, EntryIs, JoinLock, Release, GiveUp, Enters
    <3>3. QED
      BY <1>5, <3>1, <3>2 DEF JoinLock
  <2>5. QED
    BY <2>1, <2>2, <2>3, <2>4 DEF Keeps
<1>6. CASE JoinIndex(p)
  <2>1. Shared(p)
    BY <1>6 DEF Shared, Only, MapMove, PeersMove, ListsMove, IndexMove, Tended, Early,
       JoinIndex
  <2>2. Own(p)
    BY <1>6 DEF Own, TaskMove, TendMove, Tends, Tended, Early, JoinIndex
  <2>3. Types'
    BY <1>6 DEF Stage, JoinIndex
  <2>4. AtStage(p)'
    BY <1>6 DEF AtStage, Early, Delisted, EntryIs, JoinIndex
  <2>5. QED
    BY <2>1, <2>2, <2>3, <2>4 DEF Keeps
<1>7. CASE JoinPush(p)
  <2>1. Shared(p)
    BY ZenonT(30), <1>7 DEF Shared, Only, MapMove, PeersMove, ListsMove, IndexMove, Tended, Early,
       JoinPush
  <2>2. Own(p)
    BY ZenonT(30), <1>7 DEF Own, TaskMove, TendMove, Tends, Tended, Early, JoinPush
  <2>3. Types'
    BY <1>7 DEF Stage, JoinPush
  <2>4. AtStage(p)'
    BY ZenonT(30), <1>7 DEF AtStage, Early, Delisted, EntryIs, JoinPush
  <2>5. QED
    BY <2>1, <2>2, <2>3, <2>4 DEF Keeps
<1>8. CASE JoinRole(p)
  <2>1. Shared(p)
    BY <1>8 DEF Shared, Only, MapMove, PeersMove, ListsMove, IndexMove, Tended, Early,
       JoinRole, SessionRoles
  <2>2. Own(p)
    BY <1>8 DEF Own, TaskMove, TendMove, Tends, Tended, Early, JoinRole, SessionRoles
  <2>3. Types'
    BY <1>8 DEF Stage, JoinRole, SessionRoles
  <2>4. AtStage(p)'
    BY <1>8 DEF AtStage, Early, Delisted, EntryIs, JoinRole, SessionRoles
  <2>5. QED
    BY <2>1, <2>2, <2>3, <2>4 DEF Keeps
<1>9. CASE RollbackCheck(p)
  <2>1. Shared(p)
    BY <1>9 DEF Shared, Only, MapMove, PeersMove, ListsMove, IndexMove, Tended, Early,
       RollbackCheck
  <2>2. Own(p)
    BY <1>9 DEF Own, TaskMove, TendMove, Tends, Tended, Early, RollbackCheck
  <2>3. Types'
    BY <1>9 DEF Stage, RollbackCheck
  <2>4. AtStage(p)'
    BY <1>9 DEF AtStage, Early, Delisted, EntryIs, RollbackCheck
  <2>5. QED
    BY <2>1, <2>2, <2>3, <2>4 DEF Keeps
<1>10. CASE RollbackDrop(p)
  <2>1. Shared(p)
    BY <1>10 DEF Shared, Only, MapMove, PeersMove, ListsMove, IndexMove, Tended, Early,
       RollbackDrop
  <2>2. Own(p)
    BY <1>10 DEF Own, TaskMove, TendMove, Tends, Tended, Early, RollbackDrop
  <2>3. Types'
    BY <1>10 DEF Stage, None, RollbackDrop
  <2>4. AtStage(p)'
    BY <1>10 DEF AtStage, Early, Delisted, EntryIs, RollbackDrop
  <2>5. QED
    BY <2>1, <2>2, <2>3, <2>4 DEF Keeps
<1>11. QED
  BY <1>1, <1>2, <1>3, <1>4, <1>5, <1>6, <1>7, <1>8, <1>9, <1>10 DEF JoinStep

\* The steps of handle_create_room.
LEMMA CreateKeeps ==
    ASSUME Types, Tended, Unmade, NEW p \in Peer, Fit(p), AtStage(p), CreateStep(p)
    PROVE  Keeps(p)
<1> USE DEF Types, Fit, After, Outside, Entering, Away, RemoveStage, JoinStage, CreateStage,
            Goes, mapVars, objVars, taskVars, histVars
<1>1. CASE CreateRoom(p)
  <2>1. Shared(p)
    BY ZenonT(30), <1>1, InsertMoves
    DEF Shared, Only, MapMove, PeersMove, ListsMove, IndexMove, Tended,
       Early, CreateRoom
  <2>2. Own(p)
    BY ZenonT(30), <1>1, InsertMoves DEF Own, TaskMove, TendMove, Tends, Tended, Early, CreateRoom
  <2>3. Types'
    BY Zenon, <1>1, InsertMoves DEF Stage, None, CreateRoom
  <2>4. AtStage(p)'
    BY <1>1, InsertMoves DEF AtStage, Early, Delisted, EntryIs, Unmade, CreateRoom
  <2>5. QED
    BY <2>1, <2>2, <2>3, <2>4 DEF Keeps
<1>2. CASE CreateEntry(p)
  <2>1. Shared(p)
    BY ZenonT(30), <1>2, InsertMoves
    DEF Shared, Only, MapMove, PeersMove, ListsMove, IndexMove, Tended,
       Early, CreateEntry
  <2>2. Own(p)
    BY ZenonT(30), <1>2, InsertMoves DEF Own, TaskMove, TendMove, Tends, Tended, Early, CreateEntry
  <2>3. Types'
    BY Zenon, <1>2, InsertMoves DEF Stage, None, CreateEntry
  <2>4. AtStage(p)'
    BY Zenon, <1>2, InsertMoves DEF AtStage, Early, Delisted, EntryIs, Unmade, CreateEntry
  <2>5. QED
    BY <2>1, <2>2, <2>3, <2>4 DEF Keeps
<1>3. CASE CreateArc(p)
  <2>1. Shared(p)
    BY <1>3 DEF Shared, Only, MapMove, PeersMove, ListsMove, IndexMove, Tended, Early,
       CreateArc
  <2>2. Own(p)
    BY <1>3 DEF Own, TaskMove, TendMove, Tends, Tended, Early, Object, None, CreateArc
  <2>3. Types'
    BY <1>3 DEF Stage, None, CreateArc
  <2>4. AtStage(p)'
    BY <1>3 DEF AtStage, Early, Delisted, EntryIs, CreateArc
  <2>5. QED
    BY <2>1, <2>2, <2>3, <2>4 DEF Keeps
<1>4. CASE CreateLock(p)
  <2>1. Shared(p)
    BY ZenonT(30), <1>4 DEF Shared, Only, MapMove, PeersMove, ListsMove, IndexMove, Tended, Early,
       CreateLock, Release
  <2>2. Own(p)
    BY ZenonT(30), <1>4 DEF Own, TaskMove, TendMove, Tends, Tended, Early, CreateLock, Release
  <2>3. Types'
    BY <1>4 DEF Stage, None, CreateLock, Release
  <2>4. AtStage(p)'
    BY ZenonT(30), <1>4 DEF AtStage, Early, Delisted, EntryIs, CreateLock, Release
  <2>5. QED
    BY <2>1, <2>2, <2>3, <2>4 DEF Keeps
<1>5. CASE CreateIndex(p)
  <2>1. Shared(p)
    BY <1>5 DEF Shared, Only, MapMove, PeersMove, ListsMove, IndexMove, Tended, Early,
       CreateIndex
  <2>2. Own(p)
    BY <1>5 DEF Own, TaskMove, TendMove, Tends, Tended, Early, CreateIndex
  <2>3. Types'
    BY Zenon, <1>5 DEF Stage, CreateIndex
  <2>4. AtStage(p)'
    BY Zenon, <1>5 DEF AtStage, Early, Delisted, EntryIs, CreateIndex
  <2>5. QED
    BY <2>1, <2>2, <2>3, <2>4 DEF Keeps
<1>6. CASE CreateSfu(p)
  <2>1. Shared(p)
    BY <1>6 DEF Shared, Only, MapMove, PeersMove, ListsMove, IndexMove, Tended, Early,
       CreateSfu, Remove
  <2>2. Own(p)
    BY SMTT(30), <1>6 DEF Own, TaskMove, TendMove, Tends, Tended, Early, CreateSfu, Remove
  <2>3. Types'
    <3>1. CASE Remove(p, p, "idle")
      BY <1>6, <3>1 DEF Stage, CreateSfu, Remove
    <3>2. CASE Goes(p, "cSfu", "cInvite") /\ UNCHANGED <<target, then>>
      BY Zenon, <1>6, <3>2 DEF Stage, CreateSfu
    <3>3. QED
      BY Zenon, <1>6, <3>1, <3>2 DEF CreateSfu
  <2>4. AtStage(p)'
    BY SMTT(30), <1>6 DEF AtStage, Early, Delisted, EntryIs, CreateSfu, Remove
  <2>5. QED
    BY <2>1, <2>2, <2>3, <2>4 DEF Keeps
<1>7. CASE CreateInvite(p)
  <2>1. Shared(p)
    BY <1>7 DEF Shared, Only, MapMove, PeersMove, ListsMove, IndexMove, Tended, Early,
       CreateInvite, Remove
  <2>2. Own(p)
    BY SMTT(30), <1>7 DEF Own, TaskMove, TendMove, Tends, Tended, Early, CreateInvite, Remove
  <2>3. Types'
    <3>1. CASE Remove(p, p, "idle")
      BY <1>7, <3>1 DEF Stage, CreateInvite, Remove
    <3>2. CASE Goes(p, "cInvite", "cPush") /\ UNCHANGED <<target, then>>
      BY <1>7, <3>2 DEF Stage, CreateInvite
    <3>3. QED
      BY ZenonT(30), <1>7, <3>1, <3>2 DEF CreateInvite
  <2>4. AtStage(p)'
    BY <1>7 DEF AtStage, Early, Delisted, EntryIs, CreateInvite, Remove
  <2>5. QED
    BY <2>1, <2>2, <2>3, <2>4 DEF Keeps
<1>8. CASE CreatePush(p)
  <2>1. Shared(p)
    BY ZenonT(30), <1>8 DEF Shared, Only, MapMove, PeersMove, ListsMove, IndexMove, Tended, Early,
       CreatePush
  <2>2. Own(p)
    BY ZenonT(30), <1>8 DEF Own, TaskMove, TendMove, Tends, Tended, Early, CreatePush
  <2>3. Types'
    BY ZenonT(30), <1>8 DEF Stage, CreatePush
  <2>4. AtStage(p)'
    BY ZenonT(30), <1>8 DEF AtStage, Early, Delisted, EntryIs, CreatePush
  <2>5. QED
    BY <2>1, <2>2, <2>3, <2>4 DEF Keeps
<1>9. QED
  BY <1>1, <1>2, <1>3, <1>4, <1>5, <1>6, <1>7, <1>8 DEF CreateStep

\* The steps after a removal: the participant list and the invites.
LEMMA LeaveKeeps ==
    ASSUME Types, Tended, Unmade, NEW p \in Peer, Fit(p), AtStage(p), LeaveStep(p)
    PROVE  Keeps(p)
<1> USE DEF Types, Fit, After, Outside, Entering, Away, RemoveStage, JoinStage, CreateStage,
            Goes, mapVars, objVars, taskVars, histVars
<1>1. CASE KickList(p)
  <2>1. Shared(p)
    BY ZenonT(30), <1>1 DEF Shared, Only, MapMove, PeersMove, ListsMove, IndexMove, Tended, Early,
       KickList
  <2>2. Own(p)
    BY ZenonT(30), <1>1 DEF Own, TaskMove, TendMove, Tends, Tended, Early, KickList
  <2>3. Types'
    BY ZenonT(30), <1>1 DEF Stage, KickList
  <2>4. AtStage(p)'
    BY ZenonT(30), <1>1 DEF AtStage, Early, Delisted, EntryIs, KickList
  <2>5. QED
    BY <2>1, <2>2, <2>3, <2>4 DEF Keeps
<1>2. CASE LeaveList(p)
  <2>1. Shared(p)
    BY ZenonT(30), <1>2 DEF Shared, Only, MapMove, PeersMove, ListsMove, IndexMove, Tended, Early,
       LeaveList, Remove
  <2>2. Own(p)
    BY ZenonT(30), <1>2 DEF Own, TaskMove, TendMove, Tends, Tended, Early, LeaveList, Remove
  <2>3. Types'
    BY ZenonT(30), <1>2 DEF Stage, LeaveList, Remove
  <2>4. AtStage(p)'
    BY ZenonT(30), <1>2 DEF AtStage, Early, Delisted, EntryIs, LeaveList, Remove
  <2>5. QED
    BY <2>1, <2>2, <2>3, <2>4 DEF Keeps
<1>3. CASE LeaveArtifacts(p)
  <2>1. Shared(p)
    BY ZenonT(30), <1>3 DEF Shared, Only, MapMove, PeersMove, ListsMove, IndexMove, Tended, Early,
       LeaveArtifacts
  <2>2. Own(p)
    BY Zenon, <1>3 DEF Own, TaskMove, TendMove, Tends, Tended, Early, LeaveArtifacts
  <2>3. Types'
    BY Zenon, <1>3 DEF Stage, LeaveArtifacts
  <2>4. AtStage(p)'
    BY <1>3 DEF AtStage, Early, Delisted, EntryIs, LeaveArtifacts
  <2>5. QED
    BY <2>1, <2>2, <2>3, <2>4 DEF Keeps
<1>4. CASE LeaveInvites(p)
  <2>1. Shared(p)
    BY ZenonT(30), <1>4 DEF Shared, Only, MapMove, PeersMove, ListsMove, IndexMove, Tended, Early,
       LeaveInvites
  <2>2. Own(p)
    BY ZenonT(30), <1>4 DEF Own, TaskMove, TendMove, Tends, Tended, Early, LeaveInvites
  <2>3. Types'
    BY <1>4 DEF Stage, LeaveInvites
  <2>4. AtStage(p)'
    BY <1>4 DEF AtStage, Early, Delisted, EntryIs, LeaveInvites
  <2>5. QED
    BY <2>1, <2>2, <2>3, <2>4 DEF Keeps
<1>5. QED
  BY <1>1, <1>2, <1>3, <1>4 DEF LeaveStep

\* What a client asks for, or the end of its connection.
LEMMA RequestKeeps ==
    ASSUME Types, Tended, Unmade, NEW p \in Peer, Fit(p), AtStage(p), Request(p)
    PROVE  Keeps(p)
<1> USE DEF Types, Fit, After, Outside, Entering, Away, RemoveStage, JoinStage, CreateStage,
            Goes, mapVars, objVars, taskVars, histVars
<1>1. ASSUME NEW k \in setup.kinds, NEW c \in Code \cup {NoCode}, JoinRequest(p, k, c)
      PROVE  Keeps(p)
  <2>1. Shared(p)
    BY ZenonT(30), <1>1 DEF Shared, Only, MapMove, PeersMove, ListsMove, IndexMove, Tended, Early,
       JoinRequest
  <2>2. Own(p)
    BY ZenonT(30), <1>1 DEF Own, TaskMove, TendMove, Tends, Tended, Early, JoinRequest
  <2>3. Types'
    BY ZenonT(30), <1>1, KindsFit DEF Stage, JoinRequest
  <2>4. AtStage(p)'
    BY ZenonT(30), <1>1 DEF AtStage, Early, Delisted, EntryIs, JoinRequest
  <2>5. QED
    BY ZenonT(30), <2>1, <2>2, <2>3, <2>4 DEF Keeps
<1>2. CASE VoiceEnsure(p)
  <2>1. Shared(p)
    BY ZenonT(30), <1>2, InsertMoves
    DEF Shared, Only, MapMove, PeersMove, ListsMove, IndexMove, Tended,
       Early, VoiceEnsure
  <2>2. Own(p)
    BY ZenonT(30), <1>2, InsertMoves DEF Own, TaskMove, TendMove, Tends, Tended, Early, VoiceEnsure
  <2>3. Types'
    BY ZenonT(30), <1>2, InsertMoves DEF Stage, None, VoiceEnsure
  <2>4. AtStage(p)'
    BY ZenonT(30), <1>2, InsertMoves DEF AtStage, Early, Delisted, EntryIs, Unmade, VoiceEnsure
  <2>5. QED
    BY <2>1, <2>2, <2>3, <2>4 DEF Keeps
<1>3. ASSUME NEW k \in setup.kinds, CreateRequest(p, k)
      PROVE  Keeps(p)
  <2>1. Shared(p)
    BY ZenonT(30), <1>3 DEF Shared, Only, MapMove, PeersMove, ListsMove, IndexMove, Tended, Early,
       CreateRequest
  <2>2. Own(p)
    BY ZenonT(30), <1>3 DEF Own, TaskMove, TendMove, Tends, Tended, Early, CreateRequest
  <2>3. Types'
    BY ZenonT(30), <1>3, KindsFit DEF Stage, CreateRequest
  <2>4. AtStage(p)'
    BY ZenonT(30), <1>3 DEF AtStage, Early, Delisted, EntryIs, CreateRequest
  <2>5. QED
    BY ZenonT(30), <2>1, <2>2, <2>3, <2>4 DEF Keeps
<1>4. ASSUME NEW c \in Code, InviteCreate(p, c)
      PROVE  Keeps(p)
  <2>1. Shared(p)
    BY ZenonT(30), <1>4 DEF Shared, Only, MapMove, PeersMove, ListsMove, IndexMove, Tended, Early,
       InviteCreate
  <2>2. Own(p)
    BY ZenonT(30), <1>4 DEF Own, TaskMove, TendMove, Tends, Tended, Early, InviteCreate
  <2>3. Types'
    BY <1>4 DEF Stage, InviteCreate
  <2>4. AtStage(p)'
    BY ZenonT(30), <1>4 DEF AtStage, Early, Delisted, EntryIs, InviteCreate
  <2>5. QED
    BY <2>1, <2>2, <2>3, <2>4 DEF Keeps
<1>5. ASSUME NEW c \in Code, InviteRevoke(p, c)
      PROVE  Keeps(p)
  <2>1. Shared(p)
    BY Zenon, <1>5 DEF Shared, Only, MapMove, PeersMove, ListsMove, IndexMove, Tended, Early,
       InviteRevoke
  <2>2. Own(p)
    BY <1>5 DEF Own, TaskMove, TendMove, Tends, Tended, Early, InviteRevoke
  <2>3. Types'
    BY ZenonT(30), <1>5 DEF Stage, InviteRevoke
  <2>4. AtStage(p)'
    BY Zenon, <1>5 DEF AtStage, Early, Delisted, EntryIs, InviteRevoke
  <2>5. QED
    BY <2>1, <2>2, <2>3, <2>4 DEF Keeps
<1>6. ASSUME NEW q \in Peer, Kick(p, q)
      PROVE  Keeps(p)
  <2>1. Shared(p)
    BY ZenonT(30), <1>6
    DEF Shared, Only, MapMove, PeersMove, ListsMove, IndexMove, Tended, Early, Kick,
       Remove
  <2>2. Own(p)
    BY Zenon, <1>6 DEF Own, TaskMove, TendMove, Tends, Tended, Early, EntryIs, Kick, Remove
  <2>3. Types'
    BY <1>6 DEF Stage, Kick, Remove
  <2>4. AtStage(p)'
    BY ZenonT(30), <1>6 DEF AtStage, Early, Delisted, EntryIs, Kick, Remove
  <2>5. QED
    BY <2>1, <2>2, <2>3, <2>4 DEF Keeps
<1>7. CASE Leave(p)
  <2>1. Shared(p)
    BY ZenonT(30), <1>7
    DEF Shared, Only, MapMove, PeersMove, ListsMove, IndexMove, Tended, Early, Leave,
       Remove
  <2>2. Own(p)
    BY <1>7 DEF Own, TaskMove, TendMove, Tends, Tended, Early, EntryIs, Leave, Remove
  <2>3. Types'
    BY Zenon, <1>7 DEF Stage, Leave, Remove
  <2>4. AtStage(p)'
    BY <1>7 DEF AtStage, Early, Delisted, EntryIs, Leave, Remove
  <2>5. QED
    BY <2>1, <2>2, <2>3, <2>4 DEF Keeps
<1>8. CASE CloseUnjoined(p)
  <2>1. Shared(p)
    BY ZenonT(30), <1>8 DEF Shared, Only, MapMove, PeersMove, ListsMove, IndexMove, Tended, Early,
       CloseUnjoined, Remove
  <2>2. Own(p)
    BY <1>8 DEF Own, TaskMove, TendMove, Tends, Tended, Early, CloseUnjoined, Remove
  <2>3. Types'
    BY Zenon, <1>8 DEF Stage, CloseUnjoined, Remove
  <2>4. AtStage(p)'
    BY <1>8 DEF AtStage, Early, Delisted, EntryIs, CloseUnjoined, Remove
  <2>5. QED
    BY <2>1, <2>2, <2>3, <2>4 DEF Keeps
<1>9. QED
  BY ZenonT(30), <1>1, <1>2, <1>3, <1>4, <1>5, <1>6, <1>7, <1>8 DEF Request

\* Every step of p keeps p's part of the invariant.
LEMMA StepKeeps ==
    ASSUME Types, Tended, Unmade, NEW p \in Peer, Fit(p), AtStage(p),
           RemoveStep(p) \/ JoinStep(p) \/ CreateStep(p) \/ LeaveStep(p) \/ Request(p)
    PROVE  Keeps(p)
BY RemoveKeeps, JoinKeeps, CreateKeeps, LeaveKeeps, RequestKeeps

(***************************************************************************)
(* The others, and what they share.                                        *)
(***************************************************************************)
\* No object appears but the next one.
LEMMA MadeGrows ==
    ASSUME Types, NEW p \in Peer, MapMove(p)
    PROVE  made' \in Nat /\ made <= made'
BY DEF MapMove, Types

\* What happens to the peer list of one object.
LEMMA PeersAt ==
    ASSUME Types, NEW p \in Peer, PeersMove(p), NEW o \in Object
    PROVE  \/ peers'[o] = peers[o] /\ (pc[p] # "rLock" \/ arc[p] # o)
           \/ /\ pc[p] = "rLock" /\ arc[p] = o /\ peers'[o] = peers[o] \ {target[p]}
              /\ peers'[o] = {} => pc'[p] = "rDrop"
              /\ entry' = entry
           \/ /\ pc[p] \in {"jLock", "cLock"} /\ arc[p] = o /\ pc'[p] \in Entering
              /\ peers'[o] = peers[o] \cup {p} /\ entry' = entry
<1>1. /\ o \in DOMAIN peers
      /\ \A x : peers' = [peers EXCEPT ![arc[p]] = x] =>
               peers'[o] = IF o = arc[p] THEN x ELSE peers[o]
  BY DEF Types
<1>2. CASE peers' = peers /\ pc[p] # "rLock"
  BY ZenonT(30), <1>2
<1>3. CASE /\ pc[p] = "rLock" /\ peers' = [peers EXCEPT ![arc[p]] = @ \ {target[p]}]
           /\ peers[arc[p]] \ {target[p]} = {} => pc'[p] = "rDrop"
           /\ entry' = entry
  <2>1. peers' = [peers EXCEPT ![arc[p]] = peers[arc[p]] \ {target[p]}]
    BY <1>3
  <2>2. peers'[o] = IF o = arc[p] THEN peers[arc[p]] \ {target[p]} ELSE peers[o]
    BY Zenon, <1>1, <2>1
  <2>3. QED
    BY <1>3, <2>2
<1>4. CASE /\ pc[p] \in {"jLock", "cLock"} /\ pc'[p] \in Entering
           /\ peers' = [peers EXCEPT ![arc[p]] = @ \cup {p}]
           /\ entry' = entry
  <2>1. peers' = [peers EXCEPT ![arc[p]] = peers[arc[p]] \cup {p}]
    BY <1>4
  <2>2. peers'[o] = IF o = arc[p] THEN peers[arc[p]] \cup {p} ELSE peers[o]
    BY Zenon, <1>1, <2>1
  <2>3. QED
    BY <1>4, <2>2
<1>5. QED
  BY ZenonT(30), <1>2, <1>3, <1>4 DEF PeersMove

\* The stage of another task, and what it holds, are as they were.
LEMMA OthersFit ==
    ASSUME Types, NEW p \in Peer, Shared(p), NEW q \in Peer \ {p}, Fit(q)
    PROVE  Fit(q)'
<1>1. pc'[q] = pc[q] /\ then'[q] = then[q] /\ target'[q] = target[q] /\ arc'[q] = arc[q]
  BY ZenonT(30) DEF Shared, Only
<1>2. made \in Nat /\ made' \in Nat /\ made <= made'
  BY MadeGrows DEF Shared, Types
<1>3. arc[q] \in Object => arc[q] \in Nat
  BY DEF Object
<1>4. arc[q] \in Object /\ arc[q] <= made => arc[q] <= made'
  BY <1>2, <1>3
<1>5. QED
  BY <1>1, <1>4 DEF Fit

\* The maps still say of another connection what its stage does: the index gets
\* nobody that is being removed, and the lists lose nobody that is in the index.
LEMMA OthersAtStage ==
    ASSUME Types, Unmade, Unkicked, NEW p \in Peer, Fit(p), AtStage(p), Shared(p),
           NEW q \in Peer \ {p}, AtStage(q)
    PROVE  AtStage(q)'
<1>1. /\ pc'[q] = pc[q] /\ then'[q] = then[q] /\ target'[q] = target[q] /\ via'[q] = via[q]
      /\ Early(q)' <=> Early(q)
      /\ Delisted(q)' <=> Delisted(q)
  BY ZenonT(30) DEF Shared, Only, Early, Delisted
<1>2. \A o \in Object : q \in participants'[o] => q \in participants[o]
  BY DEF Shared, ListsMove
<1>3. q \in index' => q \in index
  BY ZenonT(30) DEF Shared, IndexMove
<1>4. pc[q] \in {"rArc", "rLock", "rDrop"} => target[q] \notin index'
  <2>1. pc[q] \in {"rArc", "rLock", "rDrop"} /\ pc[p] \in Entering => target[q] # p
    BY DEF Unkicked, Early, RemoveStage
  <2>2. QED
    BY ZenonT(30), <2>1 DEF Shared, IndexMove, AtStage
<1>5. q \in index \/ pc[q] \in Entering => \E o \in Object : q \in peers'[o]
  <2>1. pc[p] = "rLock" /\ target[p] = q => q \notin index /\ pc[q] \notin Entering
    BY Zenon DEF AtStage, Unkicked, Early, RemoveStage
  <2>2. SUFFICES ASSUME q \in index \/ pc[q] \in Entering, NEW o \in Object, q \in peers[o]
                 PROVE  q \in peers'[o]
    BY Zenon DEF AtStage
  <2>3. PeersMove(p)
    BY DEF Shared
  <2>4. \/ peers'[o] = peers[o] \/ peers'[o] = peers[o] \cup {p}
        \/ pc[p] = "rLock" /\ peers'[o] = peers[o] \ {target[p]}
    BY Zenon, <2>3, PeersAt
  <2>5. pc[p] = "rLock" => target[p] # q
    BY Zenon, <2>1, <2>2
  <2>6. QED
    BY ZenonT(30), <2>2, <2>4, <2>5
<1>6. Delisted(q) /\ EntryIs("sfu")' => q \notin participants'[entry']
  <2>1. CASE UNCHANGED <<entry, made, kind>>
    BY ZenonT(30), <1>2, <2>1 DEF AtStage, EntryIs, Types
  <2>2. CASE entry' = None
    BY Zenon, <2>2 DEF EntryIs
  <2>3. CASE entry' = made + 1 /\ made + 1 \in Object /\ UNCHANGED participants
    BY <2>3 DEF Unmade, Types
  <2>4. QED
    BY ZenonT(30), <2>1, <2>2, <2>3 DEF Shared, MapMove
<1>7. QED
  BY ZenonT(30), <1>1, <1>2, <1>3, <1>4, <1>5, <1>6 DEF AtStage

\* A new target is on a participant list, and so not early.
LEMMA UnkickedKept ==
    ASSUME Unkicked, NEW p \in Peer, Shared(p), Own(p), \A q \in Peer : AtStage(q)
    PROVE  Unkicked'
<1> SUFFICES ASSUME NEW a \in Peer, NEW b \in Peer, Early(a)', b # a, pc'[b] \in RemoveStage
             PROVE  target'[b] # a
  BY DEF Unkicked
<1>1. Early(a)
  BY ZenonT(30) DEF Shared, Own, Only, TaskMove, Early
<1>2. CASE b = p
  BY ZenonT(30), <1>1, <1>2 DEF Own, TaskMove, Unkicked, AtStage
<1>3. CASE b # p
  BY ZenonT(30), <1>1, <1>3 DEF Shared, Only, Unkicked
<1>4. QED
  BY Zenon, <1>2, <1>3

\* Only objects that are made get members.
LEMMA UnmadeKept ==
    ASSUME Types, Unmade, NEW p \in Peer, Fit(p), Shared(p)
    PROVE  Unmade'
<1> SUFFICES ASSUME NEW o \in Object, o > made'
             PROVE  peers'[o] = {} /\ participants'[o] = {}
  BY DEF Unmade
<1>1. made \in Nat /\ o \in Nat /\ o > made
  BY MadeGrows DEF Shared, Types, Object
<1>2. peers[o] = {} /\ participants[o] = {}
  BY ZenonT(30), <1>1 DEF Unmade
<1>3. o # entry
  <2>1. entry <= made
    BY ZenonT(30) DEF Types
  <2>2. QED
    BY <1>1, <2>1
<1>4. participants'[o] = {}
  BY Zenon, <1>2, <1>3 DEF Shared, ListsMove
<1>5. pc[p] \in {"jLock", "rLock", "cLock"} => arc[p] # o
  <2>1. ~(o <= made)
    BY <1>1
  <2>2. QED
    BY Zenon, <2>1 DEF Fit
<1>6. peers'[o] = {}
  <2>1. PeersMove(p)
    BY DEF Shared
  <2>2. QED
    BY ZenonT(30), <1>2, <1>5, <2>1, PeersAt
<1>7. QED
  BY ZenonT(30), <1>4, <1>6

\* Who loses the index entry is being removed, and who is being removed from the
\* room of the map leaves its list before the removal ends.
LEMMA LingeringKept ==
    ASSUME Types, Unmade, Lingering, NEW p \in Peer, Fit(p), Shared(p), Own(p)
    PROVE  Lingering'
<1> SUFFICES ASSUME entry' # None, NEW a \in peers'[entry'], a \notin index',
                    pc'[a] \notin Entering
             PROVE  \E q \in Peer : Removing(q, a)'
  BY Zenon DEF Lingering
<1>1. CASE entry' = made + 1 /\ made + 1 \in Object /\ UNCHANGED peers
  <2>1. peers'[entry'] = {}
    BY <1>1 DEF Unmade, Types
  <2>2. QED
    BY <2>1
<1>2. CASE entry' = entry
  <2>1. entry \in Object /\ entry # None
    BY ZenonT(30), <1>2 DEF Types
  <2>2. a \in peers[entry] /\ a \in Peer
    <3>1. PeersMove(p)
      BY ZenonT(30) DEF Shared
    <3>2. \/ peers'[entry] = peers[entry] \/ peers'[entry] = peers[entry] \ {target[p]}
          \/ peers'[entry] = peers[entry] \cup {p} /\ pc'[p] \in Entering
      BY Zenon, <2>1, <3>1, PeersAt
    <3>3. a \in peers'[entry] /\ (a = p => pc'[p] \notin Entering)
      BY <1>2
    <3>4. a \in peers[entry]
      BY ZenonT(30), <3>2, <3>3
    <3>5. QED
      BY ZenonT(30), <2>1, <3>4 DEF Types
  <2>3. CASE a \in index
    BY ZenonT(30), <1>2, <2>2, <2>3 DEF Shared, IndexMove, Removing
  <2>4. CASE pc[a] \in Entering
    BY ZenonT(30), <2>2, <2>4 DEF Shared, Only, IndexMove, Entering
  <2>5. ASSUME NEW q \in Peer, Removing(q, a) PROVE Removing(q, a)'
    <3>1. CASE q # p
      BY ZenonT(30), <1>2, <2>5, <3>1 DEF Shared, Only, Removing
    <3>2. CASE q = p /\ pc[p] = "rArc"
      BY ZenonT(30), <2>1, <2>5, <3>2 DEF Own, TaskMove, Removing
    <3>3. CASE q = p /\ pc[p] = "rLock" /\ arc[p] = entry
      <4>1. PeersMove(p) /\ target[p] = a
        BY ZenonT(30), <2>5, <3>3 DEF Shared, Removing
      <4>2. \/ peers'[entry] = peers[entry] \ {a}
            \/ pc[p] # "rLock" \/ arc[p] # entry \/ pc[p] \in {"jLock", "cLock"}
        BY Zenon, <2>1, <4>1, PeersAt
      <4>3. peers'[entry] = peers[entry] \ {a}
        BY Zenon, <3>3, <4>2
      <4>4. a \notin peers'[entry]
        BY Zenon, <4>3
      <4>5. QED
        BY ZenonT(30), <1>2, <4>4
    <3>4. QED
      BY ZenonT(30), <2>5, <3>1, <3>2, <3>3 DEF Removing
  <2>6. QED
    BY ZenonT(30), <2>1, <2>2, <2>3, <2>4, <2>5 DEF Lingering
<1>3. QED
  BY ZenonT(30), <1>1, <1>2 DEF Shared, MapMove

\* Whoever takes the last peer off the list of a channel's room goes on to drop the
\* room, and whoever makes one or rolls it back looks at it again.
LEMMA TendedKept ==
    ASSUME Types, Tended, NEW p \in Peer, Fit(p), Shared(p), Own(p)
    PROVE  Tended'
<1> SUFFICES ASSUME setup.channel, setup'.channel
             PROVE  /\ \A q \in Peer : pc'[q] \notin {"jLookup", "jCreate"} \cup CreateStage
                    /\ entry' # None => peers'[entry'] # {} \/ \E q \in Peer : Tends(q)'
  BY ZenonT(30) DEF Shared, MapMove, Tended
<1>1. \A q \in Peer : pc'[q] \notin {"jLookup", "jCreate"} \cup CreateStage
  BY ZenonT(30) DEF Shared, Only, Own, TendMove, Tended
<1>2. CASE entry' = entry /\ entry # None
  <2>1. entry \in Object
    BY <1>2 DEF Types
  <2>2. CASE peers[entry] # {}
    <3>1. CASE pc[p] = "rLock" /\ arc[p] = entry /\ peers[arc[p]] \ {target[p]} = {}
      BY ZenonT(30), <1>1, <3>1 DEF Shared, PeersMove, Tends
    <3>2. CASE ~(pc[p] = "rLock" /\ arc[p] = entry /\ peers[arc[p]] \ {target[p]} = {})
      <4>1. peers'[entry] # {}
        <5>1. PeersMove(p)
          BY DEF Shared
        <5>2. \/ peers'[entry] = peers[entry] \/ peers'[entry] = peers[entry] \cup {p}
              \/ /\ pc[p] = "rLock" /\ arc[p] = entry
                 /\ peers'[entry] = peers[entry] \ {target[p]}
          BY Zenon, <2>1, <5>1, PeersAt
        <5>3. peers[entry] \cup {p} # {}
          OBVIOUS
        <5>4. QED
          BY Zenon, <2>2, <3>2, <5>2, <5>3
      <4>2. QED
        BY <1>1, <1>2, <4>1
    <3>3. QED
      BY ZenonT(30), <3>1, <3>2
  <2>3. ASSUME NEW q \in Peer \ {p}, Tends(q) PROVE Tends(q)'
    BY Zenon, <1>2, <2>3 DEF Shared, Only, Tends
  <2>4. CASE Tends(p)
    BY ZenonT(30), <1>1, <1>2, <2>4 DEF Own, TendMove
  <2>5. QED
    BY ZenonT(30), <1>1, <1>2, <2>2, <2>3, <2>4 DEF Tended
<1>3. CASE entry' = made + 1 /\ entry = None
  <2>1. entry' # None => pc'[p] = "jSfu" /\ p \in fresh'
    BY Zenon, <1>3 DEF Shared, MapMove
  <2>2. QED
    BY ZenonT(30), <1>1, <2>1 DEF Tends
<1>4. QED
  BY ZenonT(30), <1>1, <1>2, <1>3 DEF Shared, MapMove

(***************************************************************************)
(* Admissions: what a step does to the store, and whom it lets in.         *)
(***************************************************************************)
\* The store makes a step of its own, and the room gets p by a join that found a
\* place, with a use of its code if it has one, or by a CreateRoom.
Admits(p) ==
    /\ [Next]_vars
    /\ \/ UNCHANGED <<accepted, via>>
       \/ /\ pc[p] = "jLock"
          /\ \E c \in Code : /\ via' = [via EXCEPT ![p] = c]
                             /\ accepted' = [accepted EXCEPT ![c] = @ + 1]
    /\ placed \subseteq placed'
    /\ pc[p] = "cLock" => p \in placed'
    /\ pc[p] = "jLock" /\ pc'[p] \in Entering => Cardinality(peers[arc[p]]) < Capacity(arc[p])

\* Most steps touch neither the store nor the records of who came in how.
LEMMA QuietAdmits ==
    ASSUME NEW p \in Peer, UNCHANGED <<storeVars, via, placed>>, pc[p] \notin {"jLock", "cLock"}
    PROVE  Admits(p)
BY DEF Admits, storeVars, vars

\* Steps 3 to 6 of try_add_peer_with.
LEMMA JoinLockAdmits ==
    ASSUME Types, NEW p \in Peer, AtStage(p), JoinLock(p)
    PROVE  Admits(p)
<1>1. pc[p] = "jLock" /\ placed' = placed /\ via[p] = NoCode
  BY Zenon DEF JoinLock, Goes, Enters, histVars, AtStage, Early, Outside
<1>2. CASE /\ Goes(p, "jLock", "jIndex") /\ Cardinality(peers[arc[p]]) < Capacity(arc[p])
           /\ Consumes(p) /\ Enters(p)
  <2>1. CASE want[p].code = NoCode
    <3>1. via' = via
      BY ZenonT(30), <1>1, <1>2, <2>1 DEF Enters, Types
    <3>2. UNCHANGED storeVars
      BY <1>2, <2>1 DEF Consumes
    <3>3. QED
      BY ZenonT(30), <1>1, <1>2, <3>1, <3>2 DEF Admits, storeVars, vars
  <2>2. CASE want[p].code # NoCode
    <3>1. PICK c \in Code : c = want[p].code
      BY Zenon, <2>2 DEF Types
    <3>2. ValidateAndConsume(c, TheRoom)
      BY <1>2, <2>2, <3>1 DEF Consumes
    <3>3. [Next]_vars /\ accepted' = [accepted EXCEPT ![c] = @ + 1]
      BY ZenonT(30), <3>2, StoreAssumption DEF Next, ValidateAndConsume
    <3>4. via' = [via EXCEPT ![p] = c]
      BY Zenon, <1>2, <3>1 DEF Enters
    <3>5. QED
      BY ZenonT(30), <1>1, <1>2, <3>3, <3>4 DEF Admits
  <2>3. QED
    BY <2>1, <2>2
<1>3. CASE Goes(p, "jLock", GiveUp(p)) /\ UNCHANGED <<histVars, storeVars>>
  <2>1. pc'[p] \notin Entering
    BY <1>3 DEF Goes, GiveUp, Types, Entering
  <2>2. QED
    BY Zenon, <1>1, <1>3, <2>1 DEF Admits, histVars, storeVars, vars
<1>4. QED
  BY ZenonT(30), <1>2, <1>3 DEF JoinLock

\* A code for this room is one that the store may generate.
LEMMA GenerateSteps ==
    ASSUME NEW c \in Code, Generate(c, TheRoom, MaxUses)
    PROVE  [Next]_vars /\ accepted' = accepted
<1>1. TheRoom \in Room /\ MaxUses \in 0 .. MaxUses
  BY StoreAssumption
<1>2. Next
  BY <1>1, Zenon DEF Next
<1>3. QED
  BY <1>2 DEF Generate

\* Every step.
LEMMA StepAdmits ==
    ASSUME Types, NEW p \in Peer, AtStage(p),
           RemoveStep(p) \/ JoinStep(p) \/ CreateStep(p) \/ LeaveStep(p) \/ Request(p)
    PROVE  Admits(p)
<1> DEFINE Quiet == UNCHANGED <<storeVars, via, placed>> /\ pc[p] \notin {"jLock", "cLock"}
<1>1. CASE RemoveStep(p)
  <2>1. Quiet
    BY Zenon, <1>1 DEF RemoveStep, RemoveIndex, RemoveArc, RemoveLock, RemoveDrop, Goes, histVars
  <2>2. QED
    BY <2>1, QuietAdmits
<1>2. CASE JoinStep(p)
  <2>1. JoinLock(p) \/ Quiet
    BY ZenonT(30), <1>2
    DEF JoinStep, JoinLookup, JoinCreate, JoinSfu, JoinArc, JoinIndex, JoinPush, JoinRole,
                RollbackCheck, RollbackDrop, Goes, histVars
  <2>2. QED
    BY <2>1, QuietAdmits, JoinLockAdmits
<1>3. CASE CreateStep(p)
  <2>1. CreateLock(p) \/ CreateInvite(p) \/ Quiet
    BY ZenonT(30), <1>3
    DEF CreateStep, CreateRoom, CreateEntry, CreateArc, CreateIndex, CreateSfu, CreatePush,
                Goes, histVars
  <2>2. CASE CreateLock(p)
    BY <2>2 DEF CreateLock, Goes, Admits, storeVars, vars
  <2>3. ASSUME NEW c \in Code, Generate(c, TheRoom, MaxUses), CreateInvite(p)
        PROVE  Admits(p)
    <3>1. [Next]_vars /\ accepted' = accepted
      BY <2>3, GenerateSteps
    <3>2. QED
      BY Zenon, <2>3, <3>1 DEF CreateInvite, Admits, histVars
  <2>4. CASE CreateInvite(p) /\ UNCHANGED storeVars
    <3>1. Quiet
      BY <2>4 DEF CreateInvite, histVars
    <3>2. QED
      BY <3>1, QuietAdmits
  <2>5. CreateInvite(p) => \/ UNCHANGED storeVars
                           \/ \E c \in Code : Generate(c, TheRoom, MaxUses)
    BY DEF CreateInvite
  <2>6. QED
    BY <2>1, <2>2, <2>3, <2>4, <2>5, QuietAdmits
<1>4. CASE LeaveStep(p)
  <2>1. LeaveInvites(p) \/ Quiet
    BY ZenonT(30), <1>4 DEF LeaveStep, KickList, LeaveList, LeaveArtifacts, Goes, histVars
  <2>2. CASE LeaveInvites(p)
    <3>1. [Next]_vars /\ accepted' = accepted
      BY Zenon, <2>2, StoreAssumption DEF LeaveInvites, Next, RemoveRoomInvites
    <3>2. QED
      BY ZenonT(30), <2>2, <3>1 DEF LeaveInvites, Goes, Admits, histVars
  <2>3. QED
    BY <2>1, <2>2, QuietAdmits
<1>5. CASE Request(p)
  <2>1. Quiet \/ \E c \in Code : InviteCreate(p, c) \/ InviteRevoke(p, c)
    BY ZenonT(30), <1>5
    DEF Request, JoinRequest, VoiceEnsure, CreateRequest, Kick, Leave, CloseUnjoined,
                Goes, histVars
  <2>2. ASSUME NEW c \in Code, InviteCreate(p, c) PROVE Admits(p)
    <3>1. [Next]_vars /\ accepted' = accepted
      BY ZenonT(30), <2>2, GenerateSteps DEF InviteCreate
    <3>2. QED
      BY ZenonT(30), <2>2, <3>1 DEF InviteCreate, Admits, histVars
  <2>3. ASSUME NEW c \in Code, InviteRevoke(p, c) PROVE Admits(p)
    <3>1. [Next]_vars /\ accepted' = accepted
      BY ZenonT(30), <2>3, StoreAssumption DEF InviteRevoke, Next, Revoke
    <3>2. QED
      BY <2>3, <3>1 DEF InviteRevoke, Admits, histVars
  <2>4. QED
    BY <2>1, <2>2, <2>3, QuietAdmits
<1>6. QED
  BY <1>1, <1>2, <1>3, <1>4, <1>5

(***************************************************************************)
(* The sizes of finite sets.  (The library's facts come in here and not    *)
(* with EXTENDS: no proof above needs them.)                               *)
(***************************************************************************)
Sets == INSTANCE FiniteSetTheorems

\* The library and the modules have the same finite sets and sizes.
LEMMA SetsAgree ==
    /\ \A S : Sets!IsFiniteSet(S) <=> IsFiniteSet(S)
    /\ \A S : Sets!Cardinality(S) = Cardinality(S)
<1>1. \A S : Sets!IsFiniteSet(S) <=> IsFiniteSet(S)
  BY DEF Sets!IsFiniteSet, IsFiniteSet
<1>2. \A S : Sets!Cardinality(S) = Cardinality(S)
  BY DEF Sets!Cardinality, Cardinality
<1>3. QED
  BY <1>1, <1>2

\* Sizes are numbers.
LEMMA SizeIsNat == ASSUME NEW S, IsFiniteSet(S) PROVE Cardinality(S) \in Nat
BY Sets!FS_CardinalityType, SetsAgree

\* No element, no size.
LEMMA EmptySize == IsFiniteSet({}) /\ Cardinality({}) = 0
BY Zenon, Sets!FS_EmptySet, SetsAgree

\* A part is no larger than the whole.
LEMMA SubsetSize ==
    ASSUME NEW S, IsFiniteSet(S), NEW T \in SUBSET S
    PROVE  IsFiniteSet(T) /\ Cardinality(T) <= Cardinality(S)
BY Zenon, Sets!FS_Subset, SetsAgree

\* One element more.
LEMMA AddedSize ==
    ASSUME NEW S, IsFiniteSet(S), NEW x
    PROVE  /\ IsFiniteSet(S \cup {x})
           /\ Cardinality(S \cup {x}) = IF x \in S THEN Cardinality(S) ELSE Cardinality(S) + 1
BY Sets!FS_AddElement, SetsAgree

\* What is taken away is what the two have in common.
LEMMA DifferenceSize ==
    ASSUME NEW S, IsFiniteSet(S), NEW T
    PROVE  IsFiniteSet(S \ T) /\ Cardinality(S \ T) = Cardinality(S) - Cardinality(S \cap T)
BY ZenonT(30), Sets!FS_Difference, SetsAgree

(***************************************************************************)
(* The store.                                                              *)
(***************************************************************************)
\* validate_and_consume and the others only touch codes of the store, all of
\* which were drawn and are well typed.
LEMMA StoreTypeInductive == TypeOK /\ [Next]_vars => TypeOK'
<1> SUFFICES ASSUME TypeOK, [Next]_vars PROVE TypeOK'
  BY ZenonT(30)
<1> USE StoreAssumption DEF TypeOK
<1>1. ASSUME NEW c \in Code, NEW r \in Room, NEW n \in 0 .. MaxUses, Generate(c, r, n)
      PROVE  TypeOK'
  BY SMTT(30), <1>1 DEF Generate
<1>2. ASSUME NEW c \in Code, NEW r \in Room, ValidateAndConsume(c, r)
      PROVE  TypeOK'
  <2>1. uses[c] > 0 /\ uses[c] - 1 \in Nat /\ accepted[c] + 1 \in Nat
    BY SMTT(30), <1>2 DEF ValidateAndConsume, Valid
  <2> QED
    BY ZenonT(30), <1>2, <2>1 DEF ValidateAndConsume
<1>3. ASSUME NEW c \in Code, NEW r \in Room, Revoke(c, r)
      PROVE  TypeOK'
  BY <1>3 DEF Revoke
<1>4. ASSUME NEW r \in Room, RemoveRoomInvites(r)
      PROVE  TypeOK'
  BY Zenon, <1>4 DEF RemoveRoomInvites, InRoom
<1>5. ASSUME SweepExpired PROVE TypeOK'
  <2>1. ASSUME NEW r \in Room PROVE SweptCount(r) \in Nat
    <3>1. InRoom(r) \cap Expired \subseteq Code
      BY DEF InRoom, Expired
    <3>2. Cardinality(InRoom(r) \cap Expired) \in Nat
      BY ZenonT(30), <3>1, StoreAssumption, SubsetSize, SizeIsNat
    <3> QED
      BY SMTT(30), <3>2 DEF SweptCount
  <2> QED
    BY ZenonT(30), <1>5, <2>1 DEF SweepExpired, Expired
<1>6. ASSUME Tick PROVE TypeOK'
  BY SMTT(30), <1>6 DEF Tick
<1>7. ASSUME UNCHANGED vars PROVE TypeOK'
  BY <1>7 DEF vars
<1> QED
  BY ZenonT(30), <1>1, <1>2, <1>3, <1>4, <1>5, <1>6, <1>7 DEF Next

\* The initial store is empty and well typed.
LEMMA StoreTypeInitially == Init => TypeOK
  BY StoreAssumption DEF Init, TypeOK

\* Every variable of the invite store keeps its type, and revoked codes are
\* stored codes, whatever clients, sweeps and the clock do.
THEOREM StoreTypeCorrect == Spec => []TypeOK
  BY StoreTypeInitially, StoreTypeInductive, PTL DEF Spec

\* The store and each room's part of it are finite.
LEMMA StoreFinite ==
    ASSUME TypeOK
    PROVE  /\ IsFiniteSet(stored) /\ Cardinality(stored) \in Nat
           /\ \A r \in Room : /\ IsFiniteSet(InRoom(r))
                              /\ Cardinality(InRoom(r)) \in Nat
<1>1. stored \subseteq Code /\ \A r \in Room : InRoom(r) \subseteq Code
  BY DEF TypeOK, InRoom
<1> QED
  BY ZenonT(30), <1>1, StoreAssumption, SubsetSize, SizeIsNat

\* What generate does to the records of each room.
LEMMA GenerateRooms ==
    ASSUME TypeOK, NEW c \in Code, NEW r \in Room, NEW n \in 0 .. MaxUses,
           Generate(c, r, n)
    PROVE  /\ InRoom(r)' = InRoom(r) \cup {c}
           /\ Cardinality(InRoom(r)') = Cardinality(InRoom(r)) + 1
           /\ \A s \in Room \ {r} : InRoom(s)' = InRoom(s)
<1>1. c \notin stored
  BY DEF Generate, TypeOK
<1>2. InRoom(r)' = InRoom(r) \cup {c}
  BY <1>1 DEF Generate, TypeOK, InRoom
<1>3. c \notin InRoom(r)
  BY <1>1 DEF InRoom
<1>4. Cardinality(InRoom(r) \cup {c}) = Cardinality(InRoom(r)) + 1
  BY Zenon, <1>3, StoreFinite, AddedSize
<1>5. \A s \in Room \ {r} : InRoom(s)' = InRoom(s)
  BY ZenonT(30), <1>1 DEF Generate, TypeOK, InRoom
<1> QED
  BY ZenonT(30), <1>2, <1>4, <1>5

\* The two maps keep agreeing.
LEMMA CountsInductive ==
    TypeOK /\ CountsMatch /\ [Next]_vars => CountsMatch'
<1> SUFFICES ASSUME TypeOK, CountsMatch, [Next]_vars, NEW s \in Room
             PROVE  counts'[s] = Cardinality(InRoom(s)')
  BY DEF CountsMatch
<1>0. counts[s] = Cardinality(InRoom(s))
  BY DEF CountsMatch
<1>1. ASSUME NEW c \in Code, NEW r \in Room, NEW n \in 0 .. MaxUses, Generate(c, r, n)
      PROVE  counts'[s] = Cardinality(InRoom(s)')
  <2>1. counts' = [counts EXCEPT ![r] = @ + 1] /\ counts \in [Room -> Nat]
    BY <1>1 DEF Generate, TypeOK
  <2>2. CASE s = r
    BY ZenonT(30), <1>0, <1>1, <2>1, <2>2, GenerateRooms
  <2>3. CASE s # r
    <3>1. InRoom(s)' = InRoom(s)
      BY ZenonT(30), <1>1, <2>3, GenerateRooms
    <3> QED
      BY Zenon, <1>0, <2>1, <2>3, <3>1
  <2> QED
    BY ZenonT(30), <2>2, <2>3
<1>2. ASSUME stored' = stored, roomOf' = roomOf, counts' = counts
      PROVE  counts'[s] = Cardinality(InRoom(s)')
  BY Zenon, <1>0, <1>2 DEF InRoom
<1>3. ASSUME NEW r \in Room, RemoveRoomInvites(r)
      PROVE  counts'[s] = Cardinality(InRoom(s)')
  <2>1. counts' = [counts EXCEPT ![r] = 0] /\ counts \in [Room -> Nat]
    BY <1>3 DEF RemoveRoomInvites, TypeOK
  <2>2. CASE s = r
    <3>1. InRoom(s)' = {}
      BY <1>3, <2>2 DEF RemoveRoomInvites, InRoom
    <3> QED
      BY Zenon, <2>1, <2>2, <3>1, EmptySize
  <2>3. CASE s # r
    <3>1. InRoom(s)' = InRoom(s)
      BY ZenonT(30), <1>3, <2>3 DEF RemoveRoomInvites, InRoom
    <3> QED
      BY <1>0, <2>1, <2>3, <3>1
  <2> QED
    BY ZenonT(30), <2>2, <2>3
<1>4. ASSUME SweepExpired
      PROVE  counts'[s] = Cardinality(InRoom(s)')
  <2> DEFINE dead == InRoom(s) \cap Expired
  <2>1. InRoom(s)' = InRoom(s) \ Expired
    BY <1>4 DEF SweepExpired, InRoom
  <2>2. /\ IsFiniteSet(InRoom(s)) /\ Cardinality(InRoom(s)) \in Nat
        /\ Cardinality(InRoom(s) \ Expired)
             = Cardinality(InRoom(s)) - Cardinality(dead)
    BY ZenonT(30), StoreFinite, DifferenceSize
  <2>3. Cardinality(dead) \in Nat /\ Cardinality(dead) <= Cardinality(InRoom(s))
    BY Zenon, <2>2, SubsetSize, SizeIsNat
  <2>4. counts'[s] = SweptCount(s)
    BY ZenonT(30), <1>4 DEF SweepExpired
  <2>5. SweptCount(s) = counts[s] - Cardinality(dead)
    BY <1>0, <2>3 DEF SweptCount
  <2> QED
    BY ZenonT(30), <1>0, <2>1, <2>2, <2>4, <2>5
<1> QED
  BY ZenonT(30), <1>1, <1>2, <1>3, <1>4
  DEF Next, ValidateAndConsume, Revoke, Tick, vars

\* Generation stops at both limits, and nothing else adds a record.
LEMMA LimitsInductive ==
    TypeOK /\ CountsMatch /\ LimitsRespected /\ [Next]_vars
    => LimitsRespected'
<1> SUFFICES ASSUME TypeOK, CountsMatch, LimitsRespected,
                    [Next]_vars
             PROVE  LimitsRespected'
  OBVIOUS
<1> USE StoreAssumption
<1>1. ASSUME NEW c \in Code, NEW r \in Room, NEW n \in 0 .. MaxUses, Generate(c, r, n)
      PROVE  LimitsRespected'
  <2>1. Cardinality(stored') <= MaxGlobal
    <3>1. c \notin stored /\ stored' = stored \cup {c} /\ Cardinality(stored) < MaxGlobal
      BY <1>1 DEF Generate, MayGenerate, TypeOK
    <3>2. Cardinality(stored') = Cardinality(stored) + 1
      BY ZenonT(30), <3>1, StoreFinite, AddedSize
    <3> QED
      BY SMTT(30), <3>1, <3>2, StoreFinite
  <2>2. ASSUME NEW s \in Room PROVE Cardinality(InRoom(s)') <= MaxPerRoom
    <3>1. CASE s = r
      <4>1. Cardinality(InRoom(r)) < MaxPerRoom
        BY <1>1 DEF Generate, MayGenerate, CountsMatch
      <4>2. /\ Cardinality(InRoom(r)') = Cardinality(InRoom(r)) + 1
            /\ Cardinality(InRoom(r)) \in Nat
        BY ZenonT(30), <1>1, GenerateRooms, StoreFinite
      <4>3. Cardinality(InRoom(r)') <= MaxPerRoom
        BY <4>1, <4>2
      <4> QED
        BY ZenonT(30), <3>1, <4>3
    <3>2. CASE s # r
      BY ZenonT(30), <1>1, <3>2, GenerateRooms DEF LimitsRespected
    <3> QED
      BY <3>1, <3>2
  <2> QED
    BY Zenon, <2>1, <2>2 DEF LimitsRespected
<1>2. ASSUME stored' \subseteq stored, roomOf' = roomOf
      PROVE  LimitsRespected'
  <2>1. Cardinality(stored') <= Cardinality(stored) /\ Cardinality(stored') \in Nat
    BY ZenonT(30), <1>2, StoreFinite, SubsetSize, SizeIsNat
  <2>2. ASSUME NEW s \in Room PROVE Cardinality(InRoom(s)') <= MaxPerRoom
    <3>1. InRoom(s)' \subseteq InRoom(s)
      BY Zenon, <1>2 DEF InRoom
    <3>2. /\ Cardinality(InRoom(s)') <= Cardinality(InRoom(s))
          /\ Cardinality(InRoom(s)') \in Nat
      BY ZenonT(30), <3>1, StoreFinite, SubsetSize, SizeIsNat
    <3> QED
      BY <3>2, StoreFinite DEF LimitsRespected
  <2> QED
    BY <2>1, <2>2, StoreFinite DEF LimitsRespected
<1> QED
  BY ZenonT(30), <1>1, <1>2
  DEF Next, ValidateAndConsume, Revoke, RemoveRoomInvites,
      SweepExpired, Tick, vars

\* A code that is not drawn yet was never accepted: no code is drawn twice.
UndrawnUnused == \A c \in Code \ drawn : accepted[c] = 0

\* A use is taken only from a code that has one left, and recorded.
LEMMA UsesInductive ==
    TypeOK /\ UndrawnUnused /\ UsesAccounted /\ [Next]_vars
    => UndrawnUnused' /\ UsesAccounted'
<1> SUFFICES ASSUME TypeOK, UndrawnUnused, UsesAccounted, [Next]_vars
             PROVE  UndrawnUnused' /\ UsesAccounted'
  BY ZenonT(30)
<1> USE StoreAssumption
<1>1. ASSUME NEW c \in Code, NEW r \in Room, NEW n \in 0 .. MaxUses, Generate(c, r, n)
      PROVE  UndrawnUnused' /\ UsesAccounted'
  <2>1. accepted[c] = 0
    BY ZenonT(30), <1>1 DEF Generate, UndrawnUnused
  <2> QED
    BY <1>1, <2>1 DEF Generate, TypeOK, UndrawnUnused, UsesAccounted
<1>2. ASSUME NEW c \in Code, NEW r \in Room, ValidateAndConsume(c, r)
      PROVE  UndrawnUnused' /\ UsesAccounted'
  <2>1. c \in drawn /\ c \in stored /\ uses[c] > 0
    BY ZenonT(30), <1>2 DEF ValidateAndConsume, Valid, TypeOK
  <2> QED
    BY SMTT(30), <1>2, <2>1 DEF ValidateAndConsume, TypeOK, UndrawnUnused, UsesAccounted
<1>3. ASSUME stored' \subseteq stored,
             UNCHANGED <<drawn, uses, granted, accepted>>
      PROVE  UndrawnUnused' /\ UsesAccounted'
  BY Zenon, <1>3 DEF UndrawnUnused, UsesAccounted
<1> QED
  BY ZenonT(30), <1>1, <1>2, <1>3
  DEF Next, Revoke, RemoveRoomInvites, SweepExpired, Tick,
      vars

\* The inductive invariant.
StoreIInv == StoreInv /\ UndrawnUnused /\ UsesAccounted

\* An empty store satisfies it.
LEMMA StoreIInvInitially == Init => StoreIInv
<1> SUFFICES ASSUME Init PROVE StoreIInv
  OBVIOUS
<1>1. \A r \in Room : InRoom(r) = {}
  BY DEF Init, InRoom
<1>2. CountsMatch
  BY ZenonT(30), <1>1, EmptySize DEF CountsMatch, Init
<1>3. LimitsRespected
  BY SMTT(30), <1>1, EmptySize, StoreAssumption DEF LimitsRespected, Init
<1>4. UndrawnUnused /\ UsesAccounted
  BY DEF UndrawnUnused, UsesAccounted, Init
<1> QED
  BY Zenon, <1>2, <1>3, <1>4, StoreTypeInitially DEF StoreIInv, StoreInv

\* Every operation of the store preserves it.
LEMMA StoreIInvAlways == Spec => []StoreIInv
<1>1. StoreIInv /\ [Next]_vars => StoreIInv'
  BY StoreTypeInductive, CountsInductive, LimitsInductive, UsesInductive
  DEF StoreIInv, StoreInv
<1> QED
  BY <1>1, StoreIInvInitially, PTL DEF Spec

\* In every reachable state the entry of room_invite_counts of every room is
\* the number of its records in invites, and neither the limit per room nor the
\* global one is exceeded.
THEOREM StoreAlwaysConsistent == Spec => []StoreInv
  BY StoreIInvAlways, PTL DEF StoreIInv

\* No code ever admits more joins than it was granted for.
THEOREM UsesAlwaysAccounted == Spec => []UsesAccounted
  BY StoreIInvAlways, PTL DEF StoreIInv, StoreInv

\* A step never makes a rejected code acceptable again.
LEMMA DeadStep ==
    ASSUME TypeOK, [Next]_vars, NEW c \in drawn,
           \A r \in Room : ~Valid(c, r)
    PROVE  \A r \in Room : ~Valid(c, r)'
<1> SUFFICES ASSUME NEW s \in Room, Valid(c, s)' PROVE FALSE
  OBVIOUS
<1> USE StoreAssumption
<1>1. ASSUME NEW d \in Code, NEW r \in Room, NEW n \in 0 .. MaxUses, Generate(d, r, n)
      PROVE  Valid(c, s)
  <2>1. d # c
    BY ZenonT(30), <1>1 DEF Generate
  <2> QED
    BY ZenonT(30), <1>1, <2>1 DEF Generate, Valid, TypeOK
<1>2. ASSUME NEW d \in Code, NEW r \in Room, ValidateAndConsume(d, r)
      PROVE  Valid(c, s)
  BY ZenonT(30), <1>2 DEF ValidateAndConsume, Valid, TypeOK
<1>3. ASSUME NEW d \in Code, NEW r \in Room, Revoke(d, r)
      PROVE  Valid(c, s)
  BY ZenonT(30), <1>3 DEF Revoke, Valid
<1>4. ASSUME NEW r \in Room, RemoveRoomInvites(r)
      PROVE  Valid(c, s)
  BY ZenonT(30), <1>4 DEF RemoveRoomInvites, InRoom, Valid, TypeOK
<1>5. ASSUME SweepExpired PROVE Valid(c, s)
  BY ZenonT(30), <1>5 DEF SweepExpired, Expired, Valid, TypeOK
<1>6. ASSUME Tick PROVE Valid(c, s)
  BY <1>6 DEF Tick, Valid, TypeOK
<1>7. ASSUME UNCHANGED vars PROVE Valid(c, s)
  BY ZenonT(30), <1>7 DEF vars, Valid
<1> QED
  BY ZenonT(30), <1>1, <1>2, <1>3, <1>4, <1>5, <1>6, <1>7 DEF Next

\* A code that was revoked, has expired, is used up or has left the store is
\* never accepted again.
THEOREM DeadCodesStayDead == Spec => DeadStaysDead
<1>1. TypeOK /\ [Next]_vars
      => [\A c \in drawn : (\A r \in Room : ~Valid(c, r))
                           => \A r \in Room : ~Valid(c, r)']_vars
  BY DeadStep
<1> QED
  BY <1>1, StoreTypeCorrect, PTL DEF Spec, DeadStaysDead

(***************************************************************************)
(* The uses of codes, and the places in rooms.                             *)
(***************************************************************************)
\* A use is taken from a code exactly when it lets somebody in for the first time.
LEMMA UsesKept ==
    ASSUME Types, TypeOK, InviteUseIsAdmission, NEW p \in Peer, AtStage(p), Admits(p)
    PROVE  InviteUseIsAdmission'
<1> SUFFICES ASSUME NEW d \in Code
             PROVE  accepted'[d] = Cardinality({q \in Peer : via'[q] = d})
  BY DEF InviteUseIsAdmission
<1> DEFINE In == {q \in Peer : via[q] = d}
<1>1. accepted[d] = Cardinality(In) /\ IsFiniteSet(In)
  BY ZenonT(30), SubsetSize, PeerAssumption DEF InviteUseIsAdmission
<1>2. ASSUME NEW c \in Code, pc[p] = "jLock", via' = [via EXCEPT ![p] = c],
             accepted' = [accepted EXCEPT ![c] = @ + 1]
      PROVE  accepted'[d] = Cardinality({q \in Peer : via'[q] = d})
  <2>1. via[p] # d
    BY ZenonT(30), <1>2, NoCodeAssumption DEF AtStage, Early, Outside
  <2>2. CASE c = d
    <3>1. {q \in Peer : via'[q] = d} = In \cup {p} /\ p \notin In
      BY ZenonT(30), <1>2, <2>1, <2>2 DEF Types
    <3>2. Cardinality(In \cup {p}) = Cardinality(In) + 1
      BY ZenonT(30), <1>1, <3>1, AddedSize
    <3>3. accepted'[d] = accepted[d] + 1
      BY <1>2, <2>2 DEF TypeOK
    <3>4. QED
      BY ZenonT(30), <1>1, <3>1, <3>2, <3>3
  <2>3. CASE c # d
    <3>1. {q \in Peer : via'[q] = d} = In
      BY ZenonT(30), <1>2, <2>1, <2>3 DEF Types
    <3>2. accepted'[d] = accepted[d]
      BY ZenonT(30), <1>2, <2>3 DEF TypeOK
    <3>3. QED
      BY ZenonT(30), <1>1, <3>1, <3>2
  <2>4. QED
    BY ZenonT(30), <2>2, <2>3
<1>3. CASE UNCHANGED <<accepted, via>>
  BY ZenonT(30), <1>1, <1>3
<1>4. QED
  BY ZenonT(30), <1>2, <1>3 DEF Admits

\* A join that enters found a place; a CreateRoom is not counted.
LEMMA CapacityKept ==
    ASSUME Types, Unmade, JoinsRespectCapacity, NEW p \in Peer, Fit(p), Shared(p), Admits(p)
    PROVE  JoinsRespectCapacity'
<1> SUFFICES ASSUME NEW o \in Object
             PROVE  Cardinality(peers'[o] \ placed') <= Capacity(o)'
  BY ZenonT(30) DEF JoinsRespectCapacity
<1>1. /\ IsFiniteSet(peers[o]) /\ Cardinality(peers[o]) \in Nat
      /\ IsFiniteSet(peers[o] \ placed) /\ Cardinality(peers[o] \ placed) \in Nat
      /\ Cardinality(peers[o] \ placed) <= Capacity(o)
  BY SubsetSize, SizeIsNat, PeerAssumption DEF Types, JoinsRespectCapacity
<1>2. Capacity(o) \in Nat /\ setup' = setup /\ setup.maxSfu \in Nat
  BY Zenon, KindsFit DEF Capacity, Shared, MapMove
<1>3. ASSUME peers'[o] \ placed' \subseteq peers[o] \ placed, kind'[o] = kind[o]
      PROVE  Cardinality(peers'[o] \ placed') <= Capacity(o)'
  <2>1. /\ Cardinality(peers'[o] \ placed') <= Cardinality(peers[o] \ placed)
        /\ Cardinality(peers'[o] \ placed') \in Nat
    BY ZenonT(30), <1>1, <1>3, SubsetSize, SizeIsNat
  <2>2. Capacity(o)' = Capacity(o)
    BY ZenonT(30), <1>2, <1>3 DEF Capacity
  <2>3. \A a, b, c \in Nat : a <= b /\ b <= c => a <= c
    OBVIOUS
  <2>4. QED
    BY ZenonT(30), <1>1, <1>2, <2>1, <2>2, <2>3
<1>4. CASE kind'[o] # kind[o]
  <2>1. o = made + 1 /\ peers' = peers
    BY ZenonT(30), <1>4 DEF Shared, MapMove, Types
  <2>2. peers'[o] \ placed' = {}
    BY <2>1 DEF Unmade, Types
  <2>3. Capacity(o)' \in Nat
    BY Zenon, <1>2 DEF Capacity
  <2>4. Cardinality({}) = 0 /\ \A n \in Nat : 0 <= n
    BY EmptySize
  <2>5. QED
    BY Zenon, <2>2, <2>3, <2>4
<1>5. CASE kind'[o] = kind[o] /\ pc[p] = "jLock" /\ o = arc[p] /\ pc'[p] \in Entering
           /\ peers'[o] = peers[o] \cup {p}
  <2>1. peers'[o] = peers[o] \cup {p} /\ Cardinality(peers[o]) < Capacity(o)
    BY ZenonT(30), <1>5 DEF Admits
  <2>2. /\ IsFiniteSet(peers'[o])
        /\ \/ Cardinality(peers'[o]) = Cardinality(peers[o])
           \/ Cardinality(peers'[o]) = Cardinality(peers[o]) + 1
    <3>1. CASE p \in peers[o]
      <4>1. peers'[o] = peers[o]
        BY <2>1, <3>1
      <4>2. QED
        BY ZenonT(30), <1>1, <4>1
    <3>2. CASE p \notin peers[o]
      <4>1. /\ IsFiniteSet(peers[o] \cup {p})
            /\ Cardinality(peers[o] \cup {p}) = Cardinality(peers[o]) + 1
        BY ZenonT(30), <1>1, <3>2, AddedSize
      <4>2. QED
        BY ZenonT(30), <2>1, <4>1
    <3>3. QED
      BY Zenon, <3>1, <3>2
  <2>3. /\ Cardinality(peers'[o] \ placed') <= Cardinality(peers'[o])
        /\ Cardinality(peers'[o] \ placed') \in Nat /\ Cardinality(peers'[o]) \in Nat
    BY Zenon, <2>2, SubsetSize, SizeIsNat
  <2>4. Capacity(o)' = Capacity(o)
    BY ZenonT(30), <1>2, <1>5 DEF Capacity
  <2>5. \A a, b, c, d \in Nat : a <= b /\ (b = c \/ b = c + 1) /\ c < d => a <= d
    OBVIOUS
  <2>6. QED
    BY ZenonT(30), <1>1, <1>2, <2>1, <2>2, <2>3, <2>4, <2>5
<1>6. CASE kind'[o] = kind[o] /\ ~(pc[p] = "jLock" /\ o = arc[p] /\ pc'[p] \in Entering
           /\ peers'[o] = peers[o] \cup {p})
  <2>1. peers'[o] \ placed' \subseteq peers[o] \ placed
    <3>1. peers'[o] = peers[o] \/ peers'[o] = peers[o] \ {target[p]} \/
          (pc[p] = "cLock" /\ peers'[o] = peers[o] \cup {p})
      <4>1. PeersMove(p)
        BY DEF Shared
      <4>2. QED
        BY ZenonT(30), <1>6, <4>1, PeersAt
    <3>2. QED
      BY ZenonT(30), <3>1 DEF Admits
  <2>2. QED
    BY ZenonT(30), <1>3, <1>6, <2>1
<1>7. QED
  BY ZenonT(30), <1>4, <1>5, <1>6

(***************************************************************************)
(* The theorems.                                                           *)
(***************************************************************************)
\* The inductive invariant of the registry.
RegistryIInv ==
    /\ Types /\ TypeOK /\ Unmade /\ Unkicked /\ Lingering /\ Tended
    /\ \A p \in Peer : Fit(p) /\ AtStage(p)
    /\ InviteUseIsAdmission /\ JoinsRespectCapacity

\* Before the first request there is no room.
LEMMA InitRegistry == RegistryInit => RegistryIInv
<1> SUFFICES ASSUME RegistryInit PROVE RegistryIInv
  OBVIOUS
<1>1. Types
  BY BoundAssumption
  DEF RegistryInit, Types, None, Stage, RemoveStage, JoinStage, CreateStage, Object
<1>2. TypeOK
  BY ZenonT(30), StoreTypeInitially DEF RegistryInit
<1>3. Unmade /\ Unkicked /\ Lingering /\ Tended
  <2>1. Unmade
    BY Zenon DEF RegistryInit, Unmade
  <2>2. Unkicked
    BY Zenon DEF RegistryInit, Unkicked, RemoveStage
  <2>3. Lingering
    BY ZenonT(30) DEF RegistryInit, Lingering
  <2>4. Tended
    BY DEF RegistryInit, Tended, RemoveStage, CreateStage
  <2>5. QED
    BY ZenonT(30), <2>1, <2>2, <2>3, <2>4
<1>4. \A p \in Peer : Fit(p) /\ AtStage(p)
  BY ZenonT(30)
  DEF RegistryInit, Fit, AtStage, Early, Delisted, EntryIs, Outside, Entering, Away, After,
      RemoveStage
<1>5. InviteUseIsAdmission
  <2>1. \A c \in Code : {p \in Peer : via[p] = c} = {} /\ accepted[c] = 0
    BY ZenonT(30), NoCodeAssumption DEF RegistryInit, Init
  <2>2. QED
    BY ZenonT(30), <2>1, EmptySize DEF InviteUseIsAdmission
<1>6. JoinsRespectCapacity
  <2>1. \A o \in Object : peers[o] \ placed = {}
    BY DEF RegistryInit
  <2>2. \A o \in Object : Capacity(o) \in Nat
    BY Zenon, <1>1, KindsFit DEF Capacity
  <2>3. QED
    BY SMTT(30), <2>1, <2>2, EmptySize DEF JoinsRespectCapacity
<1>7. QED
  BY ZenonT(30), <1>1, <1>2, <1>3, <1>4, <1>5, <1>6 DEF RegistryIInv

\* Every step keeps it, and is a step of the store or none.
LEMMA NextRegistry == RegistryIInv /\ [RegistryNext]_registryVars => RegistryIInv' /\ [Next]_vars
<1> SUFFICES ASSUME RegistryIInv, [RegistryNext]_registryVars PROVE RegistryIInv' /\ [Next]_vars
  OBVIOUS
<1>1. ASSUME NEW p \in Peer,
             RemoveStep(p) \/ JoinStep(p) \/ CreateStep(p) \/ LeaveStep(p) \/ Request(p)
      PROVE  RegistryIInv' /\ [Next]_vars
  <2>1. Keeps(p) /\ Admits(p)
    BY ZenonT(30), <1>1, StepKeeps, StepAdmits DEF RegistryIInv
  <2>2. Shared(p) /\ Own(p) /\ Types' /\ Fit(p)' /\ AtStage(p)' /\ [Next]_vars
    BY ZenonT(30), <2>1 DEF Keeps, Own, Admits
  <2>3. \A q \in Peer : Fit(q)' /\ AtStage(q)'
    BY ZenonT(30), <2>2, OthersFit, OthersAtStage DEF RegistryIInv
  <2>4. Unmade' /\ Unkicked' /\ Lingering' /\ Tended'
    BY ZenonT(30), <2>2, UnmadeKept, UnkickedKept, LingeringKept, TendedKept DEF RegistryIInv
  <2>5. InviteUseIsAdmission' /\ JoinsRespectCapacity'
    BY ZenonT(30), <2>1, <2>2, UsesKept, CapacityKept DEF RegistryIInv
  <2>6. TypeOK'
    BY ZenonT(30), <2>2, StoreTypeInductive DEF RegistryIInv
  <2>7. QED
    BY ZenonT(30), <2>2, <2>3, <2>4, <2>5, <2>6 DEF RegistryIInv
<1>2. CASE UNCHANGED registryVars
  <2>1. UNCHANGED <<setup, entry, made, kind, peers, participants, index, pc, want, arc, fresh,
                    target, then, role, via, placed, storeVars>>
    BY <1>2 DEF registryVars, mapVars, objVars, taskVars, histVars
  <2>2. Types' /\ TypeOK' /\ [Next]_vars
    BY ZenonT(30), <2>1 DEF RegistryIInv, Types, TypeOK, storeVars, vars
  <2>3. Unmade' /\ Unkicked' /\ Lingering' /\ Tended'
    <3>1. Unmade'
      BY ZenonT(30), <2>1 DEF RegistryIInv, Unmade
    <3>2. Unkicked'
      BY ZenonT(30), <2>1 DEF RegistryIInv, Unkicked, Early
    <3>3. Lingering'
      BY ZenonT(30), <2>1 DEF RegistryIInv, Lingering, Removing
    <3>4. Tended'
      BY Zenon, <2>1 DEF RegistryIInv, Tended, Tends
    <3>5. QED
      BY Zenon, <3>1, <3>2, <3>3, <3>4
  <2>4. \A p \in Peer : Fit(p)' /\ AtStage(p)'
    BY ZenonT(30), <2>1 DEF RegistryIInv, Fit, AtStage, Early, Delisted, EntryIs
  <2>5. InviteUseIsAdmission' /\ JoinsRespectCapacity'
    BY ZenonT(30), <2>1
    DEF RegistryIInv, InviteUseIsAdmission, JoinsRespectCapacity, Capacity, storeVars, vars
  <2>6. QED
    BY ZenonT(30), <2>2, <2>3, <2>4, <2>5 DEF RegistryIInv
<1>3. QED
  BY <1>1, <1>2 DEF RegistryNext

\* The invariant in every reachable state.
LEMMA RegistryIInvAlways == RegistrySpec => []RegistryIInv
<1>1. RegistryIInv /\ [RegistryNext]_registryVars => RegistryIInv'
  BY NextRegistry
<1>2. QED
  BY <1>1, InitRegistry, PTL DEF RegistrySpec

\* Between any two lock acquisitions: whoever is in peer_to_room is on a peer list; a
\* connection that ended is not in the room of the map, unless a kick is about to take
\* it off; and when all connections of a channel's room have ended, so has the room.
THEOREM RegistryAlwaysConsistent == RegistrySpec => []RegistryInv
<1>1. RegistryIInv => RegistryInv
  <2> SUFFICES ASSUME RegistryIInv PROVE RegistryInv
    OBVIOUS
  <2>1. RegistryTypeOK
    BY ZenonT(30), TypeParts DEF RegistryIInv
  <2>2. IndexedIsMember
    BY DEF RegistryIInv, Types, AtStage, IndexedIsMember
  <2>3. ASSUME NEW p \in Peer, pc[p] = "closed"
        PROVE  /\ p \notin index
               /\ entry # None => /\ p \in peers[entry] => BeingRemoved(p)
                                  /\ kind[entry] = "sfu" => p \notin participants[entry]
    <3>1. p \notin index /\ pc[p] \notin Entering
      BY ZenonT(30), <2>3 DEF RegistryIInv, AtStage, Away, Entering
    <3>2. entry # None /\ p \in peers[entry] => BeingRemoved(p)
      BY Zenon, <3>1 DEF RegistryIInv, Lingering, Removing, BeingRemoved
    <3>3. entry # None /\ kind[entry] = "sfu" => p \notin participants[entry]
      BY ZenonT(30), <2>3 DEF RegistryIInv, AtStage, Delisted, EntryIs
    <3>4. QED
      BY ZenonT(30), <3>1, <3>2, <3>3
  <2>4. ClosedLeavesNothing
    BY ZenonT(30), <2>3 DEF ClosedLeavesNothing
  <2>5. ASSUME setup.channel, \A p \in Peer : pc[p] = "closed", entry # None PROVE FALSE
    <3>1. \A p \in Peer : ~Tends(p) /\ ~BeingRemoved(p)
      BY ZenonT(30), <2>5 DEF Tends, BeingRemoved
    <3>2. PICK p \in peers[entry] : p \in Peer
      BY <2>5, <3>1 DEF RegistryIInv, Tended, Types
    <3>3. QED
      BY ZenonT(30), <2>5, <3>1, <3>2, <2>4 DEF ClosedLeavesNothing
  <2>6. NoRoomOutlivesItsPeers
    BY Zenon, <2>5 DEF NoRoomOutlivesItsPeers
  <2>7. QED
    BY Zenon, <2>1, <2>2, <2>4, <2>6 DEF RegistryInv
<1>2. QED
  BY <1>1, RegistryIInvAlways, PTL

\* try_add_peer_with: the uses taken from an invite are the peers that it let in.
THEOREM UsesAreAdmissions == RegistrySpec => []InviteUseIsAdmission
<1>1. RegistryIInv => InviteUseIsAdmission
  BY Zenon DEF RegistryIInv
<1>2. QED
  BY <1>1, RegistryIInvAlways, PTL

\* The peers that came by a join are never more than the room has places.
THEOREM JoinsAlwaysRespectCapacity == RegistrySpec => []JoinsRespectCapacity
<1>1. RegistryIInv => JoinsRespectCapacity
  BY DEF RegistryIInv
<1>2. QED
  BY <1>1, RegistryIInvAlways, PTL

\* Whatever joins, CreateRooms and leaves do to the invites is what InviteStore does:
\* the registry implements it, so that its theorems hold here.
THEOREM RegistryImplementsStore == RegistrySpec => Spec
<1>1. RegistryInit => Init
  BY Zenon DEF RegistryInit
<1>2. RegistryIInv /\ [RegistryNext]_registryVars => [Next]_vars
  BY NextRegistry
<1>3. QED
  BY <1>1, <1>2, RegistryIInvAlways, PTL DEF RegistrySpec, Spec
=============================================================================
