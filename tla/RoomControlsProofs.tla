-------------------------- MODULE RoomControlsProofs --------------------------
(***************************************************************************)
(* RoomControls, for any number of connections, any length of the request  *)
(* budget and any limit of viewer windows: the records of a room keep      *)
(* their shape, a host mute holds, and viewer windows end with their       *)
(* participant.                                                            *)
(***************************************************************************)
EXTENDS RoomControls, TLAPS

(***************************************************************************)
(* What is well formed.                                                    *)
(***************************************************************************)
\* A list of participants with their flags.
Roster(f) == DOMAIN f \subseteq Peer /\ \A p \in DOMAIN f : f[p] \in Flags

\* What a client knows is well formed.
ViewOK(v) ==
    /\ v = [who |-> v.who, audio |-> v.audio, perm |-> v.perm]
    /\ DOMAIN v.who \subseteq Peer /\ \A q \in DOMAIN v.who : v.who[q] \in Known
    /\ v.audio \subseteq Peer /\ v.perm \in Perm

\* What a signal must say for the client to make sense of it.
MsgOK(m) ==
    \/ m.kind = "joined" /\ m.subj \in Perm /\ Roster(m.val)
    \/ m.kind = "room_state" /\ Roster(m.val)
    \/ m.kind = "participant_joined" /\ m.subj \in Peer
    \/ m.kind \in {"participant_left", "participant_kicked"}
    \/ m.kind \in {"muted", "unmuted", "self_muted", "self_unmuted", "deafened", "undeafened"}
    \/ m.kind = "permission" /\ m.val \in Perm
    \/ m.kind = "share_state"
    \/ m.kind = "share_started" /\ m.subj \in Peer /\ m.val \in Type \cup {None}
    \/ m.kind = "share_stopped"

\* The empty function.
LEMMA NothingThere == DOMAIN <<>> = {}
OBVIOUS

\* Signals to send.
SignalsOK(s) == s \in Seq({s[i] : i \in DOMAIN s}) /\ \A i \in DOMAIN s : MsgOK(s[i].msg)

\* One signal, two signals, a sequence of signals whose messages make sense.
LEMMA OneSignal == ASSUME NEW a, MsgOK(a.msg) PROVE SignalsOK(<<a>>)
BY DEF SignalsOK

LEMMA TwoSignals == ASSUME NEW a, NEW b, MsgOK(a.msg), MsgOK(b.msg) PROVE SignalsOK(<<a, b>>)
BY DEF SignalsOK

LEMMA Signals ==
    ASSUME NEW S, NEW s \in Seq(S), \A i \in DOMAIN s : MsgOK(s[i].msg)
    PROVE  SignalsOK(s)
<1>1. Len(s) \in Nat /\ s \in [1 .. Len(s) -> {s[i] : i \in DOMAIN s}]
  OBVIOUS
<1>2. \A T : Seq(T) = UNION {[1 .. n -> T] : n \in Nat}
  OBVIOUS
<1>3. s \in Seq({s[i] : i \in DOMAIN s})
  BY SMTT(30), <1>1, <1>2
<1>4. QED
  BY <1>3 DEF SignalsOK

\* What is left of the signals once the first is sent.
LEMMA HeadTail == ASSUME NEW s, SignalsOK(s), s # <<>>
                  PROVE MsgOK(Head(s).msg) /\ SignalsOK(Tail(s))
<1>1. PICK S : s \in Seq(S)
  BY DEF SignalsOK
<1>2. Len(s) \in Nat /\ Len(s) > 0 /\ DOMAIN s = 1 .. Len(s)
  BY <1>1
<1>3. Head(s) = s[1] /\ Tail(s) \in Seq(S) /\ Len(Tail(s)) = Len(s) - 1
  BY <1>1
<1>4. \A i \in DOMAIN Tail(s) : Tail(s)[i] = s[i + 1] /\ i + 1 \in DOMAIN s
  BY <1>1, <1>2, <1>3
<1>5. \A i \in DOMAIN Tail(s) : MsgOK(Tail(s)[i].msg)
  BY <1>4 DEF SignalsOK
<1>6. SignalsOK(Tail(s))
  BY Zenon, <1>3, <1>5, Signals
<1>7. MsgOK(Head(s).msg)
  BY <1>2, <1>3 DEF SignalsOK
<1>8. QED
  BY <1>6, <1>7

\* The three parts of a view change one at a time.
LEMMA NewWho ==
    ASSUME NEW v, ViewOK(v), NEW f, DOMAIN f \subseteq Peer, \A q \in DOMAIN f : f[q] \in Known
    PROVE  ViewOK([v EXCEPT !.who = f])
BY DEF ViewOK

LEMMA NewAudio ==
    ASSUME NEW v, ViewOK(v), NEW A \in SUBSET Peer
    PROVE  /\ ViewOK([v EXCEPT !.audio = A]) /\ [v EXCEPT !.audio = A].who = v.who
BY DEF ViewOK

LEMMA NewPerm ==
    ASSUME NEW v, ViewOK(v), NEW x \in Perm
    PROVE  ViewOK([v EXCEPT !.perm = x])
BY DEF ViewOK

\* A client changes what it knows of a participant only if it lists it.
LEMMA AmendKeeps ==
    ASSUME NEW v, ViewOK(v), NEW p, NEW k, p \in DOMAIN v.who => k \in Known
    PROVE  ViewOK(Amend(v, p, k))
<1>1. CASE p \notin DOMAIN v.who
  BY <1>1 DEF Amend
<1>2. CASE p \in DOMAIN v.who
  <2> DEFINE f == [v.who EXCEPT ![p] = k]
  <2>1. Amend(v, p, k) = [v EXCEPT !.who = f]
    BY <1>2 DEF Amend
  <2>2. DOMAIN f \subseteq Peer /\ \A q \in DOMAIN f : f[q] \in Known
    BY <1>2 DEF ViewOK
  <2> HIDE DEF f
  <2>3. QED
    BY <2>1, <2>2, NewWho
<1>3. QED
  BY <1>1, <1>2

\* A participant the client had not heard of.
LEMMA StrangerKnown == ASSUME NEW f \in Flags PROVE Stranger(f) \in Known
BY DEF Stranger, Flags, Known

\* The flags of a participant that has just joined.
LEMMA FreshFlags == Fresh \in Flags
BY DEF Fresh, Flags

\* A signal leaves the view of a client well formed.
LEMMA DeliverKeeps ==
    ASSUME NEW v, ViewOK(v), NEW m, MsgOK(m)
    PROVE  ViewOK(Deliver(v, m))
<1> DEFINE s == m.subj
           it == v.who[s]
           strangers == [p \in DOMAIN m.val |-> Stranger(m.val[p])]
           audio == IF m.val \in {"audio", None} THEN v.audio \ {s} ELSE v.audio
           cleared == IF m.val = "audio" /\ s \in DOMAIN v.who THEN it.video ELSE None
<1>0. /\ DOMAIN v.who \subseteq Peer /\ \A q \in DOMAIN v.who : v.who[q] \in Known
      /\ v.audio \subseteq Peer /\ v.perm \in Perm
  BY DEF ViewOK
<1>1. CASE m.kind = "joined"
  <2>1. Deliver(v, m) = [who |-> strangers, audio |-> v.audio, perm |-> s]
    BY <1>1 DEF Deliver
  <2>2. DOMAIN strangers \subseteq Peer /\ \A q \in DOMAIN strangers : strangers[q] \in Known
    BY <1>1, StrangerKnown DEF MsgOK, Roster
  <2>3. s \in Perm
    BY <1>1 DEF MsgOK
  <2>4. QED
    BY <1>0, <2>1, <2>2, <2>3 DEF ViewOK
<1>2. CASE m.kind = "room_state"
  <2> DEFINE f == Over(strangers, v.who)
  <2>1. Deliver(v, m) = [v EXCEPT !.who = f]
    BY <1>2 DEF Deliver
  <2>2. DOMAIN strangers \subseteq Peer /\ \A q \in DOMAIN strangers : strangers[q] \in Known
    BY <1>2, StrangerKnown DEF MsgOK, Roster
  <2>3. DOMAIN f \subseteq Peer /\ \A q \in DOMAIN f : f[q] \in Known
    BY <1>0, <2>2 DEF Over
  <2>4. QED
    BY <2>1, <2>3, NewWho
<1>3. CASE m.kind = "participant_joined"
  <2> DEFINE f == Put(v.who, s, Stranger(Fresh))
  <2>1. Deliver(v, m) = [v EXCEPT !.who = f]
    BY <1>3 DEF Deliver
  <2>2. s \in Peer /\ Stranger(Fresh) \in Known
    BY <1>3, StrangerKnown, FreshFlags DEF MsgOK
  <2>3. DOMAIN f \subseteq Peer /\ \A q \in DOMAIN f : f[q] \in Known
    BY <1>0, <2>2 DEF Put
  <2>4. QED
    BY <2>1, <2>3, NewWho
<1>4. CASE m.kind \in {"participant_left", "participant_kicked"}
  <2> DEFINE f == Drop(v.who, s)
  <2>1. Deliver(v, m) = [v EXCEPT !.who = f]
    BY <1>4 DEF Deliver
  <2>2. DOMAIN f \subseteq Peer /\ \A q \in DOMAIN f : f[q] \in Known
    BY <1>0 DEF Drop, Restrict
  <2>3. QED
    BY SMTT(30), <2>1, <2>2, NewWho
<1>5. CASE m.kind \in {"muted", "unmuted", "self_muted", "self_unmuted", "deafened", "undeafened"}
  <2>1. \E k : (s \in DOMAIN v.who => k \in Known) /\ Deliver(v, m) = Amend(v, s, k)
    <3>1. s \in DOMAIN v.who => it \in Known
      BY <1>0
    <3>2. \A b \in BOOLEAN :
            s \in DOMAIN v.who =>
              /\ [it EXCEPT !.muted = TRUE, !.host = TRUE] \in Known
              /\ [it EXCEPT !.muted = b] \in Known /\ [it EXCEPT !.host = b] \in Known
              /\ [it EXCEPT !.deaf = b] \in Known
      BY Zenon, <3>1 DEF Known
    <3>3. \/ Deliver(v, m) = Amend(v, s, [it EXCEPT !.muted = TRUE, !.host = TRUE])
          \/ \E b \in BOOLEAN : \/ Deliver(v, m) = Amend(v, s, [it EXCEPT !.muted = b])
                                \/ Deliver(v, m) = Amend(v, s, [it EXCEPT !.host = b])
                                \/ Deliver(v, m) = Amend(v, s, [it EXCEPT !.deaf = b])
      BY Zenon, <1>5 DEF Deliver
    <3>4. QED
      BY Zenon, <3>2, <3>3
  <2>2. QED
    BY <2>1, AmendKeeps
<1>6. CASE m.kind = "permission"
  <2>1. Deliver(v, m) = [v EXCEPT !.perm = m.val] /\ m.val \in Perm
    BY <1>6 DEF Deliver, MsgOK
  <2>2. QED
    BY <2>1, NewPerm
<1>7. CASE m.kind = "share_state"
  <2> DEFINE typed(p) == p \in DOMAIN m.val /\ m.val[p] # {}
             video(p) == IF typed(p) /\ m.val[p] \cap Video # {}
                           THEN CHOOSE t \in m.val[p] : t \in Video ELSE None
             known == DOMAIN v.who
             f == [p \in known |->
                     [v.who[p] EXCEPT
                        !.sharing = p \in m.subj,
                        !.video = IF p \in m.subj THEN video(p)
                                  ELSE IF v.who[p].sharing THEN None ELSE v.who[p].video]]
             A == {p \in v.audio \cup known :
                     IF p \in m.subj /\ p \in known /\ typed(p)
                       THEN "audio" \in m.val[p]
                     ELSE p \in v.audio
                          /\ ~(p \in known /\ p \notin m.subj /\ v.who[p].sharing)}
  <2>1. Deliver(v, m) = [v EXCEPT !.who = f, !.audio = A]
    BY Zenon, <1>7 DEF Deliver, ShareState
  <2>2. \A p : video(p) \in Video \cup {None}
    BY Zenon
  <2>3. ASSUME NEW q \in known PROVE f[q] \in Known
    <3> DEFINE x == IF q \in m.subj THEN video(q)
                    ELSE IF v.who[q].sharing THEN None ELSE v.who[q].video
    <3>1. f[q] = [v.who[q] EXCEPT !.sharing = q \in m.subj, !.video = x]
      BY Zenon
    <3>2. v.who[q] \in Known /\ v.who[q].video \in Video \cup {None}
      BY <1>0 DEF Known
    <3> HIDE DEF video, f
    <3>3. x \in Video \cup {None}
      <4>1. x \in {video(q), None, v.who[q].video}
        BY Zenon
      <4>2. video(q) \in Video \cup {None}
        BY Zenon, <2>2
      <4> HIDE DEF x
      <4>3. QED
        BY Zenon, <3>2, <4>1, <4>2
    <3> HIDE DEF x
    <3>4. \A b \in BOOLEAN : [v.who[q] EXCEPT !.sharing = b, !.video = x] \in Known
      BY Zenon, <3>2, <3>3 DEF Known
    <3>5. (q \in m.subj) \in BOOLEAN
      BY SMT
    <3>6. QED
      BY Zenon, <3>1, <3>4, <3>5
  <2>4. A \subseteq Peer
    BY <1>0
  <2>5. DOMAIN f \subseteq Peer
    BY <1>0
  <2>6. QED
    BY Zenon, <1>0, <2>1, <2>3, <2>4, <2>5 DEF ViewOK
<1>8. CASE m.kind = "share_started"
  <2>1. s \in Peer /\ m.val \in Type \cup {None}
    BY <1>8 DEF MsgOK
  <2>2. CASE m.val = "audio"
    <3> DEFINE w == [v EXCEPT !.audio = v.audio \cup {s}]
    <3>1. Deliver(v, m) = Amend(w, s, [it EXCEPT !.sharing = TRUE])
      BY <1>8, <2>2 DEF Deliver
    <3>2. ViewOK(w) /\ w.who = v.who
      BY <1>0, <2>1, NewAudio
    <3>3. s \in DOMAIN v.who => [it EXCEPT !.sharing = TRUE] \in Known
      BY Zenon, <1>0 DEF Known
    <3>4. QED
      BY Zenon, <3>1, <3>2, <3>3, AmendKeeps
  <2>3. CASE m.val # "audio"
    <3>1. Deliver(v, m) = Amend(v, s, [it EXCEPT !.sharing = TRUE, !.video = m.val])
      BY <1>8, <2>3 DEF Deliver
    <3>2. s \in DOMAIN v.who => [it EXCEPT !.sharing = TRUE, !.video = m.val] \in Known
      BY ZenonT(30), <1>0, <2>1, <2>3 DEF Known, Type
    <3>3. QED
      BY <3>1, <3>2, AmendKeeps
  <2>4. QED
    BY <2>2, <2>3
<1>9. CASE m.kind = "share_stopped"
  <2> DEFINE w == [v EXCEPT !.audio = audio]
             k == [it EXCEPT !.video = cleared, !.sharing = cleared # None \/ s \in audio]
  <2>1. Deliver(v, m) = Amend(w, s, k)
    BY <1>9 DEF Deliver
  <2>2. ViewOK(w) /\ w.who = v.who
    <3>1. audio \in SUBSET Peer
      BY <1>0
    <3>2. QED
      BY <3>1, NewAudio
  <2>3. ASSUME s \in DOMAIN v.who PROVE k \in Known
    <3>1. cleared \in Video \cup {None} /\ it \in Known
      BY <1>0, <2>3 DEF Known
    <3>2. QED
      BY Zenon, <3>1 DEF Known
  <2> HIDE DEF w, k
  <2>4. QED
    BY <2>1, <2>2, <2>3, AmendKeeps
<1>10. QED
  BY <1>1, <1>2, <1>3, <1>4, <1>5, <1>6, <1>7, <1>8, <1>9 DEF MsgOK

(***************************************************************************)
(* The tasks.                                                              *)
(***************************************************************************)
\* What a task in a place may hold: the message o, the copy c of the participants,
\* the signals g and the recipients r.
TaskFits(place, o, c, g, r) ==
    /\ Roster(c) /\ SignalsOK(g) /\ r \subseteq Peer
    /\ place = "cast" => g # <<>>
    /\ place # "cast" => r = {}
    /\ o.kind = "permit" => o.val \in Perm
    /\ o.kind = "start_share" => o.val \in Type \cup {None}
    /\ o.kind = "kick" => o.subj \in Peer /\ o = [kind |-> "kick", subj |-> o.subj, val |-> None]
    /\ place \in {"take", "remove", "delist"} => o.kind = "kick"
    /\ place \in {"leave", "drop", "unlist"} => o.kind = "leave"
    /\ place \in {"add", "list", "snapshot"} => o.kind = "join"

TaskOK(p) == TaskFits(pc[p], op[p], snap[p], out[p], todo[p])

Shapes ==
    /\ pc \in [Peer -> Place]
    /\ DOMAIN op = Peer /\ DOMAIN snap = Peer /\ DOMAIN out = Peer /\ DOMAIN todo = Peer

Tasks == Shapes /\ \A p \in Peer : TaskOK(p)

\* A step of p moves no other task.
Only(p) ==
    /\ Shapes'
    /\ \A q \in Peer \ {p} :
         /\ pc'[q] = pc[q] /\ op'[q] = op[q] /\ snap'[q] = snap[q]
         /\ out'[q] = out[q] /\ todo'[q] = todo[q]

\* The tasks that do not move still fit.
LEMMA OthersFit ==
    ASSUME Tasks, NEW p \in Peer, Only(p), TaskOK(p)'
    PROVE  Tasks'
<1>1. ASSUME NEW q \in Peer \ {p} PROVE TaskOK(q)'
  <2>1. TaskOK(q)
    BY Zenon, <1>1 DEF Tasks
  <2>2. QED
    BY Zenon, <1>1, <2>1 DEF Only, TaskOK
<1>2. QED
  BY Zenon, <1>1 DEF Only, Tasks

\* The ways in which a handler goes on.
LEMMA FinishMoves ==
    ASSUME Tasks, NEW p \in Peer, pc[p] # "cast", Finish(p)
    PROVE  Only(p) /\ TaskOK(p)' /\ pc'[p] = "idle"
<1>1. Shapes /\ TaskOK(p)
  BY Zenon DEF Tasks
<1>2. Only(p)
  BY <1>1 DEF Only, Shapes, Finish, GoTo, Place
<1>3. /\ pc'[p] = "idle" /\ op'[p] = NoOp /\ snap'[p] = <<>>
      /\ out'[p] = out[p] /\ todo'[p] = todo[p]
  BY <1>1 DEF Shapes, Finish, GoTo
<1>4. Roster(<<>>) /\ SignalsOK(out[p]) /\ todo[p] = {}
  BY <1>1 DEF TaskOK, TaskFits, Roster
<1>5. TaskFits("idle", NoOp, <<>>, out[p], todo[p])
  BY <1>4 DEF TaskFits, NoOp, None
<1>6. QED
  BY Zenon, <1>2, <1>3, <1>5 DEF TaskOK

LEMMA ProceedMoves ==
    ASSUME Tasks, NEW p \in Peer, NEW place \in Place \ {"cast"}, pc[p] # "cast",
           GoTo(p, place), UNCHANGED <<op, snap, out, todo>>,
           place \in {"take", "remove", "delist"} => op[p].kind = "kick",
           place \in {"leave", "drop", "unlist"} => op[p].kind = "leave",
           place \in {"add", "list", "snapshot"} => op[p].kind = "join"
    PROVE  Only(p) /\ TaskOK(p)' /\ pc'[p] = place /\ op'[p] = op[p]
<1>1. Shapes /\ TaskOK(p)
  BY Zenon DEF Tasks
<1>2. Only(p)
  BY <1>1 DEF Only, Shapes, GoTo
<1>3. /\ pc'[p] = place /\ op'[p] = op[p] /\ snap'[p] = snap[p]
      /\ out'[p] = out[p] /\ todo'[p] = todo[p]
  BY <1>1 DEF Shapes, GoTo
<1>4. TaskFits(place, op[p], snap[p], out[p], todo[p])
  BY <1>1 DEF TaskOK, TaskFits
<1>5. QED
  BY Zenon, <1>2, <1>3, <1>4 DEF TaskOK

LEMMA DispatchMoves ==
    ASSUME Tasks, NEW p \in Peer, NEW signals, SignalsOK(signals), signals # <<>>,
           out' = [out EXCEPT ![p] = signals], GoTo(p, "cast"), UNCHANGED <<op, snap, todo>>
    PROVE  Only(p) /\ TaskOK(p)' /\ pc'[p] = "cast" /\ op'[p] = op[p]
<1>1. Shapes /\ TaskOK(p)
  BY Zenon DEF Tasks
<1>2. Only(p)
  BY <1>1 DEF Only, Shapes, GoTo, Place
<1>3. /\ pc'[p] = "cast" /\ op'[p] = op[p] /\ snap'[p] = snap[p]
      /\ out'[p] = signals /\ todo'[p] = todo[p]
  BY <1>1 DEF Shapes, GoTo
<1>4. TaskFits("cast", op[p], snap[p], signals, todo[p])
  BY <1>1 DEF TaskOK, TaskFits
<1>5. QED
  BY Zenon, <1>2, <1>3, <1>4 DEF TaskOK

\* A request that a task begins to handle.
LEMMA AskMoves ==
    ASSUME Tasks, NEW p \in Peer, NEW k, NEW subj, NEW val, NEW place \in {"apply", "role", "token", "leave"},
           Ask(p, k, subj, val, place), snap' = snap \/ snap' = [snap EXCEPT ![p] = listed],
           Roster(listed),
           k = "permit" => val \in Perm,
           k = "start_share" => val \in Type \cup {None},
           k = "kick" => subj \in Peer /\ val = None,
           place = "leave" => k = "leave"
    PROVE  Only(p) /\ TaskOK(p)' /\ pc'[p] = place /\ op'[p].kind = k
<1> DEFINE o == [kind |-> k, subj |-> subj, val |-> val]
<1>1. Shapes /\ TaskOK(p)
  BY Zenon DEF Tasks
<1>2. Only(p)
  BY <1>1 DEF Only, Shapes, Ask, GoTo, Place
<1>3. /\ pc'[p] = place /\ op'[p] = o /\ snap'[p] \in {snap[p], listed}
      /\ out'[p] = out[p] /\ todo'[p] = todo[p] /\ pc[p] = "idle"
  BY <1>1 DEF Shapes, Ask, GoTo
<1>4. SignalsOK(out[p]) /\ todo[p] = {} /\ Roster(snap'[p])
  BY <1>1, <1>3 DEF TaskOK, TaskFits
<1>5. TaskFits(place, o, snap'[p], out[p], todo[p])
  BY <1>4 DEF TaskFits
<1>6. o.kind = k
  OBVIOUS
<1> HIDE DEF o
<1>7. QED
  BY Zenon, <1>2, <1>3, <1>5, <1>6 DEF TaskOK

(***************************************************************************)
(* The inductive invariant.                                                *)
(***************************************************************************)
\* The participants' flags.
ListOK == Roster(listed) /\ HostMuteHolds

\* The shares.
ShareOK ==
    /\ sharing \subseteq Peer
    /\ \A p \in DOMAIN types : types[p] \subseteq Type
    /\ SlotsExclusive

RestOK ==
    /\ peers \subseteq Peer /\ perm \in Perm
    /\ viewers \in [Peer -> 0 .. MaxViewers]
    /\ revoked \subseteq Peer /\ late \subseteq Peer /\ left \in 0 .. Budget

ViewsOK == DOMAIN view = Peer /\ \A p \in Peer : ViewOK(view[p])

\* A leaving task has given up its windows ...
Left(p) ==
    pc[p] \in {"drop", "unlist", "closed"} \/ (pc[p] = "cast" /\ op[p].kind = "leave")
      => viewers[p] = 0

\* ... and a kick has taken those of its target, or the target asked too late.
Kicked(p) ==
    pc[p] \in {"remove", "delist"} => viewers[op[p].subj] = 0 \/ op[p].subj \in late

Watch ==
    /\ peers = {} => \A p \in Peer : viewers[p] = 0
    /\ \A p \in Peer : Left(p) /\ Kicked(p)
    /\ \A p \in Peer : p \notin peers /\ ~KickUnderWay(p) /\ p \notin late => viewers[p] = 0

ControlsInv == ListOK /\ ShareOK /\ RestOK /\ ViewsOK /\ Tasks /\ Watch


\* What a step of p does to the tasks.
Moves(p) == Only(p) /\ TaskOK(p)'

\* A message is taken from the socket: the task holds it, and a host's message a copy
\* of the participants.
LEMMA MessageMoves ==
    ASSUME Tasks, ListOK, ViewsOK, NEW p \in Peer, Message(p)
    PROVE  Moves(p) /\ pc'[p] \in {"apply", "role", "token", "leave"}
<1>0. Roster(listed) /\ DOMAIN view[p].who \subseteq Peer
  BY Zenon DEF ListOK, ViewsOK, ViewOK
<1>1. ASSUME NEW k \in {"self_mute", "self_unmute", "self_deafen", "self_undeafen"},
             AskSelfFlag(p, k)
      PROVE  Moves(p) /\ pc'[p] = "apply"
  <2>1. Ask(p, k, p, None, "apply") /\ snap' = snap
    BY Zenon, <1>1 DEF AskSelfFlag
  <2>2. k # "permit" /\ k # "start_share" /\ k # "kick"
    BY <1>1
  <2>3. QED
    BY Zenon, <1>0, <2>1, <2>2, AskMoves DEF Moves
<1>2. ASSUME NEW k \in {"kick", "mute", "unmute"}, NEW t \in DOMAIN view[p].who, AskHost(p, k, t, None)
      PROVE  Moves(p) /\ pc'[p] = "role"
  <2>1. Ask(p, k, t, None, "role") /\ snap' = [snap EXCEPT ![p] = listed]
    BY Zenon, <1>2 DEF AskHost
  <2>2. k # "permit" /\ k # "start_share" /\ t \in Peer
    BY <1>0, <1>2
  <2>3. QED
    BY Zenon, <1>0, <2>1, <2>2, AskMoves DEF Moves
<1>3. ASSUME NEW v \in Perm, AskHost(p, "permit", None, v)
      PROVE  Moves(p) /\ pc'[p] = "role"
  <2>1. Ask(p, "permit", None, v, "role") /\ snap' = [snap EXCEPT ![p] = listed]
    BY Zenon, <1>3 DEF AskHost
  <2>2. QED
    BY Zenon, <1>0, <1>3, <2>1, AskMoves DEF Moves
<1>4. ASSUME NEW t \in Type \cup {None}, AskStartShare(p, t)
      PROVE  Moves(p) /\ pc'[p] = "apply"
  <2>1. Ask(p, "start_share", p, t, "apply") /\ snap' = snap
    BY Zenon, <1>4 DEF AskStartShare
  <2>2. QED
    BY Zenon, <1>0, <1>4, <2>1, AskMoves DEF Moves
<1>5. ASSUME NEW t, NEW q, AskStopShare(p, q, t)
      PROVE  Moves(p) /\ pc'[p] = "apply"
  <2>1. Ask(p, "stop_share", q, t, "apply") /\ snap' = snap
    BY Zenon, <1>5 DEF AskStopShare
  <2>2. QED
    BY Zenon, <1>0, <2>1, AskMoves DEF Moves
<1>6. ASSUME AskStopAll(p) PROVE Moves(p) /\ pc'[p] = "apply"
  <2>1. Ask(p, "stop_all", None, None, "apply") /\ snap' = snap
    BY Zenon, <1>6 DEF AskStopAll
  <2>2. QED
    BY Zenon, <1>0, <2>1, AskMoves DEF Moves
<1>7. ASSUME AskViewer(p) PROVE Moves(p) /\ pc'[p] = "token"
  <2>1. Ask(p, "viewer", p, None, "token") /\ snap' = snap
    BY Zenon, <1>7 DEF AskViewer
  <2>2. QED
    BY Zenon, <1>0, <2>1, AskMoves DEF Moves
<1>8. ASSUME Leave(p) PROVE Moves(p) /\ pc'[p] = "leave"
  <2>1. Ask(p, "leave", None, None, "leave") /\ snap' = snap
    BY Zenon, <1>8 DEF Leave
  <2>2. QED
    BY Zenon, <1>0, <2>1, AskMoves DEF Moves
<1>9. ASSUME NEW t \in DOMAIN view[p].who \ {p},
             \/ AskHost(p, "kick", t, None)
             \/ AskHost(p, IF view[p].who[t].host THEN "unmute" ELSE "mute", t, None)
      PROVE  Moves(p) /\ pc'[p] = "role"
  <2>1. \E k \in {"kick", "mute", "unmute"} : AskHost(p, k, t, None)
    BY Zenon, <1>9
  <2>2. QED
    BY Zenon, <1>2, <1>9, <2>1
<1>10. QED
  BY Zenon, <1>1, <1>9, <1>3, <1>4, <1>5, <1>6, <1>7, <1>8 DEF Message

\* A join begins with a copy of the participants.
LEMMA JoinMoves ==
    ASSUME Tasks, ListOK, NEW p \in Peer, Join(p)
    PROVE  Moves(p) /\ pc'[p] = "add"
<1>1. Shapes /\ TaskOK(p)
  BY Zenon DEF Tasks
<1>2. Only(p)
  BY <1>1 DEF Only, Shapes, Join, GoTo, Place
<1> DEFINE o == [NoOp EXCEPT !.kind = "join"]
<1>3. /\ pc'[p] = "add" /\ op'[p] = o /\ snap'[p] = listed
      /\ out'[p] = out[p] /\ todo'[p] = todo[p] /\ pc[p] = "outside"
  BY <1>1 DEF Shapes, Join, GoTo
<1>4. SignalsOK(out[p]) /\ todo[p] = {} /\ Roster(listed)
  BY <1>1, <1>3 DEF TaskOK, TaskFits, ListOK
<1>5. TaskFits("add", o, listed, out[p], todo[p])
  BY <1>4 DEF TaskFits, NoOp, None
<1> HIDE DEF o
<1>6. QED
  BY Zenon, <1>2, <1>3, <1>5 DEF TaskOK, Moves

\* A closed socket goes on to leave_room, or ends where the room is gone.
LEMMA DisconnectMoves ==
    ASSUME Tasks, NEW p \in Peer, Disconnect(p)
    PROVE  Moves(p) /\ pc'[p] \in {"closed", "unshare"} /\ (pc'[p] = "closed" => peers = {})
<1>1. ASSUME NEW x \in {"closed", "unshare"}, GoTo(p, x) PROVE Moves(p) /\ pc'[p] = x
  <2>1. pc[p] # "cast" /\ UNCHANGED <<op, snap, out, todo>>
    BY DEF Disconnect
  <2>2. x \in Place \ {"cast"} /\ x \notin {"take", "remove", "delist"} /\ x \notin {"leave", "drop", "unlist"}
       /\ x \notin {"add", "list", "snapshot"}
    BY <1>1 DEF Place
  <2>3. QED
    BY Zenon, <1>1, <2>1, <2>2, ProceedMoves DEF Moves
<1>2. CASE peers = {}
  BY Zenon, <1>1, <1>2 DEF Disconnect
<1>3. CASE peers # {}
  <2>1. pc'[p] = "unshare" /\ Moves(p)
    BY Zenon, <1>1, <1>3 DEF Disconnect
  <2>2. QED
    BY <2>1
<1>4. QED
  BY <1>2, <1>3


\* Where p goes says nothing of viewer windows.
Calm(p) ==
    /\ pc'[p] \notin {"drop", "unlist", "closed", "remove", "delist"}
    /\ ~(pc'[p] = "cast" /\ op'[p].kind = "leave")

\* A handler that ends without a signal.
LEMMA FinishCalm ==
    ASSUME Tasks, NEW p \in Peer, pc[p] # "cast", Finish(p)
    PROVE  Moves(p) /\ Calm(p)
BY FinishMoves DEF Moves, Calm

\* One signal and the end of the handler's work on the room.
LEMMA CastCalm ==
    ASSUME Tasks, NEW p \in Peer, NEW signals, SignalsOK(signals), signals # <<>>,
           op[p].kind # "leave",
           out' = [out EXCEPT ![p] = signals], GoTo(p, "cast"), UNCHANGED <<op, snap, todo>>
    PROVE  Moves(p) /\ Calm(p)
<1>1. Only(p) /\ TaskOK(p)' /\ pc'[p] = "cast" /\ op'[p] = op[p]
  BY Zenon, DispatchMoves
<1>2. QED
  BY <1>1 DEF Moves, Calm

\* The signals that say no more than whom they are about.
LEMMA SaysOK ==
    /\ \A to, k, s, v : Signal(to, k, s, v).msg = [kind |-> k, subj |-> s, val |-> v]
    /\ \A to, s, v : \A k \in {"muted", "unmuted", "self_muted", "self_unmuted", "deafened",
                                "undeafened", "participant_left", "participant_kicked",
                                "share_state", "share_stopped"} :
         MsgOK(Signal(to, k, s, v).msg)
<1>1. \A to, k, s, v : Signal(to, k, s, v).msg = [kind |-> k, subj |-> s, val |-> v]
  BY DEF Signal
<1>2. ASSUME NEW to, NEW s, NEW v,
             NEW k \in {"muted", "unmuted", "self_muted", "self_unmuted", "deafened",
                       "undeafened", "participant_left", "participant_kicked",
                       "share_state", "share_stopped"}
      PROVE  MsgOK(Signal(to, k, s, v).msg)
  <2> DEFINE m == Signal(to, k, s, v).msg
  <2>1. m.kind = k
    BY DEF Signal
  <2> HIDE DEF m
  <2>2. MsgOK(m)
    BY Zenon, <1>2, <2>1 DEF MsgOK
  <2>3. QED
    BY <2>2 DEF m
<1>3. QED
  BY Zenon, <1>1, <1>2

\* A handler that sends one signal.
LEMMA SpeakCalm ==
    ASSUME Tasks, NEW p \in Peer, NEW a, MsgOK(a.msg), op[p].kind # "leave",
           out' = [out EXCEPT ![p] = <<a>>], GoTo(p, "cast"), UNCHANGED <<op, snap, todo>>
    PROVE  Moves(p) /\ Calm(p)
<1>1. SignalsOK(<<a>>) /\ <<a>> # <<>>
  BY OneSignal
<1>2. QED
  BY Zenon, <1>1, CastCalm

\* handle_self_flag.
LEMMA SelfFlagMoves ==
    ASSUME Tasks, NEW p \in Peer, ApplySelfFlag(p)
    PROVE  Moves(p) /\ Calm(p)
<1>1. CASE p \notin peers
  BY <1>1, FinishCalm DEF ApplySelfFlag
<1>2. CASE p \in peers
  <2> DEFINE k == op[p].kind
             a == Signal("all", ToggleSignal(k), p, None)
  <2>1. /\ out' = [out EXCEPT ![p] = <<a>>] /\ GoTo(p, "cast") /\ UNCHANGED <<op, snap, todo>>
        /\ k \in {"self_mute", "self_unmute", "self_deafen", "self_undeafen"}
    BY Zenon, <1>2 DEF ApplySelfFlag
  <2>2. ToggleSignal(k) \in {"self_muted", "self_unmuted", "deafened", "undeafened"}
    BY <2>1 DEF ToggleSignal
  <2>3. MsgOK(a.msg) /\ k # "leave"
    BY <2>1, <2>2, SaysOK
  <2> HIDE DEF a
  <2>4. QED
    BY Zenon, <2>1, <2>3, SpeakCalm
<1>3. QED
  BY <1>1, <1>2

\* resolve_effective_role and the search for the target.
LEMMA RoleMoves ==
    ASSUME Tasks, NEW p \in Peer, ResolveRole(p) \/ CheckTarget(p)
    PROVE  Moves(p) /\ Calm(p)
<1>0. Shapes /\ TaskOK(p)
  BY Zenon DEF Tasks
<1>1. CASE Finish(p)
  <2>1. pc[p] # "cast"
    BY DEF ResolveRole, CheckTarget
  <2>2. QED
    BY Zenon, <1>1, <2>1, FinishCalm
<1>2. CASE ResolveRole(p) /\ ~Finish(p)
  <2> DEFINE x == IF op[p].kind = "permit" THEN "apply" ELSE "check"
  <2>1. x \in {"apply", "check"} /\ GoTo(p, x) /\ snap' = [snap EXCEPT ![p] = <<>>]
        /\ UNCHANGED <<op, out, todo>> /\ pc[p] = "role"
    BY <1>2 DEF ResolveRole
  <2> HIDE DEF x
  <2>2. Only(p)
    BY <1>0, <2>1 DEF Only, Shapes, GoTo, Place
  <2>3. /\ pc'[p] = x /\ op'[p] = op[p] /\ snap'[p] = <<>>
        /\ out'[p] = out[p] /\ todo'[p] = todo[p]
    BY Zenon, <1>0, <2>1 DEF Shapes, GoTo
  <2>4. TaskFits(x, op[p], <<>>, out[p], todo[p])
    BY <1>0, <2>1 DEF TaskOK, TaskFits, Roster
  <2>5. Moves(p)
    BY Zenon, <2>2, <2>3, <2>4 DEF TaskOK, Moves
  <2>6. QED
    BY <2>1, <2>3, <2>5 DEF Calm
<1>3. CASE CheckTarget(p) /\ ~Finish(p)
  <2> DEFINE x == IF op[p].kind = "kick" THEN "take" ELSE "apply"
  <2>1. Proceed(p, x) /\ pc[p] = "check"
    BY Zenon, <1>3 DEF CheckTarget
  <2>2. x \in Place \ {"cast"} /\ (x = "take" => op[p].kind = "kick") /\ x \in {"take", "apply"}
    BY DEF Place
  <2> HIDE DEF x
  <2>3. /\ x \in {"take", "remove", "delist"} => op[p].kind = "kick"
        /\ x \in {"leave", "drop", "unlist"} => op[p].kind = "leave"
        /\ x \in {"add", "list", "snapshot"} => op[p].kind = "join"
    BY <2>2
  <2>4. GoTo(p, x) /\ UNCHANGED <<op, snap, out, todo>> /\ pc[p] # "cast"
    BY <2>1 DEF Proceed
  <2>5. Only(p) /\ TaskOK(p)' /\ pc'[p] = x
    BY Zenon, <2>2, <2>3, <2>4, ProceedMoves
  <2>6. QED
    BY <2>2, <2>5 DEF Moves, Calm
<1>4. QED
  BY <1>1, <1>2, <1>3

\* handle_mute, handle_unmute and the share permission.
LEMMA HostMoves ==
    ASSUME Tasks, NEW p \in Peer, ApplyMute(p) \/ ApplyPermission(p)
    PROVE  Moves(p) /\ Calm(p)
<1>0. TaskOK(p)
  BY Zenon DEF Tasks
<1>1. CASE Finish(p)
  <2>1. pc[p] # "cast"
    BY DEF ApplyMute, ApplyPermission
  <2>2. QED
    BY Zenon, <1>1, <2>1, FinishCalm
<1>2. CASE ApplyMute(p)
  <2> DEFINE a == Signal("all", IF op[p].kind = "mute" THEN "muted" ELSE "unmuted", op[p].subj, None)
  <2>1. Dispatch(p, <<a>>) /\ op[p].kind \in {"mute", "unmute"}
    BY Zenon, <1>2 DEF ApplyMute
  <2>2. MsgOK(a.msg) /\ op[p].kind # "leave"
    BY <2>1, SaysOK
  <2> HIDE DEF a
  <2>3. out' = [out EXCEPT ![p] = <<a>>] /\ GoTo(p, "cast") /\ UNCHANGED <<op, snap, todo>>
    BY <2>1 DEF Dispatch
  <2>4. QED
    BY Zenon, <2>2, <2>3, SpeakCalm
<1>3. CASE ApplyPermission(p) /\ ~Finish(p)
  <2> DEFINE a == Signal("all", "permission", None, op[p].val)
  <2>1. Dispatch(p, <<a>>) /\ op[p].kind = "permit"
    BY Zenon, <1>3 DEF ApplyPermission
  <2>2. op[p].val \in Perm
    BY Zenon, <1>0, <2>1 DEF TaskOK, TaskFits
  <2>3. MsgOK(a.msg) /\ op[p].kind # "leave"
    BY <2>1, <2>2 DEF MsgOK, Signal
  <2> HIDE DEF a
  <2>4. out' = [out EXCEPT ![p] = <<a>>] /\ GoTo(p, "cast") /\ UNCHANGED <<op, snap, todo>>
    BY <2>1 DEF Dispatch
  <2>5. QED
    BY Zenon, <2>3, <2>4, SpeakCalm
<1>4. QED
  BY <1>1, <1>2, <1>3


\* The first two steps of a kick, which know their target.
LEMMA KickTakeMoves ==
    ASSUME Tasks, NEW p \in Peer, KickTake(p) \/ KickRemove(p)
    PROVE  /\ Moves(p) /\ op'[p] = op[p] /\ op[p].kind = "kick" /\ op[p].subj \in Peer
           /\ KickTake(p) => pc'[p] = "remove"
           /\ KickRemove(p) => pc'[p] = "delist"
<1>1. TaskOK(p)
  BY Zenon DEF Tasks
<1>2. op[p].kind = "kick" /\ op[p].subj \in Peer
  BY <1>1 DEF KickTake, KickRemove, TaskOK, TaskFits
<1>3. ASSUME NEW x \in {"remove", "delist"}, Proceed(p, x), pc[p] # "cast"
      PROVE  Moves(p) /\ op'[p] = op[p] /\ pc'[p] = x
  <2>1. /\ x \in {"take", "remove", "delist"} => op[p].kind = "kick"
        /\ x \in {"leave", "drop", "unlist"} => op[p].kind = "leave"
        /\ x \in {"add", "list", "snapshot"} => op[p].kind = "join"
        /\ x \in Place \ {"cast"}
    BY <1>2, <1>3 DEF Place
  <2>2. GoTo(p, x) /\ UNCHANGED <<op, snap, out, todo>>
    BY <1>3 DEF Proceed
  <2>3. QED
    BY Zenon, <1>3, <2>1, <2>2, ProceedMoves DEF Moves
<1>4. KickTake(p) => pc[p] # "cast" /\ Proceed(p, "remove")
  BY DEF KickTake
<1>5. KickRemove(p) => pc[p] # "cast" /\ Proceed(p, "delist")
  BY DEF KickRemove
<1>6. QED
  BY Zenon, <1>2, <1>3, <1>4, <1>5

\* The last step of a kick: a signal to the target and one to the others.
LEMMA KickDelistMoves ==
    ASSUME Tasks, NEW p \in Peer, KickDelist(p)
    PROVE  Moves(p) /\ Calm(p)
<1>1. TaskOK(p)
  BY Zenon DEF Tasks
<1> DEFINE t == op[p].subj
           a == Signal(t, "participant_kicked", t, None)
           b == Signal("others", "participant_kicked", t, None)
<1>2. Dispatch(p, <<a, b>>) /\ pc[p] = "delist"
  BY Zenon DEF KickDelist
<1>3. op[p].kind # "leave"
  BY <1>1, <1>2 DEF TaskOK, TaskFits
<1>4. MsgOK(a.msg) /\ MsgOK(b.msg)
  BY SaysOK
<1> HIDE DEF a, b
<1>5. SignalsOK(<<a, b>>) /\ <<a, b>> # <<>>
  BY <1>4, TwoSignals
<1>6. out' = [out EXCEPT ![p] = <<a, b>>] /\ GoTo(p, "cast") /\ UNCHANGED <<op, snap, todo>>
  BY ZenonT(30), <1>2 DEF Dispatch
<1>7. QED
  BY Zenon, <1>3, <1>5, <1>6, CastCalm

\* handle_start_share_with_type and handle_stop_share.
LEMMA ShareMoves ==
    ASSUME Tasks, NEW p \in Peer, StartShare(p) \/ StopShare(p)
    PROVE  Moves(p) /\ Calm(p)
<1>0. TaskOK(p)
  BY Zenon DEF Tasks
<1>1. CASE Finish(p)
  <2>1. pc[p] # "cast"
    BY DEF StartShare, StopShare
  <2>2. QED
    BY Zenon, <1>1, <2>1, FinishCalm
<1>2. ASSUME NEW a, Dispatch(p, <<a>>), MsgOK(a.msg), op[p].kind # "leave"
      PROVE  Moves(p) /\ Calm(p)
  <2>1. out' = [out EXCEPT ![p] = <<a>>] /\ GoTo(p, "cast") /\ UNCHANGED <<op, snap, todo>>
    BY <1>2 DEF Dispatch
  <2>2. QED
    BY ZenonT(30), <1>2, <2>1, SpeakCalm
<1>3. CASE StartShare(p) /\ ~Finish(p)
  <2> DEFINE a == Signal("all", "share_started", p, op[p].val)
  <2>1. Dispatch(p, <<a>>) /\ op[p].kind = "start_share"
    BY Zenon, <1>3 DEF StartShare
  <2>2. op[p].val \in Type \cup {None}
    BY ZenonT(30), <1>0, <2>1 DEF TaskOK, TaskFits
  <2>3. MsgOK(a.msg) /\ op[p].kind # "leave"
    BY <2>1, <2>2 DEF MsgOK, Signal
  <2> HIDE DEF a
  <2>4. QED
    BY Zenon, <1>2, <2>1, <2>3
<1>4. CASE StopShare(p) /\ ~Finish(p)
  <2> DEFINE a(x) == Signal("all", "share_stopped", op[p].subj, x)
  <2>1. (Dispatch(p, <<a(op[p].val)>>) \/ Dispatch(p, <<a(None)>>)) /\ op[p].kind = "stop_share"
    BY Zenon, <1>4 DEF StopShare
  <2>2. op[p].kind # "leave"
    BY <2>1
  <2>3. \A x : MsgOK(a(x).msg)
    BY SaysOK
  <2> HIDE DEF a
  <2>4. QED
    BY Zenon, <1>2, <2>1, <2>2, <2>3
<1>5. QED
  BY <1>1, <1>3, <1>4

\* The steps of a join: only one that finds the room gone closes.
LEMMA JoinerMoves ==
    ASSUME Tasks, ListOK, RestOK, NEW p \in Peer, JoinAdd(p) \/ JoinList(p) \/ JoinSnapshot(p)
    PROVE  /\ Moves(p)
           /\ Calm(p) \/ (peers = {} /\ peers' = {} /\ viewers' = viewers /\ late' = late
                          /\ pc'[p] = "closed")
<1>0. Shapes /\ TaskOK(p)
  BY Zenon DEF Tasks
<1>1. op[p].kind = "join" /\ pc[p] # "cast" /\ SignalsOK(out[p]) /\ todo[p] = {} /\ Roster(snap[p])
  BY Zenon, <1>0 DEF TaskOK, TaskFits, JoinAdd, JoinList, JoinSnapshot
<1>2. CASE JoinAdd(p) /\ peers = {}
  <2>1. /\ GoTo(p, "closed") /\ snap' = [snap EXCEPT ![p] = <<>>] /\ op' = [op EXCEPT ![p] = NoOp]
        /\ UNCHANGED <<peers, viewers, late, out, todo>>
    BY Zenon, <1>2 DEF JoinAdd, roomVars, histVars
  <2>2. Only(p)
    BY <1>0, <2>1 DEF Only, Shapes, GoTo, Place
  <2>3. /\ pc'[p] = "closed" /\ op'[p] = NoOp /\ snap'[p] = <<>>
        /\ out'[p] = out[p] /\ todo'[p] = todo[p]
    BY <1>0, <2>1 DEF Shapes, GoTo
  <2>4. TaskFits("closed", NoOp, <<>>, out[p], todo[p])
    BY <1>1 DEF TaskFits, NoOp, None, Roster
  <2>5. Moves(p)
    BY Zenon, <2>2, <2>3, <2>4 DEF TaskOK, Moves
  <2>6. QED
    BY <1>2, <2>1, <2>3, <2>5
<1>3. ASSUME NEW x \in {"list", "snapshot"}, GoTo(p, x), UNCHANGED <<op, snap, out, todo>>
      PROVE  Moves(p) /\ Calm(p)
  <2>1. /\ x \in {"take", "remove", "delist"} => op[p].kind = "kick"
        /\ x \in {"leave", "drop", "unlist"} => op[p].kind = "leave"
        /\ x \in {"add", "list", "snapshot"} => op[p].kind = "join"
        /\ x \in Place \ {"cast"}
    BY <1>1, <1>3 DEF Place
  <2>2. Only(p) /\ TaskOK(p)' /\ pc'[p] = x
    BY Zenon, <1>1, <1>3, <2>1, ProceedMoves
  <2>3. QED
    BY <1>3, <2>2 DEF Moves, Calm
<1>4. CASE JoinAdd(p) /\ peers # {}
  <2>1. GoTo(p, "list") /\ UNCHANGED <<op, snap, out, todo>>
    BY Zenon, <1>4 DEF JoinAdd, Proceed
  <2>2. QED
    BY Zenon, <1>3, <2>1
<1>5. CASE JoinList(p)
  <2>1. GoTo(p, "snapshot") /\ UNCHANGED <<op, snap, out, todo>>
    BY Zenon, <1>5 DEF JoinList
  <2>2. QED
    BY Zenon, <1>3, <2>1
<1>6. CASE JoinSnapshot(p)
  <2> DEFINE a == Signal(p, "joined", perm, Put(snap[p], p, Fresh))
             b == Signal(p, "room_state", None, snap[p])
             c == Signal(p, "share_state", sharing, types)
             d == Signal("others", "participant_joined", p, None)
             g == <<a, b, c, d>>
  <2>1. out' = [out EXCEPT ![p] = g] /\ GoTo(p, "cast") /\ UNCHANGED <<op, snap, todo>>
    BY Zenon, <1>6 DEF JoinSnapshot
  <2>2. Roster(Put(snap[p], p, Fresh))
    BY <1>1, FreshFlags DEF Roster, Put
  <2>3. MsgOK(a.msg)
    <3>1. a.msg.kind = "joined" /\ a.msg.subj = perm /\ a.msg.val = Put(snap[p], p, Fresh)
      BY DEF Signal
    <3> HIDE DEF a
    <3>2. QED
      BY Zenon, <2>2, <3>1 DEF MsgOK, RestOK
  <2>4. MsgOK(b.msg)
    <3>1. b.msg.kind = "room_state" /\ b.msg.val = snap[p]
      BY ZenonT(30) DEF Signal
    <3> HIDE DEF b
    <3>2. QED
      BY Zenon, <1>1, <3>1 DEF MsgOK
  <2>5. MsgOK(c.msg)
    BY SaysOK
  <2>6. MsgOK(d.msg)
    <3>1. d.msg.kind = "participant_joined" /\ d.msg.subj = p
      BY DEF Signal
    <3> HIDE DEF d
    <3>2. QED
      BY Zenon, <3>1 DEF MsgOK
  <2> HIDE DEF a, b, c, d
  <2>7. g \in Seq({a, b, c, d}) /\ g # <<>> /\ DOMAIN g = 1 .. 4
        /\ \A i \in DOMAIN g : g[i] \in {a, b, c, d}
    OBVIOUS
  <2>8. \A x \in {a, b, c, d} : MsgOK(x.msg)
    BY Zenon, <2>3, <2>4, <2>5, <2>6
  <2> HIDE DEF g
  <2>9. \A i \in DOMAIN g : MsgOK(g[i].msg)
    BY Zenon, <2>7, <2>8
  <2>10. SignalsOK(g)
    BY Zenon, <2>7, <2>9, Signals
  <2>11. op[p].kind # "leave"
    BY <1>1
  <2>12. QED
    BY Zenon, <2>1, <2>7, <2>10, <2>11, CastCalm
<1>7. QED
  BY <1>2, <1>4, <1>5, <1>6

\* The share of a closed socket ends.
LEMMA CleanupMoves ==
    ASSUME Tasks, NEW p \in Peer, CleanupShare(p)
    PROVE  Moves(p) /\ Calm(p)
<1>0. Shapes /\ TaskOK(p)
  BY Zenon DEF Tasks
<1>1. pc[p] = "unshare" /\ SignalsOK(out[p]) /\ todo[p] = {} /\ Roster(snap[p])
  BY <1>0 DEF TaskOK, TaskFits, CleanupShare
<1> DEFINE a == Signal("all", "share_stopped", p, None)
           o(k) == [NoOp EXCEPT !.kind = k]
<1>2. SignalsOK(<<a>>) /\ <<a>> # <<>>
  BY SaysOK, OneSignal
<1> HIDE DEF a
<1>3. ASSUME NEW k, NEW x, NEW g,
             op' = [op EXCEPT ![p] = o(k)], GoTo(p, x), UNCHANGED <<snap, todo>>,
             DOMAIN out' = Peer, out'[p] = g, \A q \in Peer \ {p} : out'[q] = out[q],
             SignalsOK(g),
             (k = "unshare" /\ x = "cast" /\ g # <<>>) \/ (k = "leave" /\ x = "leave")
      PROVE  Moves(p) /\ Calm(p)
  <2>1. Only(p)
    BY <1>0, <1>3 DEF Only, Shapes, GoTo, Place
  <2>2. pc'[p] = x /\ op'[p] = o(k) /\ snap'[p] = snap[p] /\ out'[p] = g /\ todo'[p] = todo[p]
    BY <1>0, <1>3 DEF Shapes, GoTo
  <2>3. o(k).kind = k /\ TaskFits(x, o(k), snap[p], g, todo[p])
    BY <1>1, <1>3 DEF TaskFits, NoOp, None
  <2> HIDE DEF o
  <2>4. Moves(p)
    BY Zenon, <2>1, <2>2, <2>3 DEF TaskOK, Moves
  <2>5. QED
    BY <1>3, <2>2, <2>3, <2>4 DEF Calm
<1>4. CASE p \in sharing
  <2>1. /\ out' = [out EXCEPT ![p] = <<a>>] /\ op' = [op EXCEPT ![p] = o("unshare")]
        /\ GoTo(p, "cast") /\ UNCHANGED <<snap, todo>>
    BY Zenon, <1>4 DEF CleanupShare, a
  <2>2. DOMAIN out' = Peer /\ out'[p] = <<a>> /\ \A q \in Peer \ {p} : out'[q] = out[q]
    BY <1>0, <2>1 DEF Shapes
  <2> HIDE DEF o
  <2>3. QED
    BY Zenon, <1>2, <1>3, <2>1, <2>2
<1>5. CASE p \notin sharing
  <2>1. /\ out' = out /\ op' = [op EXCEPT ![p] = o("leave")]
        /\ GoTo(p, "leave") /\ UNCHANGED <<snap, todo>>
    BY Zenon, <1>5 DEF CleanupShare
  <2>2. DOMAIN out' = Peer /\ out'[p] = out[p] /\ \A q \in Peer \ {p} : out'[q] = out[q]
    BY Zenon, <1>0, <2>1 DEF Shapes
  <2> HIDE DEF o
  <2>3. QED
    BY Zenon, <1>1, <1>3, <2>1, <2>2
<1>6. QED
  BY <1>4, <1>5

\* The steps of handle_sfu_leave.
LEMMA LeaveTakeMoves ==
    ASSUME Tasks, NEW p \in Peer, LeaveTake(p)
    PROVE  Moves(p) /\ pc'[p] = "drop" /\ op'[p] = op[p]
<1>1. TaskOK(p)
  BY Zenon DEF Tasks
<1>2. pc[p] = "leave" /\ GoTo(p, "drop") /\ UNCHANGED <<op, snap, out, todo>>
  BY DEF LeaveTake, Proceed
<1>3. op[p].kind = "leave" /\ "drop" \in Place \ {"cast"}
  BY <1>1, <1>2 DEF TaskOK, TaskFits, Place
<1>4. pc[p] # "cast" /\ "drop" \notin {"take", "remove", "delist"} /\ "drop" \notin {"add", "list", "snapshot"}
  BY <1>2
<1>5. QED
  BY Zenon, <1>2, <1>3, <1>4, ProceedMoves DEF Moves

LEMMA LeaveDropMoves ==
    ASSUME Tasks, NEW p \in Peer, LeaveDrop(p)
    PROVE  Moves(p) /\ pc'[p] = "unlist" /\ op'[p] = op[p]
<1>0. Shapes /\ TaskOK(p)
  BY Zenon DEF Tasks
<1> DEFINE a == Signal("all", "share_stopped", p, None)
           g == IF p \in sharing THEN <<a>> ELSE <<>>
<1>1. out' = [out EXCEPT ![p] = g] /\ GoTo(p, "unlist") /\ UNCHANGED <<op, snap, todo>> /\ pc[p] = "drop"
  BY Zenon DEF LeaveDrop
<1>2. SignalsOK(g)
  <2>1. SignalsOK(<<a>>)
    BY SaysOK, OneSignal
  <2>2. SignalsOK(<<>>)
    BY DEF SignalsOK
  <2>3. QED
    BY Zenon, <2>1, <2>2
<1> HIDE DEF g
<1>3. Only(p)
  BY <1>0, <1>1 DEF Only, Shapes, GoTo, Place
<1>4. pc'[p] = "unlist" /\ op'[p] = op[p] /\ snap'[p] = snap[p] /\ out'[p] = g /\ todo'[p] = todo[p]
  BY ZenonT(30), <1>0, <1>1 DEF Shapes, GoTo
<1>5. TaskFits("unlist", op[p], snap[p], g, todo[p])
  BY <1>0, <1>1, <1>2 DEF TaskOK, TaskFits
<1>6. QED
  BY Zenon, <1>3, <1>4, <1>5 DEF TaskOK, Moves

LEMMA LeaveUnlistMoves ==
    ASSUME Tasks, NEW p \in Peer, LeaveUnlist(p)
    PROVE  Moves(p) /\ pc'[p] = "cast"
<1>0. TaskOK(p)
  BY Zenon DEF Tasks
<1> DEFINE a == Signal("others", "participant_left", p, None)
           g == <<a>> \o out[p]
<1>1. Dispatch(p, g)
  BY Zenon DEF LeaveUnlist
<1>2. MsgOK(a.msg) /\ SignalsOK(out[p])
  BY Zenon, <1>0, SaysOK DEF TaskOK, TaskFits
<1> HIDE DEF a
<1>3. PICK S : out[p] \in Seq(S)
  BY <1>2 DEF SignalsOK
<1>4. g \in Seq(S \cup {a}) /\ g # <<>> /\ DOMAIN g = 1 .. (Len(out[p]) + 1)
  BY <1>3
<1>5. ASSUME NEW i \in DOMAIN g PROVE MsgOK(g[i].msg)
  <2>1. CASE i = 1
    <3>1. g[i] = a
      BY <1>3, <2>1
    <3>2. QED
      BY Zenon, <1>2, <3>1
  <2>2. CASE i # 1
    <3>1. i - 1 \in DOMAIN out[p] /\ g[i] = out[p][i - 1]
      BY <1>3, <1>4, <2>2
    <3>2. QED
      BY Zenon, <1>2, <3>1 DEF SignalsOK
  <2>3. QED
    BY <2>1, <2>2
<1> HIDE DEF g
<1>6. SignalsOK(g) /\ g # <<>>
  BY Zenon, <1>4, <1>5, Signals
<1>7. out' = [out EXCEPT ![p] = g] /\ GoTo(p, "cast") /\ UNCHANGED <<op, snap, todo>>
  BY <1>1 DEF Dispatch
<1>8. QED
  BY Zenon, <1>6, <1>7, DispatchMoves DEF Moves


\* A task that goes on sending, or has sent all: it closes only after a leave.
Sending(p) ==
    /\ pc'[p] \in {"cast", "idle", "leave", "closed"}
    /\ pc'[p] = "cast" => op'[p] = op[p]
    /\ pc'[p] = "closed" => op[p].kind = "leave"

\* The first signal is out.
LEMMA PopMoves ==
    ASSUME Tasks, NEW p \in Peer, pc[p] = "cast", Pop(p),
           DOMAIN todo' = Peer, todo'[p] = {}, \A q \in Peer \ {p} : todo'[q] = todo[q]
    PROVE  Moves(p) /\ Sending(p)
<1>0. Shapes /\ TaskOK(p)
  BY ZenonT(30) DEF Tasks
<1> DEFINE g == Tail(out[p])
           x == After(op[p].kind)
           o == IF x = "leave" THEN [NoOp EXCEPT !.kind = "leave"] ELSE NoOp
<1>1. out[p] # <<>> /\ SignalsOK(out[p]) /\ Roster(snap[p])
  BY <1>0 DEF TaskOK, TaskFits
<1>2. SignalsOK(g)
  BY Zenon, <1>1, HeadTail
<1>3. out' = [out EXCEPT ![p] = g]
  BY ZenonT(30) DEF Pop
<1>4. CASE g # <<>>
  <2>1. UNCHANGED <<pc, op, snap>>
    BY Zenon, <1>4 DEF Pop
  <2> HIDE DEF g
  <2>2. Only(p)
    BY <1>0, <1>3, <2>1 DEF Only, Shapes
  <2>3. pc'[p] = "cast" /\ op'[p] = op[p] /\ snap'[p] = snap[p] /\ out'[p] = g /\ todo'[p] = {}
    BY ZenonT(30), <1>0, <1>3, <2>1 DEF Shapes
  <2>4. TaskFits("cast", op[p], snap[p], g, {})
    BY <1>0, <1>2, <1>4 DEF TaskOK, TaskFits
  <2>5. Moves(p)
    BY ZenonT(30), <2>2, <2>3, <2>4 DEF TaskOK, Moves
  <2>6. QED
    BY <2>3, <2>5 DEF Sending
<1>5. CASE g = <<>>
  <2>1. GoTo(p, x) /\ op' = [op EXCEPT ![p] = o] /\ snap' = [snap EXCEPT ![p] = <<>>]
    BY Zenon, <1>5 DEF Pop
  <2>2. /\ x \in {"leave", "closed", "idle"} /\ (x = "closed" => op[p].kind = "leave")
        /\ o.kind \in {"leave", "none"} /\ (x = "leave" => o.kind = "leave")
    BY Zenon DEF After, NoOp, None
  <2> HIDE DEF g, x, o
  <2>3. Only(p)
    BY Zenon, <1>0, <1>3, <2>1, <2>2 DEF Only, Shapes, GoTo, Place
  <2>4. pc'[p] = x /\ op'[p] = o /\ snap'[p] = <<>> /\ out'[p] = g /\ todo'[p] = {}
    BY <1>0, <1>3, <2>1 DEF Shapes, GoTo
  <2>5. TaskFits(x, o, <<>>, g, {})
    BY <1>2, <2>2 DEF TaskFits, Roster
  <2>6. Moves(p)
    BY Zenon, <2>3, <2>4, <2>5 DEF TaskOK, Moves
  <2>7. QED
    BY <2>2, <2>4, <2>6 DEF Sending
<1>6. QED
  BY <1>4, <1>5

\* A signal reaches a client.
LEMMA ShownKeeps ==
    ASSUME ViewsOK, NEW r \in Peer, NEW m, MsgOK(m), view' = [view EXCEPT ![r] = Deliver(@, m)]
    PROVE  ViewsOK'
<1> DEFINE v == Deliver(view[r], m)
<1>1. ViewOK(v)
  BY Zenon, DeliverKeeps DEF ViewsOK
<1>2. view' = [view EXCEPT ![r] = v]
  BY Zenon
<1> HIDE DEF v
<1>3. DOMAIN view' = Peer /\ \A q \in Peer : view'[q] = IF q = r THEN v ELSE view[q]
  BY <1>2 DEF ViewsOK
<1>4. QED
  BY Zenon, <1>1, <1>3 DEF ViewsOK

\* dispatch_signals: a recipient at a time.
LEMMA CastMoves ==
    ASSUME Tasks, ViewsOK, RestOK, NEW p \in Peer, Cast(p) \/ \E r \in Peer : Send(p, r)
    PROVE  Moves(p) /\ Sending(p) /\ ViewsOK'
<1>0. Shapes /\ TaskOK(p)
  BY Zenon DEF Tasks
<1>1. pc[p] = "cast" /\ out[p] # <<>> /\ SignalsOK(out[p]) /\ todo[p] \subseteq Peer
  <2>1. CASE Cast(p)
    BY ZenonT(30), <1>0, <2>1 DEF TaskOK, TaskFits, Cast
  <2>2. ASSUME NEW r \in Peer, Send(p, r) PROVE pc[p] = "cast"
    BY Zenon, <1>0, <2>2 DEF TaskOK, TaskFits, Send
  <2>3. QED
    BY <1>0, <2>1, <2>2 DEF TaskOK, TaskFits
<1> DEFINE sig == Head(out[p])
           all == IF sig.to = "all" THEN peers ELSE peers \ {sig.msg.subj}
<1>2. MsgOK(sig.msg)
  BY ZenonT(30), <1>1, HeadTail
<1> HIDE DEF sig
\* the same signal is still being sent
<1>3. ASSUME UNCHANGED <<pc, op, snap, out>>, NEW S \in SUBSET Peer, todo' = [todo EXCEPT ![p] = S]
      PROVE  Moves(p) /\ Sending(p)
  <2>1. Only(p)
    BY <1>0, <1>3 DEF Only, Shapes
  <2>2. pc'[p] = "cast" /\ op'[p] = op[p] /\ snap'[p] = snap[p] /\ out'[p] = out[p] /\ todo'[p] = S
    BY ZenonT(30), <1>0, <1>1, <1>3 DEF Shapes
  <2>3. TaskFits("cast", op[p], snap[p], out[p], S)
    BY Zenon, <1>0, <1>1, <1>3 DEF TaskOK, TaskFits
  <2>4. Moves(p)
    BY Zenon, <2>1, <2>2, <2>3 DEF TaskOK, Moves
  <2>5. QED
    BY <2>2, <2>4 DEF Sending
<1>4. CASE Cast(p)
  <2>0. todo[p] = {}
    BY <1>4 DEF Cast
  <2>1. ASSUME Pop(p), UNCHANGED todo PROVE Moves(p) /\ Sending(p)
    <3>1. DOMAIN todo' = Peer /\ todo'[p] = {} /\ \A q \in Peer \ {p} : todo'[q] = todo[q]
      BY Zenon, <1>0, <2>0, <2>1 DEF Shapes
    <3>2. QED
      BY Zenon, <1>1, <2>1, <3>1, PopMoves
  <2>2. CASE sig.to \in Peer
    <3>1. view' = [view EXCEPT ![sig.to] = Deliver(@, sig.msg)] /\ Pop(p) /\ UNCHANGED todo
      BY Zenon, <1>4, <2>2 DEF Cast, sig
    <3>2. QED
      BY Zenon, <1>2, <2>1, <2>2, <3>1, ShownKeeps
  <2>3. CASE sig.to \notin Peer /\ all = {}
    <3>1. UNCHANGED view /\ Pop(p) /\ UNCHANGED todo
      BY Zenon, <1>4, <2>3 DEF Cast, sig
    <3>2. QED
      BY Zenon, <2>1, <3>1 DEF ViewsOK
  <2>4. CASE sig.to \notin Peer /\ all # {}
    <3>1. UNCHANGED view /\ todo' = [todo EXCEPT ![p] = all] /\ UNCHANGED <<pc, op, snap, out>>
      BY Zenon, <1>4, <2>4 DEF Cast, sig
    <3>2. all \in SUBSET Peer
      BY DEF RestOK
    <3> HIDE DEF all
    <3>3. QED
      BY Zenon, <1>3, <3>1, <3>2 DEF ViewsOK
  <2>5. QED
    BY ZenonT(30), <2>2, <2>3, <2>4
<1>5. ASSUME NEW r \in Peer, Send(p, r)
      PROVE  Moves(p) /\ Sending(p) /\ ViewsOK'
  <2> DEFINE S == todo[p] \ {r}
  <2>1. view' = [view EXCEPT ![r] = Deliver(@, sig.msg)] /\ todo' = [todo EXCEPT ![p] = S]
    BY Zenon, <1>5 DEF Send, sig
  <2>2. ViewsOK'
    BY Zenon, <1>2, <2>1, ShownKeeps
  <2>3. CASE todo[p] = {r}
    <3>1. DOMAIN todo' = Peer /\ todo'[p] = {} /\ \A q \in Peer \ {p} : todo'[q] = todo[q]
      BY <1>0, <2>1, <2>3 DEF Shapes
    <3>2. Pop(p)
      BY Zenon, <1>5, <2>3 DEF Send
    <3>3. QED
      BY Zenon, <1>1, <2>2, <3>1, <3>2, PopMoves
  <2>4. CASE todo[p] # {r}
    <3>1. S \in SUBSET Peer /\ UNCHANGED <<pc, op, snap, out>>
      BY <1>1, <1>5, <2>4 DEF Send
    <3> HIDE DEF S
    <3>2. QED
      BY ZenonT(30), <1>3, <2>1, <2>2, <3>1
  <2>5. QED
    BY <2>3, <2>4
<1>6. QED
  BY <1>4, <1>5


(***************************************************************************)
(* The room.                                                               *)
(***************************************************************************)
\* What the parts of the invariant read.
LEMMA SameList == ASSUME ListOK, UNCHANGED listed PROVE ListOK'
BY Zenon DEF ListOK, Roster, HostMuteHolds

LEMMA SameShares == ASSUME ShareOK, UNCHANGED <<sharing, types>> PROVE ShareOK'
BY ZenonT(30) DEF ShareOK, SlotsExclusive, SameSlot

LEMMA SameViews == ASSUME ViewsOK, UNCHANGED view PROVE ViewsOK'
BY Zenon DEF ViewsOK

\* The list of participants: new flags, ...
LEMMA NewFlags ==
    ASSUME ListOK, NEW t \in DOMAIN listed, NEW f \in Flags, f.host => f.muted,
           listed' = [listed EXCEPT ![t] = f]
    PROVE  ListOK'
<1>1. DOMAIN listed' = DOMAIN listed /\ \A q \in DOMAIN listed : listed'[q] = IF q = t THEN f ELSE listed[q]
  OBVIOUS
<1>2. QED
  BY Zenon, <1>1 DEF ListOK, Roster, HostMuteHolds

\* ... an entry less, or none, ...
LEMMA Dropped ==
    ASSUME ListOK, NEW t, listed' = Drop(listed, t) \/ listed' = <<>>
    PROVE  ListOK'
<1>1. DOMAIN listed' \subseteq DOMAIN listed /\ \A q \in DOMAIN listed' : listed'[q] = listed[q]
  BY NothingThere DEF Drop, Restrict
<1>2. QED
  BY Zenon, <1>1 DEF ListOK, Roster, HostMuteHolds

\* ... an entry more.
LEMMA Added ==
    ASSUME ListOK, NEW p \in Peer, listed' = Put(listed, p, Fresh)
    PROVE  ListOK'
<1>1. DOMAIN listed' = DOMAIN listed \cup {p} /\ \A q \in DOMAIN listed' : listed'[q] = IF q = p THEN Fresh ELSE listed[q]
  BY DEF Put
<1>2. Fresh \in Flags /\ ~Fresh.host
  BY DEF Fresh, Flags
<1>3. DOMAIN listed' \subseteq Peer
  BY <1>1 DEF ListOK, Roster
<1>4. QED
  BY Zenon, <1>1, <1>2, <1>3 DEF ListOK, Roster, HostMuteHolds

\* The slots: one participant's types change, or go with the share.
LEMMA Retyped ==
    ASSUME ShareOK, NEW p \in Peer, NEW ts \in SUBSET Type,
           \A t, u \in ts : SameSlot(t, u) => t = u,
           types' = Put(types, p, ts), sharing' = sharing \cup {p}
    PROVE  ShareOK'
<1>1. DOMAIN types' = DOMAIN types \cup {p} /\ \A q \in DOMAIN types' : types'[q] = IF q = p THEN ts ELSE types[q]
  BY DEF Put
<1>2. DOMAIN types' \subseteq sharing' /\ sharing' \subseteq Peer
  BY <1>1 DEF ShareOK, SlotsExclusive
<1>3. \A q \in DOMAIN types' : types'[q] \subseteq Type /\ \A t, u \in types'[q] : SameSlot(t, u) => t = u
  BY Zenon, <1>1 DEF ShareOK, SlotsExclusive
<1>4. QED
  BY Zenon, <1>2, <1>3 DEF ShareOK, SlotsExclusive, SameSlot

\* Shares that go, with their types.
LEMMA Untyped ==
    ASSUME ShareOK, sharing' \subseteq Peer, DOMAIN types' \subseteq DOMAIN types \cap sharing',
           \A q \in DOMAIN types' : types'[q] = types[q]
    PROVE  ShareOK'
<1>1. \A q \in DOMAIN types' : types'[q] \subseteq Type /\ \A t, u \in types'[q] : SameSlot(t, u) => t = u
  BY DEF ShareOK, SlotsExclusive
<1>2. DOMAIN types' \subseteq sharing'
  OBVIOUS
<1>3. QED
  BY Zenon, <1>1, <1>2 DEF ShareOK, SlotsExclusive, SameSlot

LEMMA UnsharedKeeps ==
    ASSUME ShareOK, NEW p, Unshared(p)
    PROVE  ShareOK'
<1>1. /\ sharing' \subseteq Peer /\ DOMAIN types' \subseteq DOMAIN types \cap sharing'
      /\ \A q \in DOMAIN types' : types'[q] = types[q]
  BY DEF ShareOK, SlotsExclusive, Unshared, Drop, Restrict
<1>2. QED
  BY Zenon, <1>1, Untyped

LEMMA NoShares ==
    ASSUME ShareOK, sharing' = {}, types' = <<>>
    PROVE  ShareOK'
<1>1. /\ sharing' \subseteq Peer /\ DOMAIN types' \subseteq DOMAIN types \cap sharing'
      /\ \A q \in DOMAIN types' : types'[q] = types[q]
  BY NothingThere
<1>2. QED
  BY Zenon, <1>1, Untyped


\* Requests change nothing of the room but the revocation of a leaver.
LEMMA RequestKeeps ==
    ASSUME ListOK, ShareOK, RestOK, ViewsOK, NEW p \in Peer, Message(p) \/ Join(p) \/ Disconnect(p)
    PROVE  /\ ListOK' /\ ShareOK' /\ RestOK' /\ ViewsOK'
           /\ UNCHANGED <<peers, viewers, late>>
<1>1. Message(p) => \E k, t, v, x : Ask(p, k, t, v, x)
  BY Zenon DEF Message, AskSelfFlag, AskHost, AskStartShare, AskStopShare, AskStopAll, AskViewer, Leave
<1>2. /\ UNCHANGED <<listed, sharing, types, view, peers, perm, viewers, late>>
      /\ revoked' = revoked \/ revoked' = revoked \cup {p}
      /\ Count
  <2>1. CASE Message(p)
    BY <1>1, <2>1 DEF Ask, roomVars, histVars
  <2>2. CASE Join(p)
    BY <2>2 DEF Join, roomVars
  <2>3. CASE Disconnect(p)
    BY <2>3 DEF Disconnect, roomVars, histVars
  <2>4. QED
    BY <2>1, <2>2, <2>3
<1>3. ListOK' /\ ShareOK' /\ ViewsOK'
  BY Zenon, <1>2, SameList, SameShares, SameViews
<1>4. left' \in 0 .. Budget
  BY <1>2, ConfigAssumption DEF RestOK, Count
<1>5. RestOK'
  BY <1>2, <1>4 DEF RestOK
<1>6. QED
  BY <1>2, <1>3, <1>5

\* Handlers that leave the room as it is.
LEMMA IdleKeeps ==
    ASSUME ListOK, ShareOK, RestOK, ViewsOK, NEW p \in Peer,
           UNCHANGED <<listed, sharing, types, view, peers, perm, viewers, revoked, late, left>>
    PROVE  ListOK' /\ ShareOK' /\ RestOK' /\ ViewsOK'
<1>1. ListOK' /\ ShareOK' /\ ViewsOK'
  BY Zenon, SameList, SameShares, SameViews
<1>2. RestOK'
  BY Zenon DEF RestOK
<1>3. QED
  BY <1>1, <1>2

\* A self-unmute leaves a host mute.
LEMMA SelfFlagKeeps ==
    ASSUME ListOK, ShareOK, RestOK, ViewsOK, NEW p \in Peer, ApplySelfFlag(p)
    PROVE  /\ ListOK' /\ ShareOK' /\ RestOK' /\ ViewsOK'
           /\ UNCHANGED <<peers, viewers, late>>
<1>1. UNCHANGED <<sharing, types, view, peers, perm, viewers, revoked, late, left>>
  <2>1. UNCHANGED <<peers, sharing, types, perm, viewers, revoked>>
    BY Zenon DEF ApplySelfFlag
  <2>2. CASE p \notin peers
    BY Zenon, <2>1, <2>2 DEF ApplySelfFlag, Finish
  <2>3. CASE p \in peers
    BY Zenon, <2>1, <2>3 DEF ApplySelfFlag
  <2>4. QED
    BY <2>2, <2>3
<1>2. ShareOK' /\ ViewsOK' /\ RestOK'
  BY Zenon, <1>1, SameShares, SameViews DEF RestOK
<1>3. CASE UNCHANGED listed
  BY Zenon, <1>1, <1>2, <1>3, SameList
<1>4. CASE ~UNCHANGED listed
  <2> DEFINE k == op[p].kind
             f == Toggled(listed[p], k)
  <2>1. p \in DOMAIN listed /\ listed' = [listed EXCEPT ![p] = f]
    BY Zenon, <1>4 DEF ApplySelfFlag
  <2>2. listed[p] \in Flags /\ (listed[p].host => listed[p].muted)
    BY Zenon, <2>1 DEF ListOK, Roster, HostMuteHolds
  <2>3. f \in Flags /\ (f.host => f.muted)
    BY Zenon, <2>2 DEF Toggled, Flags
  <2> HIDE DEF f
  <2>4. QED
    BY Zenon, <1>1, <1>2, <2>1, <2>3, NewFlags
<1>5. QED
  BY <1>3, <1>4

\* A host mute mutes.
LEMMA MuteKeeps ==
    ASSUME ListOK, ShareOK, RestOK, ViewsOK, NEW p \in Peer, ApplyMute(p)
    PROVE  /\ ListOK' /\ ShareOK' /\ RestOK' /\ ViewsOK'
           /\ UNCHANGED <<peers, viewers, late>>
<1>1. UNCHANGED <<sharing, types, view, peers, perm, viewers, revoked, late, left>>
  BY ZenonT(30) DEF ApplyMute, Dispatch
<1>2. ShareOK' /\ ViewsOK' /\ RestOK'
  BY Zenon, <1>1, SameShares, SameViews DEF RestOK
<1>3. CASE UNCHANGED listed
  BY Zenon, <1>1, <1>2, <1>3, SameList
<1>4. CASE ~UNCHANGED listed
  <2> DEFINE t == op[p].subj
             f == IF op[p].kind = "mute" THEN [listed[t] EXCEPT !.muted = TRUE, !.host = TRUE]
                  ELSE [listed[t] EXCEPT !.host = FALSE]
  <2>1. t \in DOMAIN listed
    BY Zenon, <1>4 DEF ApplyMute
  <2>2. listed' = [listed EXCEPT ![t] = f]
    BY Zenon, <1>4, <2>1 DEF ApplyMute
  <2>3. listed[t] \in Flags
    BY Zenon, <2>1 DEF ListOK, Roster
  <2>4. f \in Flags /\ (f.host => f.muted)
    BY Zenon, <2>3 DEF Flags
  <2> HIDE DEF f, t
  <2>5. QED
    BY Zenon, <1>1, <1>2, <2>1, <2>2, <2>4, NewFlags
<1>5. QED
  BY <1>3, <1>4

\* The share permission.
LEMMA PermissionKeeps ==
    ASSUME Tasks, ListOK, ShareOK, RestOK, ViewsOK, NEW p \in Peer, ApplyPermission(p)
    PROVE  /\ ListOK' /\ ShareOK' /\ RestOK' /\ ViewsOK'
           /\ UNCHANGED <<peers, viewers, late>>
<1>1. UNCHANGED <<listed, sharing, types, view, peers, viewers, revoked, late, left>>
  BY Zenon DEF ApplyPermission, Dispatch, Finish
<1>2. perm' \in Perm
  <2>1. TaskOK(p)
    BY ZenonT(30) DEF Tasks
  <2>2. op[p].val \in Perm
    BY <2>1 DEF TaskOK, TaskFits, ApplyPermission
  <2>3. QED
    BY Zenon, <2>2 DEF ApplyPermission, RestOK
<1>3. ListOK' /\ ShareOK' /\ ViewsOK'
  BY Zenon, <1>1, SameList, SameShares, SameViews
<1>4. QED
  BY Zenon, <1>1, <1>2, <1>3 DEF RestOK


\* A share of the category t takes its slot and leaves the other one alone.
LEMMA ReplacedOK ==
    ASSUME NEW ts \in SUBSET Type, NEW t \in Type, \A u, w \in ts : SameSlot(u, w) => u = w
    PROVE  /\ Replaced(ts, t) \in SUBSET Type
           /\ \A u, w \in Replaced(ts, t) : SameSlot(u, w) => u = w
BY DEF Replaced, SameSlot

\* A start takes a slot ...
LEMMA StartShareKeeps ==
    ASSUME Tasks, ListOK, ShareOK, RestOK, ViewsOK, NEW p \in Peer, StartShare(p)
    PROVE  /\ ListOK' /\ ShareOK' /\ RestOK' /\ ViewsOK'
           /\ UNCHANGED <<peers, viewers, late>>
<1>1. UNCHANGED <<listed, view, peers, perm, viewers, revoked, late, left>>
  <2>1. UNCHANGED <<peers, listed, perm, viewers, revoked>>
    BY Zenon DEF StartShare
  <2>2. (Finish(p) /\ late' = late) \/ \E g : Dispatch(p, g)
    BY Zenon DEF StartShare
  <2>3. QED
    BY Zenon, <2>1, <2>2 DEF Finish, Dispatch
<1>2. ListOK' /\ ViewsOK' /\ RestOK'
  BY ZenonT(30), <1>1, SameList, SameViews DEF RestOK
<1> DEFINE t   == op[p].val
           had == IF p \in DOMAIN types THEN types[p] ELSE {}
<1>3. t \in Type \cup {None}
  <2>1. TaskOK(p)
    BY Zenon DEF Tasks
  <2>2. QED
    BY Zenon, <2>1 DEF TaskOK, TaskFits, StartShare
<1>4. had \in SUBSET Type /\ \A u, w \in had : SameSlot(u, w) => u = w
  <2>1. CASE p \in DOMAIN types
    BY Zenon, <2>1 DEF ShareOK, SlotsExclusive
  <2>2. CASE p \notin DOMAIN types
    BY <2>2
  <2>3. QED
    BY <2>1, <2>2
<1>5. \/ UNCHANGED <<sharing, types>>
      \/ p \in sharing /\ sharing' = sharing /\ types' = Put(types, p, had)
      \/ sharing' = sharing \cup {p} /\ t # None /\ types' = Put(types, p, Replaced(had, t))
      \/ sharing' = sharing \cup {p} /\ types' = Put(types, p, {})
      \/ sharing' = sharing \cup {p} /\ types' = types
  BY Zenon DEF StartShare, Typed
<1> HIDE DEF t, had
<1>6. ASSUME UNCHANGED <<sharing, types>> PROVE ShareOK'
  BY Zenon, <1>6, SameShares
<1>7. ASSUME p \in sharing /\ sharing' = sharing /\ types' = Put(types, p, had) PROVE ShareOK'
  <2>1. sharing' = sharing \cup {p}
    BY <1>7
  <2>2. QED
    BY Zenon, <1>4, <1>7, <2>1, Retyped
<1>8. ASSUME sharing' = sharing \cup {p} /\ t # None /\ types' = Put(types, p, Replaced(had, t))
      PROVE  ShareOK'
  <2>1. t \in Type
    BY <1>3, <1>8
  <2>2. Replaced(had, t) \in SUBSET Type /\ \A u, w \in Replaced(had, t) : SameSlot(u, w) => u = w
    BY Zenon, <1>4, <2>1, ReplacedOK
  <2>3. QED
    BY Zenon, <1>8, <2>2, Retyped
<1>9. ASSUME sharing' = sharing \cup {p} /\ types' = Put(types, p, {}) PROVE ShareOK'
  <2>1. {} \in SUBSET Type /\ \A u, w \in {} : SameSlot(u, w) => u = w
    OBVIOUS
  <2>2. QED
    BY Zenon, <1>9, <2>1, Retyped
<1>10. ASSUME sharing' = sharing \cup {p} /\ types' = types PROVE ShareOK'
  <2>1. sharing' \subseteq Peer /\ DOMAIN types' \subseteq DOMAIN types \cap sharing'
    BY <1>10 DEF ShareOK, SlotsExclusive
  <2>2. QED
    BY Zenon, <1>10, <2>1, Untyped
<1>11. ShareOK'
  BY Zenon, <1>5, <1>6, <1>7, <1>8, <1>9, <1>10
<1>12. QED
  BY Zenon, <1>1, <1>2, <1>11

\* ... and a stop frees one, or all of them.
LEMMA StopShareKeeps ==
    ASSUME ListOK, ShareOK, RestOK, ViewsOK, NEW p \in Peer, StopShare(p) \/ StopAllShares(p)
    PROVE  /\ ListOK' /\ ShareOK' /\ RestOK' /\ ViewsOK'
           /\ UNCHANGED <<peers, viewers, late>>
<1>1. UNCHANGED <<listed, view, peers, perm, viewers, revoked, late, left>>
  <2>1. UNCHANGED <<peers, listed, perm, viewers, revoked>>
    BY Zenon DEF StopShare, StopAllShares
  <2>2. (Finish(p) /\ late' = late) \/ \E g : Dispatch(p, g)
    <3>1. CASE StopShare(p)
      BY Zenon, <3>1 DEF StopShare
    <3>2. CASE StopAllShares(p)
      BY Zenon, <3>2 DEF StopAllShares
    <3>3. QED
      BY <3>1, <3>2
  <2>3. QED
    BY Zenon, <2>1, <2>2 DEF Finish, Dispatch
<1>2. ListOK' /\ ViewsOK' /\ RestOK'
  BY Zenon, <1>1, SameList, SameViews DEF RestOK
<1>3. CASE StopAllShares(p)
  <2>1. UNCHANGED <<sharing, types>> \/ (sharing' = {} /\ types' = <<>>)
    BY Zenon, <1>3 DEF StopAllShares
  <2>2. QED
    BY Zenon, <1>1, <1>2, <2>1, NoShares, SameShares
<1>4. CASE StopShare(p)
  <2> DEFINE t == op[p].subj
             ts == types[t] \ {op[p].val}
  <2>1. \/ UNCHANGED <<sharing, types>>
        \/ /\ t \in sharing /\ t \in DOMAIN types /\ sharing' = sharing
           /\ types' = Put(types, t, ts)
        \/ Unshared(t)
    BY Zenon, <1>4 DEF StopShare, Typed
  <2>2. CASE t \in sharing /\ t \in DOMAIN types /\ sharing' = sharing /\ types' = Put(types, t, ts)
    <3>1. t \in Peer /\ sharing' = sharing \cup {t}
      BY ZenonT(30), <2>2 DEF ShareOK
    <3>2. ts \in SUBSET Type /\ \A u, w \in ts : SameSlot(u, w) => u = w
      BY <2>2 DEF ShareOK, SlotsExclusive
    <3> HIDE DEF ts, t
    <3>3. QED
      BY Zenon, <1>1, <1>2, <2>2, <3>1, <3>2, Retyped
  <2> HIDE DEF ts, t
  <2>3. QED
    BY Zenon, <1>1, <1>2, <2>1, <2>2, SameShares, UnsharedKeeps
<1>5. QED
  BY <1>3, <1>4

\* A room that is removed, with its last peer, keeps its permission only.
LEMMA RemoveKeeps ==
    ASSUME ListOK, ShareOK, RestOK, ViewsOK, NEW p \in Peer, NEW t, UNCHANGED <<perm, late, left, view>>,
           peers' = peers \ {t},
           \/ /\ peers' = {} /\ listed' = <<>> /\ sharing' = {} /\ types' = <<>>
              /\ viewers' = [q \in Peer |-> 0] /\ revoked' = {}
           \/ (Unshared(t) \/ UNCHANGED <<sharing, types>>) /\ UNCHANGED <<listed, viewers, revoked>>
    PROVE  ListOK' /\ ShareOK' /\ RestOK' /\ ViewsOK'
<1>1. ListOK' /\ ViewsOK'
  BY Zenon, SameList, SameViews, Dropped
<1>2. ShareOK'
  BY Zenon, SameShares, NoShares, UnsharedKeeps
<1>3. RestOK'
  BY ConfigAssumption DEF RestOK
<1>4. QED
  BY <1>1, <1>2, <1>3


\* The kick, step by step.
LEMMA KickTakeKeeps ==
    ASSUME ListOK, ShareOK, RestOK, ViewsOK, NEW p \in Peer, KickTake(p), op[p].subj \in Peer
    PROVE  /\ ListOK' /\ ShareOK' /\ RestOK' /\ ViewsOK'
           /\ UNCHANGED <<peers, late>> /\ viewers' = [viewers EXCEPT ![op[p].subj] = 0]
<1>1. /\ UNCHANGED <<listed, sharing, types, view, peers, perm, revoked, late, left>>
      /\ viewers' = [viewers EXCEPT ![op[p].subj] = 0]
  BY Zenon DEF KickTake, Proceed, histVars
<1>2. ListOK' /\ ShareOK' /\ ViewsOK'
  BY ZenonT(30), <1>1, SameList, SameShares, SameViews
<1>3. viewers' \in [Peer -> 0 .. MaxViewers]
  BY <1>1, ConfigAssumption DEF RestOK
<1>4. QED
  BY Zenon, <1>1, <1>2, <1>3 DEF RestOK

LEMMA KickRemoveKeeps ==
    ASSUME ListOK, ShareOK, RestOK, ViewsOK, NEW p \in Peer, KickRemove(p)
    PROVE  /\ ListOK' /\ ShareOK' /\ RestOK' /\ ViewsOK'
           /\ UNCHANGED late /\ peers' = peers \ {op[p].subj}
           /\ \/ peers' = {} /\ viewers' = [q \in Peer |-> 0]
              \/ peers' # {} /\ UNCHANGED viewers
<1>1. RemovePeer(op[p].subj) /\ UNCHANGED <<late, left, view>>
  BY Zenon DEF KickRemove, Proceed, histVars
<1>2. UNCHANGED perm /\ peers' = peers \ {op[p].subj}
  BY Zenon, <1>1 DEF RemovePeer
<1>3. \/ /\ peers' = {} /\ listed' = <<>> /\ sharing' = {} /\ types' = <<>>
         /\ viewers' = [q \in Peer |-> 0] /\ revoked' = {}
      \/ peers' # {} /\ UNCHANGED <<sharing, types>> /\ UNCHANGED <<listed, viewers, revoked>>
  BY Zenon, <1>1 DEF RemovePeer
<1>4. QED
  BY Zenon, <1>1, <1>2, <1>3, RemoveKeeps

LEMMA KickDelistKeeps ==
    ASSUME Tasks, ListOK, ShareOK, RestOK, ViewsOK, NEW p \in Peer, KickDelist(p)
    PROVE  /\ ListOK' /\ ShareOK' /\ RestOK' /\ ViewsOK'
           /\ UNCHANGED <<peers, viewers, late>>
<1>1. UNCHANGED <<sharing, types, view, peers, perm, viewers, late, left>>
  BY Zenon DEF KickDelist, Dispatch
<1>2. listed' = Drop(listed, op[p].subj) /\ revoked' \in {revoked, revoked \cup {op[p].subj}}
  BY ZenonT(30) DEF KickDelist
<1>3. op[p].subj \in Peer
  <2>1. TaskOK(p)
    BY Zenon DEF Tasks
  <2>2. QED
    BY <2>1 DEF TaskOK, TaskFits, KickDelist
<1>4. ListOK' /\ ShareOK' /\ ViewsOK'
  BY ZenonT(30), <1>1, <1>2, Dropped, SameShares, SameViews
<1>5. revoked' \subseteq Peer
  BY <1>2, <1>3 DEF RestOK
<1>6. QED
  BY Zenon, <1>1, <1>4, <1>5 DEF RestOK

\* Viewer windows.
LEMMA ViewerKeeps ==
    ASSUME ListOK, ShareOK, RestOK, ViewsOK, NEW p \in Peer, RecordViewer(p)
    PROVE  /\ ListOK' /\ ShareOK' /\ RestOK' /\ ViewsOK'
           /\ UNCHANGED peers
           /\ \/ UNCHANGED <<viewers, late>>
              \/ /\ peers # {} /\ late \subseteq late' /\ late' \subseteq late \cup {p}
                 /\ \A q \in Peer \ {p} : viewers'[q] = viewers[q]
                 /\ (KickUnderWay(p) \/ p \notin peers) => p \in late'
<1>1. UNCHANGED <<listed, sharing, types, view, peers, perm, revoked, left>> /\ Finish(p)
  BY Zenon DEF RecordViewer, Finish
<1>2. ListOK' /\ ShareOK' /\ ViewsOK'
  BY Zenon, <1>1, SameList, SameShares, SameViews
<1>3. CASE UNCHANGED <<viewers, late>>
  BY Zenon, <1>1, <1>2, <1>3 DEF RestOK
<1>4. CASE /\ peers # {} /\ viewers[p] < MaxViewers
           /\ viewers' = [viewers EXCEPT ![p] = @ + 1]
           /\ late' = IF KickUnderWay(p) \/ p \notin peers THEN late \cup {p} ELSE late
  <2>1. viewers' \in [Peer -> 0 .. MaxViewers] /\ \A q \in Peer \ {p} : viewers'[q] = viewers[q]
    BY <1>4, ConfigAssumption DEF RestOK
  <2>2. late \subseteq late' /\ late' \subseteq late \cup {p} /\ late' \subseteq Peer
    BY <1>4 DEF RestOK
  <2>3. (KickUnderWay(p) \/ p \notin peers) => p \in late'
    BY <1>4
  <2>4. RestOK'
    BY Zenon, <1>1, <2>1, <2>2 DEF RestOK
  <2>5. QED
    BY ZenonT(30), <1>1, <1>2, <1>4, <2>1, <2>2, <2>3, <2>4
<1>5. QED
  BY Zenon, <1>3, <1>4 DEF RecordViewer

\* Joining.
LEMMA JoinerKeeps ==
    ASSUME ListOK, ShareOK, RestOK, ViewsOK, NEW p \in Peer, JoinAdd(p) \/ JoinList(p) \/ JoinSnapshot(p)
    PROVE  /\ ListOK' /\ ShareOK' /\ RestOK' /\ ViewsOK'
           /\ UNCHANGED <<viewers, late>>
           /\ peers' = peers \/ peers' = peers \cup {p}
<1>1. /\ UNCHANGED <<sharing, types, view, perm, viewers, revoked, late, left>>
      /\ listed' = listed \/ listed' = Put(listed, p, Fresh)
      /\ peers' = peers \/ peers' = peers \cup {p}
  BY Zenon DEF JoinAdd, JoinList, JoinSnapshot, Proceed, roomVars, histVars
<1>2. ListOK' /\ ShareOK' /\ ViewsOK'
  BY Zenon, <1>1, SameList, Added, SameShares, SameViews
<1>3. RestOK'
  BY <1>1 DEF RestOK
<1>4. QED
  BY Zenon, <1>1, <1>2, <1>3

\* Leaving, step by step.
LEMMA CleanupKeeps ==
    ASSUME ListOK, ShareOK, RestOK, ViewsOK, NEW p \in Peer, CleanupShare(p)
    PROVE  /\ ListOK' /\ ShareOK' /\ RestOK' /\ ViewsOK'
           /\ UNCHANGED <<peers, viewers, late>>
<1>1. UNCHANGED <<listed, view, peers, perm, viewers, revoked, late, left>> /\ Unshared(p)
  BY Zenon DEF CleanupShare
<1>2. ListOK' /\ ShareOK' /\ ViewsOK'
  BY Zenon, <1>1, SameList, UnsharedKeeps, SameViews
<1>3. QED
  BY Zenon, <1>1, <1>2 DEF RestOK

LEMMA LeaveTakeKeeps ==
    ASSUME ListOK, ShareOK, RestOK, ViewsOK, NEW p \in Peer, LeaveTake(p)
    PROVE  /\ ListOK' /\ ShareOK' /\ RestOK' /\ ViewsOK'
           /\ UNCHANGED <<peers, late>> /\ viewers' = [viewers EXCEPT ![p] = 0]
<1>1. /\ UNCHANGED <<listed, sharing, types, view, peers, perm, revoked, late, left>>
      /\ viewers' = [viewers EXCEPT ![p] = 0]
  BY Zenon DEF LeaveTake, Proceed, histVars
<1>2. ListOK' /\ ShareOK' /\ ViewsOK'
  BY Zenon, <1>1, SameList, SameShares, SameViews
<1>3. viewers' \in [Peer -> 0 .. MaxViewers]
  BY <1>1, ConfigAssumption DEF RestOK
<1>4. QED
  BY Zenon, <1>1, <1>2, <1>3 DEF RestOK

LEMMA LeaveDropKeeps ==
    ASSUME ListOK, ShareOK, RestOK, ViewsOK, NEW p \in Peer, LeaveDrop(p)
    PROVE  /\ ListOK' /\ ShareOK' /\ RestOK' /\ ViewsOK'
           /\ UNCHANGED late /\ peers' = peers \ {p}
           /\ \/ peers' = {} /\ viewers' = [q \in Peer |-> 0]
              \/ peers' # {} /\ UNCHANGED viewers
<1>1. UNCHANGED <<perm, late, left, view>> /\ peers' = peers \ {p}
  BY Zenon DEF LeaveDrop
<1>2. \/ /\ peers' = {} /\ listed' = <<>> /\ sharing' = {} /\ types' = <<>>
         /\ viewers' = [q \in Peer |-> 0] /\ revoked' = {}
      \/ peers' # {} /\ Unshared(p) /\ UNCHANGED <<listed, viewers, revoked>>
  BY Zenon DEF LeaveDrop
<1>3. QED
  BY Zenon, <1>1, <1>2, RemoveKeeps

LEMMA LeaveUnlistKeeps ==
    ASSUME ListOK, ShareOK, RestOK, ViewsOK, NEW p \in Peer, LeaveUnlist(p)
    PROVE  /\ ListOK' /\ ShareOK' /\ RestOK' /\ ViewsOK'
           /\ UNCHANGED <<peers, viewers, late>>
<1>1. UNCHANGED <<sharing, types, view, peers, perm, viewers, late, left>>
  BY Zenon DEF LeaveUnlist, Dispatch
<1>2. listed' = Drop(listed, p) /\ revoked' \in {revoked, revoked \cup {p}}
  BY Zenon DEF LeaveUnlist
<1>3. ListOK' /\ ShareOK' /\ ViewsOK'
  BY Zenon, <1>1, <1>2, Dropped, SameShares, SameViews
<1>4. revoked' \subseteq Peer
  BY <1>2 DEF RestOK
<1>5. QED
  BY Zenon, <1>1, <1>3, <1>4 DEF RestOK


(***************************************************************************)
(* The viewer windows.                                                     *)
(***************************************************************************)
\* A kick that another task carries out is still under way after a step of p; one
\* that p carries out had taken the windows.
LEMMA KickGoesOn ==
    ASSUME Tasks, Watch, NEW p \in Peer, Only(p), NEW t \in Peer, KickUnderWay(t)
    PROVE  KickUnderWay(t)' \/ viewers[t] = 0 \/ t \in late
<1> DEFINE rec == [kind |-> "kick", subj |-> t, val |-> None]
<1>1. PICK q \in Peer : op[q] = rec /\ pc[q] \in {"remove", "delist"}
  BY Zenon DEF KickUnderWay
<1>2. CASE q # p
  <2>1. op'[q] = rec /\ pc'[q] \in {"remove", "delist"}
    BY Zenon, <1>1, <1>2 DEF Only
  <2>2. QED
    BY Zenon, <2>1 DEF KickUnderWay
<1>3. CASE q = p
  <2>1. Kicked(q) /\ op[q].subj = t
    BY <1>1 DEF Watch
  <2>2. QED
    BY ZenonT(30), <1>1, <2>1 DEF Kicked
<1>4. QED
  BY <1>2, <1>3

\* A step that gives nobody a window.
LEMMA NoNewWindow ==
    ASSUME Tasks, Watch, NEW p \in Peer, Only(p), UNCHANGED late,
           \A t \in Peer : viewers'[t] \in {viewers[t], 0},
           \A t \in Peer : t \in peers /\ t \notin peers' => viewers'[t] = 0 \/ t \in late,
           peers' = {} => \A t \in Peer : viewers'[t] = 0,
           Left(p)', Kicked(p)'
    PROVE  Watch'
<1>1. ASSUME NEW q \in Peer \ {p} PROVE Left(q)' /\ Kicked(q)'
  <2>1. Left(q) /\ Kicked(q) /\ TaskOK(q)
    BY Zenon, <1>1 DEF Watch, Tasks
  <2>2. pc'[q] = pc[q] /\ op'[q] = op[q]
    BY Zenon, <1>1 DEF Only
  <2>3. Left(q)'
    BY Zenon, <2>1, <2>2 DEF Left
  <2>4. pc[q] \in {"remove", "delist"} => op[q].subj \in Peer
    BY Zenon, <2>1 DEF TaskOK, TaskFits
  <2>5. Kicked(q)'
    BY ZenonT(30), <2>1, <2>2, <2>4 DEF Kicked
  <2>6. QED
    BY <2>3, <2>5
<1>2. ASSUME NEW t \in Peer, t \notin peers', ~KickUnderWay(t)', t \notin late'
      PROVE  viewers'[t] = 0
  <2>1. CASE t \in peers
    BY Zenon, <1>2, <2>1
  <2>2. CASE t \notin peers /\ KickUnderWay(t)
    <3>1. viewers[t] = 0
      BY Zenon, <1>2, <2>2, KickGoesOn
    <3>2. QED
      BY <3>1
  <2>3. CASE t \notin peers /\ ~KickUnderWay(t)
    <3>1. viewers[t] = 0
      BY Zenon, <1>2, <2>3 DEF Watch
    <3>2. QED
      BY <3>1
  <2>4. QED
    BY <2>1, <2>2, <2>3
<1>3. QED
  BY Zenon, <1>1, <1>2 DEF Watch

\* Most steps leave peers and windows alone.
LEMMA QuietWatch ==
    ASSUME Tasks, Watch, NEW p \in Peer, Only(p), UNCHANGED <<peers, viewers, late>>,
           Left(p)', Kicked(p)'
    PROVE  Watch'
<1>1. \A t \in Peer : viewers'[t] \in {viewers[t], 0}
  BY Zenon
<1>2. \A t \in Peer : t \in peers /\ t \notin peers' => viewers'[t] = 0 \/ t \in late
  BY Zenon
<1>3. peers' = {} => \A t \in Peer : viewers'[t] = 0
  BY Zenon DEF Watch
<1>4. QED
  BY Zenon, <1>1, <1>2, <1>3, NoNewWindow

\* A task in a place that says nothing of windows.
LEMMA CalmWatch ==
    ASSUME NEW p \in Peer, Calm(p)
    PROVE  Left(p)' /\ Kicked(p)'
BY DEF Calm, Left, Kicked

\* A message, a join, a closed socket.
LEMMA RequestWatch ==
    ASSUME ControlsInv, NEW p \in Peer, Message(p) \/ Join(p) \/ Disconnect(p)
    PROVE  Watch' /\ Moves(p)
<1>1. UNCHANGED <<peers, viewers, late>>
  BY Zenon, RequestKeeps DEF ControlsInv
<1>2. /\ Moves(p) /\ pc'[p] \in {"apply", "role", "token", "leave", "add", "unshare", "closed"}
      /\ (pc'[p] = "closed" => peers = {})
  <2>1. CASE Message(p)
    <3>1. Moves(p) /\ pc'[p] \in {"apply", "role", "token", "leave"}
      BY Zenon, <2>1, MessageMoves DEF ControlsInv
    <3>2. QED
      BY <3>1
  <2>2. CASE Join(p)
    <3>1. Moves(p) /\ pc'[p] = "add"
      BY Zenon, <2>2, JoinMoves DEF ControlsInv
    <3>2. QED
      BY <3>1
  <2>3. CASE Disconnect(p)
    BY ZenonT(30), <2>3, DisconnectMoves DEF ControlsInv
  <2>4. QED
    BY <2>1, <2>2, <2>3
<1>3. Left(p)' /\ Kicked(p)'
  BY <1>1, <1>2 DEF Left, Kicked, ControlsInv, Watch
<1>4. QED
  BY Zenon, <1>1, <1>2, <1>3, QuietWatch DEF ControlsInv, Moves

\* The kick takes the windows first, and only then the peer.
LEMMA KickWatch ==
    ASSUME ControlsInv, NEW p \in Peer, KickTake(p) \/ KickRemove(p)
    PROVE  Watch'
<1> DEFINE t == op[p].subj
<1>0. viewers \in [Peer -> 0 .. MaxViewers] /\ Tasks /\ Watch
  BY Zenon DEF ControlsInv, RestOK
<1>1. /\ Moves(p) /\ op'[p] = op[p] /\ t \in Peer
      /\ KickTake(p) => pc'[p] = "remove"
      /\ KickRemove(p) => pc'[p] = "delist"
  BY Zenon, KickTakeMoves DEF ControlsInv
<1>2. Left(p)'
  BY <1>1 DEF Left
<1>3. CASE KickTake(p)
  <2>1. UNCHANGED <<peers, late>> /\ viewers' = [viewers EXCEPT ![t] = 0]
    BY Zenon, <1>1, <1>3, KickTakeKeeps DEF ControlsInv
  <2>2. \A q \in Peer : viewers'[q] \in {viewers[q], 0}
    BY Zenon, <1>0, <2>1
  <2>3. viewers'[t] = 0
    BY <1>0, <1>1, <2>1
  <2>4. Kicked(p)'
    BY Zenon, <1>1, <2>3 DEF Kicked
  <2>5. \A q \in Peer : q \in peers /\ q \notin peers' => viewers'[q] = 0 \/ q \in late
    BY Zenon, <2>1
  <2>6. peers' = {} => \A q \in Peer : viewers'[q] = 0
    BY <1>0, <2>1, <2>2 DEF Watch
  <2>7. QED
    BY ZenonT(30), <1>0, <1>1, <1>2, <2>1, <2>2, <2>4, <2>5, <2>6, NoNewWindow DEF Moves
<1>4. CASE KickRemove(p)
  <2>1. /\ UNCHANGED late /\ peers' = peers \ {t}
        /\ \/ peers' = {} /\ viewers' = [q \in Peer |-> 0]
           \/ peers' # {} /\ UNCHANGED viewers
    BY Zenon, <1>4, KickRemoveKeeps DEF ControlsInv
  <2>2. pc[p] = "remove" /\ Kicked(p)
    BY ZenonT(30), <1>0, <1>4 DEF KickRemove, Watch
  <2>3. viewers[t] = 0 \/ t \in late
    BY Zenon, <2>2 DEF Kicked
  <2>4. \A q \in Peer : viewers'[q] \in {viewers[q], 0}
    BY Zenon, <2>1
  <2>5. viewers'[t] = 0 \/ t \in late
    BY <1>1, <2>1, <2>3
  <2>6. Kicked(p)'
    BY ZenonT(30), <1>1, <2>1, <2>5 DEF Kicked
  <2>7. \A q \in Peer : q \in peers /\ q \notin peers' => viewers'[q] = 0 \/ q \in late
    BY <2>1, <2>5
  <2>8. peers' = {} => \A q \in Peer : viewers'[q] = 0
    BY <2>1
  <2>9. QED
    BY ZenonT(30), <1>0, <1>1, <1>2, <2>1, <2>4, <2>6, <2>7, <2>8, NoNewWindow DEF Moves
<1>5. QED
  BY <1>3, <1>4


\* The leaver gives up its windows first, and only then its place.
LEMMA LeaveWatch ==
    ASSUME ControlsInv, NEW p \in Peer, LeaveTake(p) \/ LeaveDrop(p) \/ LeaveUnlist(p)
    PROVE  Watch' /\ Moves(p)
<1>0. viewers \in [Peer -> 0 .. MaxViewers] /\ Tasks /\ Watch
  BY Zenon DEF ControlsInv, RestOK
<1>1. CASE LeaveTake(p)
  <2>1. UNCHANGED <<peers, late>> /\ viewers' = [viewers EXCEPT ![p] = 0]
    BY Zenon, <1>1, LeaveTakeKeeps DEF ControlsInv
  <2>2. Moves(p) /\ pc'[p] = "drop"
    BY Zenon, <1>0, <1>1, LeaveTakeMoves
  <2>3. viewers'[p] = 0 /\ \A q \in Peer : viewers'[q] \in {viewers[q], 0}
    BY Zenon, <1>0, <2>1
  <2>4. Left(p)' /\ Kicked(p)'
    BY <2>2, <2>3 DEF Left, Kicked
  <2>5. \A q \in Peer : q \in peers /\ q \notin peers' => viewers'[q] = 0 \/ q \in late
    BY Zenon, <2>1
  <2>6. peers' = {} => \A q \in Peer : viewers'[q] = 0
    BY <1>0, <2>1, <2>3 DEF Watch
  <2>7. QED
    BY ZenonT(30), <1>0, <2>1, <2>2, <2>3, <2>4, <2>5, <2>6, NoNewWindow DEF Moves
<1>2. CASE LeaveDrop(p)
  <2>1. /\ UNCHANGED late /\ peers' = peers \ {p}
        /\ \/ peers' = {} /\ viewers' = [q \in Peer |-> 0]
           \/ peers' # {} /\ UNCHANGED viewers
    BY Zenon, <1>2, LeaveDropKeeps DEF ControlsInv
  <2>2. Moves(p) /\ pc'[p] = "unlist"
    BY Zenon, <1>0, <1>2, LeaveDropMoves
  <2>3. viewers[p] = 0
    BY Zenon, <1>0, <1>2 DEF Watch, Left, LeaveDrop
  <2>4. viewers'[p] = 0 /\ \A q \in Peer : viewers'[q] \in {viewers[q], 0}
    BY ZenonT(30), <2>1, <2>3
  <2>5. Left(p)' /\ Kicked(p)'
    BY <2>2, <2>4 DEF Left, Kicked
  <2>6. \A q \in Peer : q \in peers /\ q \notin peers' => viewers'[q] = 0 \/ q \in late
    BY <2>1, <2>4
  <2>7. peers' = {} => \A q \in Peer : viewers'[q] = 0
    BY <2>1
  <2>8. QED
    BY ZenonT(30), <1>0, <2>1, <2>2, <2>4, <2>5, <2>6, <2>7, NoNewWindow DEF Moves
<1>3. CASE LeaveUnlist(p)
  <2>1. UNCHANGED <<peers, viewers, late>>
    BY Zenon, <1>3, LeaveUnlistKeeps DEF ControlsInv
  <2>2. Moves(p) /\ pc'[p] = "cast"
    BY ZenonT(30), <1>0, <1>3, LeaveUnlistMoves
  <2>3. viewers[p] = 0
    BY <1>0, <1>3 DEF Watch, Left, LeaveUnlist
  <2>4. Left(p)' /\ Kicked(p)'
    BY <2>1, <2>2, <2>3 DEF Left, Kicked
  <2>5. QED
    BY Zenon, <1>0, <2>1, <2>2, <2>4, QuietWatch DEF Moves
<1>4. QED
  BY <1>1, <1>2, <1>3

\* A joiner adds a peer, or finds the room gone and closes.
LEMMA JoinerWatch ==
    ASSUME ControlsInv, NEW p \in Peer, JoinAdd(p) \/ JoinList(p) \/ JoinSnapshot(p)
    PROVE  Watch' /\ Moves(p)
<1>0. Tasks /\ Watch
  BY Zenon DEF ControlsInv
<1>1. UNCHANGED <<viewers, late>> /\ (peers' = peers \/ peers' = peers \cup {p})
  BY Zenon, JoinerKeeps DEF ControlsInv
<1>2. Moves(p) /\ (Calm(p) \/ (peers = {} /\ pc'[p] = "closed"))
  BY Zenon, JoinerMoves DEF ControlsInv
<1>3. Left(p)' /\ Kicked(p)'
  <2>1. CASE Calm(p)
    BY ZenonT(30), <2>1, CalmWatch
  <2>2. CASE peers = {} /\ pc'[p] = "closed"
    BY <1>0, <1>1, <2>2 DEF Watch, Left, Kicked
  <2>3. QED
    BY <1>2, <2>1, <2>2
<1>4. \A q \in Peer : viewers'[q] \in {viewers[q], 0}
  BY Zenon, <1>1
<1>5. \A q \in Peer : q \in peers /\ q \notin peers' => viewers'[q] = 0 \/ q \in late
  BY <1>1
<1>6. peers' = {} => \A q \in Peer : viewers'[q] = 0
  <2>1. peers' = {} => peers = {}
    BY <1>1
  <2>2. QED
    BY Zenon, <1>0, <1>1, <2>1 DEF Watch
<1>7. QED
  BY Zenon, <1>0, <1>1, <1>2, <1>3, <1>4, <1>5, <1>6, NoNewWindow DEF Moves

\* A window is recorded: for a participant that is being kicked, too late.
LEMMA ViewerWatch ==
    ASSUME ControlsInv, NEW p \in Peer, RecordViewer(p)
    PROVE  Watch' /\ Moves(p)
<1>0. Tasks /\ Watch /\ pc[p] = "token" /\ Finish(p)
  BY Zenon DEF ControlsInv, RecordViewer
<1>1. Moves(p) /\ Calm(p)
  <2>1. pc[p] # "cast"
    BY <1>0
  <2>2. QED
    BY Zenon, <1>0, <2>1, FinishCalm
<1>2. Left(p)' /\ Kicked(p)' /\ Only(p)
  BY Zenon, <1>1, CalmWatch DEF Moves
<1>3. UNCHANGED peers
  BY Zenon, ViewerKeeps DEF ControlsInv
<1>4. CASE UNCHANGED <<viewers, late>>
  BY Zenon, <1>0, <1>1, <1>2, <1>3, <1>4, QuietWatch
<1>5. CASE /\ peers # {} /\ late \subseteq late' /\ late' \subseteq late \cup {p}
           /\ \A q \in Peer \ {p} : viewers'[q] = viewers[q]
           /\ (KickUnderWay(p) \/ p \notin peers) => p \in late'
  <2>1. ASSUME NEW q \in Peer \ {p} PROVE Left(q)' /\ Kicked(q)'
    <3>1. Left(q) /\ Kicked(q) /\ TaskOK(q)
      BY Zenon, <1>0, <2>1 DEF Watch, Tasks
    <3>2. pc'[q] = pc[q] /\ op'[q] = op[q]
      BY Zenon, <1>2, <2>1 DEF Only
    <3>3. Left(q)'
      BY Zenon, <1>5, <3>1, <3>2 DEF Left
    <3>4. Kicked(q)'
      <4> DEFINE t == op[q].subj
      <4>1. SUFFICES ASSUME pc[q] \in {"remove", "delist"} PROVE viewers'[t] = 0 \/ t \in late'
        BY ZenonT(30), <3>2 DEF Kicked
      <4>2. t \in Peer /\ op[q] = [kind |-> "kick", subj |-> t, val |-> None]
        BY <3>1, <4>1 DEF TaskOK, TaskFits
      <4>3. CASE t = p
        BY Zenon, <1>5, <4>1, <4>2, <4>3 DEF KickUnderWay
      <4>4. CASE t # p
        BY ZenonT(30), <1>5, <3>1, <4>1, <4>2, <4>4 DEF Kicked
      <4>5. QED
        BY <4>3, <4>4
    <3>5. QED
      BY <3>3, <3>4
  <2>2. ASSUME NEW t \in Peer, t \notin peers', ~KickUnderWay(t)', t \notin late'
        PROVE  viewers'[t] = 0
    <3>1. t # p /\ t \notin peers /\ t \notin late
      BY <1>3, <1>5, <2>2
    <3>2. viewers[t] = 0
      BY ZenonT(30), <1>0, <1>2, <2>2, <3>1, KickGoesOn DEF Watch
    <3>3. QED
      BY Zenon, <1>5, <3>1, <3>2
  <2>3. peers' # {}
    BY <1>3, <1>5
  <2>4. QED
    BY ZenonT(30), <1>1, <1>2, <2>1, <2>2, <2>3 DEF Watch
<1>6. QED
  BY Zenon, <1>4, <1>5, ViewerKeeps DEF ControlsInv


\* The handlers that neither take nor give windows nor change the peers.
LEMMA CalmStep ==
    ASSUME ControlsInv, NEW p \in Peer, Moves(p), Calm(p), UNCHANGED <<peers, viewers, late>>,
           ListOK', ShareOK', RestOK', ViewsOK'
    PROVE  ControlsInv'
<1>1. Tasks'
  BY Zenon, OthersFit DEF ControlsInv, Moves
<1>2. Watch'
  BY Zenon, CalmWatch, QuietWatch DEF ControlsInv, Moves
<1>3. QED
  BY Zenon, <1>1, <1>2 DEF ControlsInv

\* The others, whose effect on the windows has a lemma of its own.
LEMMA BusyStep ==
    ASSUME ControlsInv, NEW p \in Peer, Moves(p), Watch', ListOK', ShareOK', RestOK', ViewsOK'
    PROVE  ControlsInv'
BY Zenon, OthersFit DEF ControlsInv, Moves

Sets == INSTANCE FiniteSetTheorems

\* The facts about finite sets, for the operators as RoomControls sees them.
LEMMA SetsAgree ==
    /\ \A S : Sets!IsFiniteSet(S) <=> IsFiniteSet(S)
    /\ \A S : Sets!Cardinality(S) = Cardinality(S)
<1>1. \A S : Sets!IsFiniteSet(S) <=> IsFiniteSet(S)
  BY Zenon DEF Sets!IsFiniteSet, IsFiniteSet
<1>2. \A S : Sets!Cardinality(S) = Cardinality(S)
  BY DEF Sets!Cardinality, Cardinality
<1>3. QED
  BY ZenonT(30), <1>1, <1>2

\* The sharers in some order, as handle_stop_all_shares drains them.
LEMMA SomeOrder ==
    ASSUME ShareOK
    PROVE  LET gone == CHOOSE s \in [1 .. Cardinality(sharing) -> sharing] :
                         \A i, j \in DOMAIN s : i # j => s[i] # s[j]
           IN  /\ Cardinality(sharing) \in Nat
               /\ gone \in [1 .. Cardinality(sharing) -> sharing]
               /\ sharing # {} => Cardinality(sharing) # 0
<1>1. IsFiniteSet(sharing)
  BY ZenonT(30), ConfigAssumption, SetsAgree, Sets!FS_Subset DEF ShareOK
<1>2. Cardinality(sharing) \in Nat /\ (sharing # {} => Cardinality(sharing) # 0)
  BY ZenonT(30), <1>1, SetsAgree, Sets!FS_CardinalityType, Sets!FS_EmptySet
<1>3. Sets!ExistsBijection(1 .. Cardinality(sharing), sharing)
  BY Zenon, <1>1, SetsAgree, Sets!FS_CardinalityType
<1>4. PICK f \in Sets!Bijection(1 .. Cardinality(sharing), sharing) : TRUE
  BY <1>3 DEF Sets!ExistsBijection
<1>5. /\ f \in [1 .. Cardinality(sharing) -> sharing]
      /\ \A i, j \in DOMAIN f : i # j => f[i] # f[j]
  BY <1>4 DEF Sets!Bijection, Sets!Injection, Sets!IsInjective
<1>6. QED
  BY Zenon, <1>2, <1>5

\* handle_stop_all_shares: a signal per sharer.
LEMMA StopAllMoves ==
    ASSUME Tasks, ShareOK, NEW p \in Peer, StopAllShares(p)
    PROVE  Moves(p) /\ Calm(p)
<1>1. CASE Finish(p)
  <2>1. pc[p] # "cast"
    BY DEF StopAllShares
  <2>2. QED
    BY ZenonT(30), <1>1, <2>1, FinishCalm
<1>2. CASE ~Finish(p)
  <2> DEFINE n == Cardinality(sharing)
             gone == CHOOSE s \in [1 .. n -> sharing] :
                       \A i, j \in DOMAIN s : i # j => s[i] # s[j]
             a(x) == Signal("all", "share_stopped", x, None)
             g == [i \in DOMAIN gone |-> a(gone[i])]
  <2>1. Dispatch(p, g) /\ op[p].kind = "stop_all" /\ sharing # {}
    BY Zenon, <1>2 DEF StopAllShares
  <2>2. n \in Nat /\ gone \in [1 .. n -> sharing] /\ n # 0
    BY ZenonT(30), <2>1, SomeOrder
  <2>3. \A x : MsgOK(a(x).msg)
    BY SaysOK
  <2> HIDE DEF a, n, gone
  <2>4. g \in Seq({a(x) : x \in sharing}) /\ g # <<>> /\ DOMAIN g = 1 .. n
    <3>1. g \in [1 .. n -> {a(x) : x \in sharing}]
      BY <2>2
    <3>2. \A T : Seq(T) = UNION {[1 .. m -> T] : m \in Nat}
      OBVIOUS
    <3>3. g \in Seq({a(x) : x \in sharing})
      BY ZenonT(30), <2>2, <3>1, <3>2
    <3>4. 1 \in DOMAIN g
      BY <2>2, <3>1
    <3>5. QED
      BY ZenonT(30), <2>2, <3>1, <3>3, <3>4, NothingThere
  <2>5. \A i \in DOMAIN g : MsgOK(g[i].msg)
    BY Zenon, <2>3
  <2> HIDE DEF g
  <2>6. SignalsOK(g)
    BY ZenonT(30), <2>4, <2>5, Signals
  <2>7. out' = [out EXCEPT ![p] = g] /\ GoTo(p, "cast") /\ UNCHANGED <<op, snap, todo>>
        /\ op[p].kind # "leave"
    BY <2>1 DEF Dispatch
  <2>8. QED
    BY Zenon, <2>4, <2>6, <2>7, CastCalm
<1>3. QED
  BY <1>1, <1>2

\* Every handler keeps the invariant.
LEMMA HandleStep ==
    ASSUME ControlsInv, NEW p \in Peer, Handle(p)
    PROVE  ControlsInv'
<1>0. ListOK /\ ShareOK /\ RestOK /\ ViewsOK /\ Tasks /\ Watch
  BY Zenon DEF ControlsInv
<1>1. CASE ApplySelfFlag(p)
  BY ZenonT(30), <1>0, <1>1, SelfFlagMoves, SelfFlagKeeps, CalmStep
<1>2. CASE ResolveRole(p) \/ CheckTarget(p)
  <2>1. UNCHANGED <<listed, sharing, types, view, peers, perm, viewers, revoked, late, left>>
    BY Zenon, <1>2 DEF ResolveRole, CheckTarget, Finish, Proceed, roomVars, histVars
  <2>2. QED
    BY ZenonT(30), <1>0, <1>2, <2>1, RoleMoves, IdleKeeps, CalmStep
<1>3. CASE ApplyMute(p)
  BY ZenonT(30), <1>0, <1>3, HostMoves, MuteKeeps, CalmStep
<1>4. CASE ApplyPermission(p)
  BY ZenonT(30), <1>0, <1>4, HostMoves, PermissionKeeps, CalmStep
<1>5. CASE KickTake(p)
  <2>1. Moves(p) /\ op[p].subj \in Peer
    BY Zenon, <1>0, <1>5, KickTakeMoves
  <2>2. QED
    BY ZenonT(30), <1>0, <1>5, <2>1, KickTakeKeeps, KickWatch, BusyStep
<1>6. CASE KickRemove(p)
  <2>1. Moves(p)
    BY ZenonT(30), <1>0, <1>6, KickTakeMoves
  <2>2. QED
    BY ZenonT(30), <1>0, <1>6, <2>1, KickRemoveKeeps, KickWatch, BusyStep
<1>7. CASE KickDelist(p)
  BY ZenonT(30), <1>0, <1>7, KickDelistMoves, KickDelistKeeps, CalmStep
<1>8. CASE StartShare(p)
  BY ZenonT(30), <1>0, <1>8, ShareMoves, StartShareKeeps, CalmStep
<1>9. CASE StopShare(p)
  BY ZenonT(30), <1>0, <1>9, ShareMoves, StopShareKeeps, CalmStep
<1>10. CASE StopAllShares(p)
  BY ZenonT(30), <1>0, <1>10, StopAllMoves, StopShareKeeps, CalmStep
<1>11. CASE RecordViewer(p)
  BY ZenonT(30), <1>0, <1>11, ViewerKeeps, ViewerWatch, BusyStep
<1>12. CASE JoinAdd(p) \/ JoinList(p) \/ JoinSnapshot(p)
  BY ZenonT(30), <1>0, <1>12, JoinerKeeps, JoinerWatch, BusyStep
<1>13. CASE CleanupShare(p)
  BY Zenon, <1>0, <1>13, CleanupMoves, CleanupKeeps, CalmStep
<1>14. CASE LeaveTake(p)
  BY ZenonT(30), <1>0, <1>14, LeaveTakeKeeps, LeaveWatch, BusyStep
<1>15. CASE LeaveDrop(p)
  BY ZenonT(30), <1>0, <1>15, LeaveDropKeeps, LeaveWatch, BusyStep
<1>16. CASE LeaveUnlist(p)
  BY ZenonT(30), <1>0, <1>16, LeaveUnlistKeeps, LeaveWatch, BusyStep
<1>17. CASE Cast(p) \/ \E r \in Peer : Send(p, r)
  <2>1. Moves(p) /\ Sending(p) /\ ViewsOK'
    BY ZenonT(30), <1>0, <1>17, CastMoves
  <2>2. UNCHANGED <<listed, sharing, types, peers, perm, viewers, revoked, late, left>> /\ pc[p] = "cast"
    <3>1. CASE Cast(p)
      BY ZenonT(30), <3>1 DEF Cast, roomVars, histVars
    <3>2. ASSUME NEW r \in Peer, Send(p, r)
          PROVE  UNCHANGED <<listed, sharing, types, peers, perm, viewers, revoked, late, left>> /\ pc[p] = "cast"
      <4>1. TaskOK(p)
        BY ZenonT(30), <1>0 DEF Tasks
      <4>2. pc[p] = "cast"
        BY Zenon, <3>2, <4>1 DEF Send, TaskOK, TaskFits
      <4>3. QED
        BY Zenon, <3>2, <4>2 DEF Send, roomVars, histVars
    <3>3. QED
      BY ZenonT(30), <1>17, <3>1, <3>2
  <2>3. ListOK' /\ ShareOK' /\ RestOK'
    BY ZenonT(30), <1>0, <2>2, SameList, SameShares DEF RestOK
  <2>4. Left(p)
    BY ZenonT(30), <1>0 DEF Watch
  <2>5. Left(p)' /\ Kicked(p)'
    BY ZenonT(30), <2>1, <2>2, <2>4 DEF Sending, Left, Kicked
  <2>6. Watch'
    BY ZenonT(30), <1>0, <2>1, <2>2, <2>5, QuietWatch DEF Moves
  <2>7. QED
    BY ZenonT(30), <2>1, <2>3, <2>6, BusyStep
<1>18. QED
  BY ZenonT(30), <1>1, <1>2, <1>3, <1>4, <1>5, <1>6, <1>7, <1>8, <1>9, <1>10, <1>11, <1>12, <1>13,
     <1>14, <1>15, <1>16, <1>17 DEF Handle

\* The room starts in order.
LEMMA ControlsStart == Init => ControlsInv
<1> SUFFICES ASSUME Init PROVE ControlsInv
  OBVIOUS
<1>1. Present \subseteq Peer /\ MaxViewers \in Nat /\ Budget \in Nat
  BY Zenon, ConfigAssumption
<1>2. ListOK
  <2>1. Fresh \in Flags /\ ~Fresh.host
    BY Zenon DEF Fresh, Flags
  <2>2. QED
    BY ZenonT(30), <1>1, <2>1 DEF Init, ListOK, Roster, HostMuteHolds
<1>3. ShareOK
  BY Zenon, NothingThere DEF Init, ShareOK, SlotsExclusive
<1>4. RestOK
  BY SMTT(30), <1>1 DEF Init, RestOK, Perm
<1>5. ViewsOK
  <2> DEFINE f == [q \in Present |-> Stranger(Fresh)]
             v == [Unseen EXCEPT !.who = f]
  <2>1. \A q \in Present : f[q] \in Known
    BY ZenonT(30), FreshFlags, StrangerKnown
  <2>2. ViewOK(Unseen)
    BY NothingThere DEF Unseen, ViewOK, Perm
  <2>3. DOMAIN f = Present
    BY Zenon
  <2> HIDE DEF f
  <2>4. ViewOK(v)
    BY ZenonT(30), <1>1, <2>1, <2>2, <2>3, NewWho
  <2> HIDE DEF v
  <2>5. view = [p \in Peer |-> IF p \in Present THEN v ELSE Unseen]
    BY Zenon DEF Init, v, f
  <2>6. DOMAIN view = Peer /\ \A p \in Peer : view[p] \in {v, Unseen}
    BY <2>5
  <2>7. QED
    BY ZenonT(30), <2>2, <2>4, <2>6 DEF ViewsOK
<1>6. Tasks
  <2>1. Shapes
    BY DEF Init, Shapes, Place
  <2>2. SignalsOK(<<>>) /\ Roster(<<>>)
    BY NothingThere DEF SignalsOK, Roster
  <2>3. ASSUME NEW p \in Peer PROVE TaskOK(p)
    <3>1. pc[p] \in {"idle", "outside"} /\ op[p] = NoOp /\ snap[p] = <<>> /\ out[p] = <<>> /\ todo[p] = {}
      BY Zenon DEF Init
    <3>2. TaskFits(pc[p], NoOp, <<>>, <<>>, {})
      BY Zenon, <2>2, <3>1 DEF TaskFits, NoOp, None
    <3>3. QED
      BY Zenon, <3>1, <3>2 DEF TaskOK
  <2>4. QED
    BY Zenon, <2>1, <2>3 DEF Tasks
<1>7. Watch
  BY DEF Init, Watch, Left, Kicked
<1>8. QED
  BY ZenonT(30), <1>2, <1>3, <1>4, <1>5, <1>6, <1>7 DEF ControlsInv

\* Whatever the handlers of the connections do, and however they interleave: the
\* records, the tasks and the viewer windows stay in order.
THEOREM ControlsInductive == Spec => []ControlsInv
<1>1. ControlsInv /\ [Next]_vars => ControlsInv'
  <2> SUFFICES ASSUME ControlsInv, [Next]_vars PROVE ControlsInv'
    OBVIOUS
  <2>0. ListOK /\ ShareOK /\ RestOK /\ ViewsOK /\ Tasks /\ Watch
    BY ZenonT(30) DEF ControlsInv
  <2>1. CASE UNCHANGED vars
    <3>1. /\ UNCHANGED <<listed, sharing, types, view, peers, perm, viewers, revoked, late, left>>
          /\ UNCHANGED <<pc, op, snap, out, todo>>
      BY Zenon, <2>1 DEF vars, roomVars, taskVars, histVars
    <3>2. ListOK' /\ ShareOK' /\ RestOK' /\ ViewsOK'
      BY ZenonT(30), <2>0, <3>1, SameList, SameShares, SameViews DEF RestOK
    <3>3. Tasks'
      BY ZenonT(30), <2>0, <3>1 DEF Tasks, Shapes, TaskOK
    <3>4. Watch'
      BY ZenonT(30), <2>0, <3>1 DEF Watch, Left, Kicked, KickUnderWay
    <3>5. QED
      BY Zenon, <3>2, <3>3, <3>4 DEF ControlsInv
  <2>2. ASSUME NEW p \in Peer, Message(p) \/ Join(p) \/ Disconnect(p) PROVE ControlsInv'
    <3>1. Moves(p) /\ Watch'
      BY Zenon, <2>2, RequestWatch
    <3>2. QED
      BY ZenonT(30), <2>0, <2>2, <3>1, RequestKeeps, BusyStep
  <2>3. QED
    BY ZenonT(30), <2>1, <2>2, HandleStep DEF Next
<1>2. QED
  BY ControlsStart, <1>1, PTL DEF Spec

\* The records of shares and viewers keep their shape: a participant has at most one
\* share of each category, and recorded types only while sharing, through starts,
\* replacements, stops, kicks and leaves (screen_share.rs).
THEOREM SharesAlwaysFit == Spec => []SharesInv
<1>1. ControlsInv => SharesInv
  <2> SUFFICES ASSUME ControlsInv PROVE SharesInv
    OBVIOUS
  <2>1. TypeOK
    <3>1. \A p \in Peer : ViewOK(view[p]) /\ TaskOK(p)
      BY Zenon DEF ControlsInv, ViewsOK, Tasks
    <3>2. \A p \in Peer : /\ todo[p] \subseteq Peer
                          /\ DOMAIN view[p].who \subseteq Peer
                          /\ \A q \in DOMAIN view[p].who : view[p].who[q] \in Known
                          /\ view[p].audio \subseteq Peer
                          /\ view[p].perm \in Perm
      BY Zenon, <3>1 DEF ViewOK, TaskOK, TaskFits
    <3>3. DOMAIN types \subseteq Peer
      BY ZenonT(30) DEF ControlsInv, ShareOK, SlotsExclusive
    <3>4. QED
      BY ZenonT(30), <3>2, <3>3 DEF ControlsInv, ListOK, Roster, ShareOK, RestOK, Tasks, Shapes, TypeOK
  <2>2. QED
    BY ZenonT(30), <2>1 DEF ControlsInv, ShareOK, SharesInv
<1>2. QED
  BY <1>1, ControlsInductive, PTL

\* A participant muted by a host is muted, whatever it toggles and however its handler
\* and the host's interleave (handle_self_flag, handle_mute).
THEOREM HostMuteAlwaysHolds == Spec => []HostMuteHolds
<1>1. ControlsInv => HostMuteHolds
  BY Zenon DEF ControlsInv, ListOK
<1>2. QED
  BY <1>1, ControlsInductive, PTL

\* A closed connection has no viewer window left, nor has a kicked participant, except
\* for a window recorded between the kick's reclaiming and its revocation
\* (handle_kick, handle_sfu_leave, handle_viewer_token_request).
THEOREM WatchersAlwaysLeave == Spec => []WatchersLeave
<1>1. ControlsInv => WatchersLeave
  BY Zenon DEF ControlsInv, Watch, Left, WatchersLeave
<1>2. QED
  BY <1>1, ControlsInductive, PTL

=============================================================================
