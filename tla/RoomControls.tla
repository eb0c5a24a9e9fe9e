---------------------------- MODULE RoomControls ----------------------------
(***************************************************************************)
(* What the participants of an SFU room do to each other and see of each   *)
(* other: mute and deafen flags, kicks, screen shares and their slots, the *)
(* share permission, viewer windows, joins and disconnects, and the view   *)
(* each client keeps from the signals it gets.                             *)
(*                                                                         *)
(* One task per connection handles its messages one after the other.  A    *)
(* handler changes the room under its lock and sends the signals after     *)
(* releasing it, one recipient at a time, so the signals of two handlers   *)
(* may arrive in another order than their changes were made.  A message    *)
(* refused by a rate limit changes nothing and is left out, as is the      *)
(* profile colour, which the room never keeps.                             *)
(***************************************************************************)
EXTENDS Naturals, Sequences, FiniteSets

CONSTANTS
  Peer,        \* connections
  Host,        \* those whose session role is Host
  Present,     \* those in the room at the start
  Legacy,      \* clients that send no share type
  MaxViewers,  \* MAX_VIEWER_IDENTITIES_PER_PEER
  Budget       \* bound: requests (messages, joins, disconnects) in all

ASSUME ConfigAssumption ==
  /\ IsFiniteSet(Peer)
  /\ Host \subseteq Peer /\ Present \subseteq Peer /\ Legacy \subseteq Peer
  /\ MaxViewers \in Nat \ {0} /\ Budget \in Nat

VARIABLES
  peers,    \* RoomMembers.peers
  listed,   \* RoomInfo.participants: the flags by participant
  sharing,  \* RoomInfo.active_shares
  types,    \* RoomInfo.active_share_types
  perm,     \* RoomInfo.share_permission
  viewers,  \* RoomInfo.viewer_identities, counted by peer
  revoked,  \* RoomInfo.revoked_participants
  pc,       \* the place of each connection's task
  op,       \* the message being handled
  snap,     \* a copy of the participants taken earlier in the handler
  out,      \* signals still to be dispatched; the first is being sent
  todo,     \* recipients the first signal has not reached yet
  left,     \* requests still to come
  view,     \* what each client knows
  crossed,  \* history: <<viewer, item, subject>> that overlapping handlers or
            \* a crossing self-unmute may leave wrong
  late      \* history: peers given a viewer window while being kicked

roomVars == <<peers, listed, sharing, types, perm, viewers, revoked>>
taskVars == <<pc, op, snap, out, todo, left>>
histVars == <<crossed, late>>
vars == <<roomVars, taskVars, view, histVars>>

None == "none"
Video == {"screen", "window"}
Type == Video \cup {"audio"}
Flags == [muted : BOOLEAN, host : BOOLEAN, deaf : BOOLEAN]
Fresh == [muted |-> FALSE, host |-> FALSE, deaf |-> FALSE]
Perm == {"anyone", "host_only"}
NoOp == [kind |-> None, subj |-> None, val |-> None]
Place == {"outside", "idle", "role", "check", "apply", "take", "remove", "delist",
          "add", "list", "snapshot", "cast", "token", "unshare", "leave",
          "drop", "unlist", "closed"}
\* Where a task goes once its signals are out.
After(kind) == IF kind = "unshare" THEN "leave"
               ELSE IF kind = "leave" THEN "closed" ELSE "idle"

Restrict(f, S) == [x \in DOMAIN f \cap S |-> f[x]]
Drop(f, x) == Restrict(f, DOMAIN f \ {x})
Put(f, x, e) == [y \in DOMAIN f \cup {x} |-> IF y = x THEN e ELSE f[y]]
Over(f, g) == [x \in DOMAIN f \cup DOMAIN g |->
                 IF x \in DOMAIN f THEN f[x] ELSE g[x]]
GoTo(p, place) == pc' = [pc EXCEPT ![p] = place]

\* What a client knows of a participant it lists, and of the room.
Known == [muted : BOOLEAN, host : BOOLEAN, deaf : BOOLEAN,
          sharing : BOOLEAN, video : Video \cup {None}]
Unseen == [who |-> <<>>, audio |-> {}, perm |-> "anyone"]

TypeOK ==
  /\ peers \subseteq Peer
  /\ DOMAIN listed \subseteq Peer
  /\ \A p \in DOMAIN listed : listed[p] \in Flags
  /\ sharing \subseteq Peer
  /\ DOMAIN types \subseteq Peer
  /\ \A p \in DOMAIN types : types[p] \subseteq Type
  /\ perm \in Perm
  /\ viewers \in [Peer -> 0..MaxViewers]
  /\ revoked \subseteq Peer
  /\ pc \in [Peer -> Place]
  /\ \A p \in Peer : /\ todo[p] \subseteq Peer
                     /\ DOMAIN view[p].who \subseteq Peer
                     /\ \A q \in DOMAIN view[p].who : view[p].who[q] \in Known
                     /\ view[p].audio \subseteq Peer
                     /\ view[p].perm \in Perm
  /\ left \in 0..Budget
  /\ late \subseteq Peer

-----------------------------------------------------------------------------
(* The client: what a signal does to its view                              *)

Amend(v, p, known) ==
  IF p \in DOMAIN v.who THEN [v EXCEPT !.who[p] = known] ELSE v

\* share_state: an entry that is gone is cleared; an untyped share keeps what
\* is known of its audio slot.
ShareState(v, m) ==
  LET typed(p) == p \in DOMAIN m.val /\ m.val[p] # {}
      video(p) == IF typed(p) /\ m.val[p] \cap Video # {}
                    THEN CHOOSE t \in m.val[p] : t \in Video ELSE None
      known == DOMAIN v.who
  IN  [v EXCEPT
        !.who = [p \in known |->
                   [v.who[p] EXCEPT
                      !.sharing = p \in m.subj,
                      !.video = IF p \in m.subj THEN video(p)
                                ELSE IF v.who[p].sharing THEN None ELSE v.who[p].video]],
        !.audio = {p \in v.audio \cup known :
                     IF p \in m.subj /\ p \in known /\ typed(p)
                       THEN "audio" \in m.val[p]
                     ELSE p \in v.audio
                          /\ ~(p \in known /\ p \notin m.subj
                               /\ v.who[p].sharing)}]

Stranger(flags) == [muted |-> flags.muted, host |-> flags.host, deaf |-> flags.deaf,
                    sharing |-> FALSE, video |-> None]

Deliver(v, m) ==
  LET s == m.subj
      it == v.who[s]
      audio == IF m.val \in {"audio", None} THEN v.audio \ {s} ELSE v.audio
      cleared == IF m.val = "audio" /\ s \in DOMAIN v.who THEN it.video ELSE None
  IN  CASE m.kind = "joined" ->
             [who |-> [p \in DOMAIN m.val |-> Stranger(m.val[p])],
              audio |-> v.audio, perm |-> s]
        [] m.kind = "room_state" ->
             [v EXCEPT !.who = Over([p \in DOMAIN m.val |-> Stranger(m.val[p])], @)]
        [] m.kind = "participant_joined" ->
             [v EXCEPT !.who = Put(@, s, Stranger(Fresh))]
        [] m.kind \in {"participant_left", "participant_kicked"} ->
             [v EXCEPT !.who = Drop(@, s)]
        [] m.kind = "muted" -> Amend(v, s, [it EXCEPT !.muted = TRUE, !.host = TRUE])
        [] m.kind = "unmuted" -> Amend(v, s, [it EXCEPT !.host = FALSE])
        [] m.kind = "self_muted" -> Amend(v, s, [it EXCEPT !.muted = TRUE])
        [] m.kind = "self_unmuted" -> Amend(v, s, [it EXCEPT !.muted = FALSE])
        [] m.kind = "deafened" -> Amend(v, s, [it EXCEPT !.deaf = TRUE])
        [] m.kind = "undeafened" -> Amend(v, s, [it EXCEPT !.deaf = FALSE])
        [] m.kind = "permission" -> [v EXCEPT !.perm = m.val]
        [] m.kind = "share_state" -> ShareState(v, m)
        [] m.kind = "share_started" ->
             IF m.val = "audio"
               THEN Amend([v EXCEPT !.audio = @ \cup {s}], s, [it EXCEPT !.sharing = TRUE])
               ELSE Amend(v, s, [it EXCEPT !.sharing = TRUE, !.video = m.val])
        [] m.kind = "share_stopped" ->
             Amend([v EXCEPT !.audio = audio], s,
                   [it EXCEPT !.video = cleared,
                              !.sharing = cleared # None \/ s \in audio])

-----------------------------------------------------------------------------
(* Signals on their way                                                    *)

\* The items of its subject a signal is about: a participant_joined resets all.
About(m) ==
  LET on(items) == {<<i, m.subj>> : i \in items}
  IN  CASE m.kind = "participant_joined" -> on({"roster", "mute", "deaf", "share"})
        [] m.kind \in {"participant_left", "participant_kicked"} -> on({"roster"})
        [] m.kind \in {"muted", "unmuted", "self_muted", "self_unmuted"} -> on({"mute"})
        [] m.kind \in {"deafened", "undeafened"} -> on({"deaf"})
        [] m.kind \in {"share_started", "share_stopped"} -> on({"share"})
        [] m.kind = "permission" -> {<<"perm", None>>}
        [] OTHER -> {}

Pending(p) == UNION {About(out[p][i].msg) : i \in DOMAIN out[p]}

\* Joiners whose snapshots are taken but not delivered.
Joining ==
  {p \in Peer : op[p].kind = "join" /\ pc[p] # "closed"
                /\ (pc[p] # "cast" \/ \E i \in DOMAIN out[p] : out[p][i].to = p)}

\* A change of the items X by task p while another handler still sends about
\* them, or while somebody is joining.
Overlaps(p, X) ==
  {<<r, x[1], x[2]>> : r \in {q \in Joining : q # p}, x \in X}
  \cup {<<r, x[1], x[2]>> :
          r \in Peer, x \in X \cap UNION {Pending(q) : q \in Peer \ {p}}}

\* A snapshot taken by p while another handler still sends.
Misses(p) ==
  {<<p, x[1], x[2]>> : x \in UNION {Pending(q) : q \in Peer \ {p}}}

Signal(to, kind, subj, val) ==
  [to |-> to, msg |-> [kind |-> kind, subj |-> subj, val |-> val]]

\* The handler has made its change and goes on to dispatch the signals.
Dispatch(p, signals) ==
  /\ out' = [out EXCEPT ![p] = signals]
  /\ GoTo(p, "cast")
  /\ crossed' = crossed \cup Overlaps(p, UNION {About(signals[i].msg) :
                                                 i \in DOMAIN signals})
  /\ UNCHANGED <<op, snap, todo, left, view, late>>

\* The handler ends without a signal.
Finish(p) ==
  /\ GoTo(p, "idle")
  /\ op' = [op EXCEPT ![p] = NoOp]
  /\ snap' = [snap EXCEPT ![p] = <<>>]
  /\ UNCHANGED <<out, todo, left, view, crossed>>

Proceed(p, place) ==
  /\ GoTo(p, place)
  /\ UNCHANGED <<op, snap, out, todo, left, view, histVars>>

\* The first signal of p has reached everybody.
Pop(p) ==
  LET rest == Tail(out[p])
      next == After(op[p].kind)
  IN  /\ out' = [out EXCEPT ![p] = rest]
      /\ IF rest # <<>> THEN UNCHANGED <<pc, op, snap>>
         ELSE /\ GoTo(p, next)
              /\ op' = [op EXCEPT ![p] = IF next = "leave"
                          THEN [NoOp EXCEPT !.kind = "leave"] ELSE NoOp]
              /\ snap' = [snap EXCEPT ![p] = <<>>]

\* dispatch_signals: a signal for one peer is sent to it; for a broadcast the
\* peer list is read anew.
Cast(p) ==
  LET sig == Head(out[p])
      all == IF sig.to = "all" THEN peers ELSE peers \ {sig.msg.subj}
  IN  /\ pc[p] = "cast" /\ todo[p] = {}
      /\ IF sig.to \in Peer
           THEN /\ view' = [view EXCEPT ![sig.to] = Deliver(@, sig.msg)]
                /\ Pop(p) /\ UNCHANGED todo
         ELSE IF all = {}
           THEN Pop(p) /\ UNCHANGED <<todo, view>>
         ELSE /\ todo' = [todo EXCEPT ![p] = all]
              /\ UNCHANGED <<pc, op, snap, out, view>>
      /\ UNCHANGED <<roomVars, left, histVars>>

Send(p, r) ==
  /\ r \in todo[p]
  /\ view' = [view EXCEPT ![r] = Deliver(@, Head(out[p]).msg)]
  /\ todo' = [todo EXCEPT ![p] = @ \ {r}]
  /\ IF todo[p] = {r} THEN Pop(p) ELSE UNCHANGED <<pc, op, snap, out>>
  /\ UNCHANGED <<roomVars, left, histVars>>

-----------------------------------------------------------------------------
(* Messages                                                                *)

Count == left > 0 /\ left' = left - 1

Ask(p, kind, subj, val, place) ==
  /\ pc[p] = "idle"
  /\ Count
  /\ op' = [op EXCEPT ![p] = [kind |-> kind, subj |-> subj, val |-> val]]
  /\ GoTo(p, place)
  /\ UNCHANGED <<roomVars, out, todo, view, histVars>>

\* The client offers what its view allows.  toggleSelfMute does nothing while
\* the client knows of a host mute; the message is then under way until
\* ApplySelfFlag handles it.
AskSelfFlag(p, kind) ==
  /\ p \in DOMAIN view[p].who
  /\ LET me == view[p].who[p]
     IN  CASE kind = "self_mute" -> ~me.host /\ ~me.muted
           [] kind = "self_unmute" -> ~me.host /\ me.muted
           [] kind = "self_deafen" -> ~me.deaf
           [] kind = "self_undeafen" -> me.deaf
  /\ Ask(p, kind, p, None, "apply")
  /\ UNCHANGED snap

MutToggled(f, kind) ==
  [f EXCEPT !.muted = IF kind = "self_mute" THEN TRUE
                      ELSE IF kind = "self_unmute" THEN FALSE ELSE @,
            !.deaf = IF kind = "self_deafen" THEN TRUE
                     ELSE IF kind = "self_undeafen" THEN FALSE ELSE @]

Toggled(f, kind) ==
  [f EXCEPT !.muted = IF kind = "self_mute" THEN TRUE
                      ELSE IF kind = "self_unmute" THEN f.host ELSE @,
            !.deaf = IF kind = "self_deafen" THEN TRUE
                     ELSE IF kind = "self_undeafen" THEN FALSE ELSE @]

ToggleSignal(kind) ==
  CASE kind = "self_mute" -> "self_muted"
    [] kind = "self_unmute" -> "self_unmuted"
    [] kind = "self_deafen" -> "deafened"
    [] kind = "self_undeafen" -> "undeafened"

\* handle_self_flag; the signal of a self-unmute does not say whether it took
\* effect.
ApplySelfFlag(p) ==
  LET kind == op[p].kind
      lost == IF kind = "self_unmute" /\ p \in DOMAIN listed /\ listed[p].host
                THEN {<<r, "mute", p>> : r \in Peer} ELSE {}
      sigs == <<Signal("all", ToggleSignal(kind), p, None)>>
  IN  /\ pc[p] = "apply"
      /\ kind \in {"self_mute", "self_unmute", "self_deafen", "self_undeafen"}
      /\ IF p \notin peers THEN UNCHANGED <<listed, late>> /\ Finish(p)
         ELSE /\ listed' = IF p \in DOMAIN listed
                             THEN [listed EXCEPT ![p] = Toggled(@, kind)]
                             ELSE listed
              /\ out' = [out EXCEPT ![p] = sigs]
              /\ GoTo(p, "cast")
              /\ crossed' = crossed \cup lost \cup Overlaps(p, About(sigs[1].msg))
              /\ UNCHANGED <<op, snap, todo, left, view, late>>
      /\ UNCHANGED <<peers, sharing, types, perm, viewers, revoked>>

\* A message of a host: the room and its participants are copied, then the role
\* is asked for.
AskHost(p, kind, t, val) ==
  /\ p \in Host \cap peers
  /\ Ask(p, kind, t, val, "role")
  /\ snap' = [snap EXCEPT ![p] = listed]

\* resolve_effective_role, require_host and require_target_in_room: the role
\* may have been taken away, and the target is sought in the copy.
ResolveRole(p) ==
  LET o == op[p]
      fit == o.kind = "permit" \/ o.subj \in DOMAIN snap[p]
  IN  /\ pc[p] = "role"
      /\ UNCHANGED <<roomVars, late>>
      /\ \/ Finish(p)
         \/ /\ fit
            /\ GoTo(p, IF o.kind = "permit" THEN "apply" ELSE "check")
            /\ snap' = [snap EXCEPT ![p] = <<>>]
            /\ UNCHANGED <<op, out, todo, left, view, crossed>>

\* handle_mute, handle_unmute and handle_kick look for the target again.
CheckTarget(p) ==
  LET o == op[p]
  IN  /\ pc[p] = "check"
      /\ IF o.subj \in DOMAIN listed
           THEN Proceed(p, IF o.kind = "kick" THEN "take" ELSE "apply")
           ELSE UNCHANGED late /\ Finish(p)
      /\ UNCHANGED roomVars

ApplyMute(p) ==
  LET o == op[p]
      t == o.subj
  IN  /\ pc[p] = "apply" /\ o.kind \in {"mute", "unmute"}
      /\ listed' = IF t \notin DOMAIN listed THEN listed
                   ELSE IF o.kind = "mute"
                     THEN [listed EXCEPT ![t].muted = TRUE, ![t].host = TRUE]
                     ELSE [listed EXCEPT ![t].host = FALSE]
      /\ Dispatch(p, <<Signal("all", IF o.kind = "mute" THEN "muted"
                                     ELSE "unmuted", t, None)>>)
      /\ UNCHANGED <<peers, sharing, types, perm, viewers, revoked>>

\* remove_peer: a room without peers is gone, with all it knew.
RemovePeer(p) ==
  LET rest == peers \ {p}
  IN  /\ peers' = rest
      /\ IF rest = {}
           THEN /\ listed' = <<>> /\ sharing' = {} /\ types' = <<>>
                /\ viewers' = [q \in Peer |-> 0] /\ revoked' = {}
           ELSE UNCHANGED <<listed, sharing, types, viewers, revoked>>
      /\ UNCHANGED perm

\* After the call to the SFU the target's viewer windows are taken.
KickTake(p) ==
  /\ pc[p] = "take"
  /\ viewers' = [viewers EXCEPT ![op[p].subj] = 0]
  /\ UNCHANGED <<peers, listed, sharing, types, perm, revoked>>
  /\ Proceed(p, "remove")

KickRemove(p) ==
  /\ pc[p] = "remove"
  /\ RemovePeer(op[p].subj)
  /\ Proceed(p, "delist")

KickDelist(p) ==
  LET t == op[p].subj
  IN  /\ pc[p] = "delist"
      /\ listed' = Drop(listed, t)
      /\ revoked' = IF peers = {} THEN revoked ELSE revoked \cup {t}
      /\ Dispatch(p, <<Signal(t, "participant_kicked", t, None),
                       Signal("others", "participant_kicked", t, None)>>)
      /\ UNCHANGED <<peers, sharing, types, perm, viewers>>

ApplyPermission(p) ==
  /\ pc[p] = "apply" /\ op[p].kind = "permit"
  /\ IF p \in peers /\ perm # op[p].val
       THEN /\ perm' = op[p].val
            /\ Dispatch(p, <<Signal("all", "permission", None, op[p].val)>>)
       ELSE UNCHANGED <<perm, late>> /\ Finish(p)
  /\ UNCHANGED <<peers, listed, sharing, types, viewers, revoked>>

-----------------------------------------------------------------------------
(* Screen shares                                                           *)

Typed(p, ts) == Put(types, p, ts)
SameSlot(t, u) == (t = "audio") = (u = "audio")

\* Clients name the type they start; they stop a slot, or all of a
\* participant's slots, which a host may do to another participant too.
AskStartShare(p, t) ==
  /\ p \in Legacy <=> t = None
  /\ Ask(p, "start_share", p, t, "apply")
  /\ UNCHANGED snap

AskStopShare(p, q, t) ==
  /\ t # None => q = p /\ p \notin Legacy
  /\ q # p => p \in Host
  /\ view[p].who[q].sharing
  /\ Ask(p, "stop_share", q, t, "apply")
  /\ UNCHANGED snap

AskStopAll(p) ==
  /\ p \in Host
  /\ Ask(p, "stop_all", None, None, "apply")
  /\ UNCHANGED snap

MutReplaced(ts, t) == ts \cup {t}

\* A share of the same category gives way, the other category stays.
Replaced(ts, t) == {u \in ts : ~SameSlot(t, u)} \cup {t}

\* handle_start_share_with_type, under the room's write lock; that a participant
\* is assigned to a sub-room is VoiceRoom's matter.
StartShare(p) ==
  LET t    == op[p].val
      old  == IF p \in DOMAIN types THEN types[p] ELSE {}
      noop == p \in sharing /\ (IF t = None THEN old = {} ELSE t \in old)
  IN  /\ pc[p] = "apply" /\ op[p].kind = "start_share"
      /\ IF p \notin peers \/ (perm = "host_only" /\ p \notin Host)
           THEN UNCHANGED <<sharing, types, late>> /\ Finish(p)
         ELSE IF noop
           THEN /\ types' = Typed(p, old)
                /\ UNCHANGED <<sharing, late>> /\ Finish(p)
         ELSE /\ sharing' = sharing \cup {p}
              /\ types' = IF t # None THEN Typed(p, Replaced(old, t))
                          ELSE IF p \in sharing THEN Typed(p, {}) ELSE types
              /\ Dispatch(p, <<Signal("all", "share_started", p, t)>>)
      /\ UNCHANGED <<peers, listed, perm, viewers, revoked>>

Unshared(p) == /\ sharing' = sharing \ {p}
               /\ types' = Drop(types, p)

\* handle_stop_share: one's own share or, for a host, another's; one slot if
\* its type is given, else all of them.
StopShare(p) ==
  LET t    == op[p].subj
      kind == op[p].val
      slot == kind # None /\ t \in DOMAIN types
  IN  /\ pc[p] = "apply" /\ op[p].kind = "stop_share"
      /\ IF \/ p \notin peers \/ (t # p /\ p \notin Host)
            \/ t \notin peers \/ t \notin sharing
            \/ (slot /\ kind \notin types[t])
           THEN UNCHANGED <<sharing, types, late>> /\ Finish(p)
         ELSE IF slot /\ types[t] # {kind}
           THEN /\ types' = Typed(t, types[t] \ {kind})
                /\ Dispatch(p, <<Signal("all", "share_stopped", t, kind)>>)
                /\ UNCHANGED sharing
         ELSE /\ Unshared(t)
              /\ Dispatch(p, <<Signal("all", "share_stopped", t, None)>>)
      /\ UNCHANGED <<peers, listed, perm, viewers, revoked>>

\* handle_stop_all_shares: one signal per sharer.
StopAllShares(p) ==
  LET gone == CHOOSE s \in [1..Cardinality(sharing) -> sharing] :
                \A i, j \in DOMAIN s : i # j => s[i] # s[j]
  IN  /\ pc[p] = "apply" /\ op[p].kind = "stop_all"
      /\ IF p \notin peers \/ p \notin Host \/ sharing = {}
           THEN UNCHANGED <<sharing, types, late>> /\ Finish(p)
         ELSE /\ sharing' = {} /\ types' = <<>>
              /\ Dispatch(p, [i \in DOMAIN gone |->
                                Signal("all", "share_stopped", gone[i], None)])
      /\ UNCHANGED <<peers, listed, perm, viewers, revoked>>

-----------------------------------------------------------------------------
(* Viewer windows                                                          *)

\* handle_viewer_token_request up to the signing of the token.
AskViewer(p) ==
  /\ p \in peers /\ p \notin revoked
  /\ Ask(p, "viewer", p, None, "token")
  /\ UNCHANGED snap

\* A kick of p that has taken the windows but not yet revoked p.
KickUnderWay(p) ==
  \E q \in Peer : op[q] = [kind |-> "kick", subj |-> p, val |-> None]
                  /\ pc[q] \in {"remove", "delist"}

\* The identity is recorded if the peer has room for another window; a window
\* that asks again replaces its entry.
RecordViewer(p) ==
  /\ pc[p] = "token"
  /\ \/ /\ peers # {} /\ viewers[p] < MaxViewers
        /\ viewers' = [viewers EXCEPT ![p] = @ + 1]
        /\ late' = IF KickUnderWay(p) \/ p \notin peers
                     THEN late \cup {p} ELSE late
     \/ (peers = {} \/ viewers[p] > 0) /\ UNCHANGED <<viewers, late>>
  /\ Finish(p)
  /\ UNCHANGED <<peers, listed, sharing, types, perm, revoked>>

-----------------------------------------------------------------------------
(* Joining and leaving                                                     *)

\* The participants are copied before the joiner is added.
Join(p) ==
  /\ pc[p] = "outside" /\ peers # {}
  /\ snap' = [snap EXCEPT ![p] = listed]
  /\ op' = [op EXCEPT ![p] = [NoOp EXCEPT !.kind = "join"]]
  /\ GoTo(p, "add")
  /\ crossed' = crossed \cup Misses(p)
  /\ Count
  /\ UNCHANGED <<roomVars, out, todo, view, late>>

\* try_add_peer_with; a room that is gone is an error.
JoinAdd(p) ==
  /\ pc[p] = "add"
  /\ IF peers = {}
       THEN /\ GoTo(p, "closed")
            /\ snap' = [snap EXCEPT ![p] = <<>>]
            /\ op' = [op EXCEPT ![p] = NoOp]
            /\ UNCHANGED <<roomVars, out, todo, left, view, histVars>>
       ELSE /\ peers' = peers \cup {p}
            /\ Proceed(p, "list")
            /\ UNCHANGED <<listed, sharing, types, perm, viewers, revoked>>

JoinList(p) ==
  LET mine == {<<i, p>> : i \in {"roster", "mute", "deaf", "share"}}
  IN  /\ pc[p] = "list"
      /\ listed' = Put(listed, p, Fresh)
      /\ GoTo(p, "snapshot")
      /\ crossed' = crossed \cup Overlaps(p, mine)
      /\ UNCHANGED <<peers, sharing, types, perm, viewers, revoked,
                     op, snap, out, todo, left, view, late>>

MutJoinSnapshot(p) ==
  /\ pc[p] = "snapshot"
  /\ out' = [out EXCEPT ![p] =
       <<Signal(p, "joined", perm, Put(snap[p], p, Fresh)),
         Signal(p, "room_state", None, snap[p]),
         Signal("others", "participant_joined", p, None)>>]
  /\ GoTo(p, "cast")
  /\ crossed' = crossed \cup Misses(p)
  /\ UNCHANGED <<roomVars, op, snap, todo, left, view, late>>

\* The permission and the shares are read, and the signals built.
JoinSnapshot(p) ==
  /\ pc[p] = "snapshot"
  /\ out' = [out EXCEPT ![p] =
       <<Signal(p, "joined", perm, Put(snap[p], p, Fresh)),
         Signal(p, "room_state", None, snap[p]),
         Signal(p, "share_state", sharing, types),
         Signal("others", "participant_joined", p, None)>>]
  /\ GoTo(p, "cast")
  /\ crossed' = crossed \cup Misses(p)
  /\ UNCHANGED <<roomVars, op, snap, todo, left, view, late>>

\* The socket closes: leave_room revokes the participant and ends its shares.
Disconnect(p) ==
  /\ pc[p] = "idle"
  /\ Count
  /\ IF peers = {}
       THEN GoTo(p, "closed") /\ UNCHANGED roomVars
       ELSE /\ revoked' = revoked \cup {p}
            /\ GoTo(p, "unshare")
            /\ UNCHANGED <<peers, listed, sharing, types, perm, viewers>>
  /\ UNCHANGED <<op, snap, out, todo, view, histVars>>

CleanupShare(p) ==
  /\ pc[p] = "unshare"
  /\ Unshared(p)
  /\ IF p \in sharing
       THEN /\ out' = [out EXCEPT ![p] =
                         <<Signal("all", "share_stopped", p, None)>>]
            /\ op' = [op EXCEPT ![p] = [NoOp EXCEPT !.kind = "unshare"]]
            /\ GoTo(p, "cast")
            /\ crossed' = crossed \cup Overlaps(p, {<<"share", p>>})
       ELSE /\ GoTo(p, "leave")
            /\ op' = [op EXCEPT ![p] = [NoOp EXCEPT !.kind = "leave"]]
            /\ UNCHANGED <<out, crossed>>
  /\ UNCHANGED <<peers, listed, perm, viewers, revoked, snap, todo, left, view,
                 late>>

\* An explicit Leave message.
Leave(p) == Ask(p, "leave", None, None, "leave") /\ UNCHANGED snap

MutLeaveTake(p) ==
  /\ pc[p] = "leave"
  /\ UNCHANGED roomVars
  /\ Proceed(p, "drop")

\* handle_sfu_leave: the viewer windows, then the calls to the SFU, then ...
LeaveTake(p) ==
  /\ pc[p] = "leave"
  /\ viewers' = [viewers EXCEPT ![p] = 0]
  /\ UNCHANGED <<peers, listed, sharing, types, perm, revoked>>
  /\ Proceed(p, "drop")

\* ... the share and the peer, ...
LeaveDrop(p) ==
  /\ pc[p] = "drop"
  /\ peers' = peers \ {p}
  /\ IF peers \ {p} = {}
       THEN /\ listed' = <<>> /\ sharing' = {} /\ types' = <<>>
            /\ viewers' = [q \in Peer |-> 0] /\ revoked' = {}
       ELSE Unshared(p) /\ UNCHANGED <<listed, viewers, revoked>>
  /\ out' = [out EXCEPT ![p] = IF p \in sharing
               THEN <<Signal("all", "share_stopped", p, None)>> ELSE <<>>]
  /\ crossed' = crossed \cup
       (IF p \in sharing THEN Overlaps(p, {<<"share", p>>}) ELSE {})
  /\ GoTo(p, "unlist")
  /\ UNCHANGED <<perm, op, snap, todo, left, view, late>>

\* ... and the entry of the list, with the revocation.
LeaveUnlist(p) ==
  /\ pc[p] = "unlist"
  /\ listed' = Drop(listed, p)
  /\ revoked' = IF peers = {} THEN revoked ELSE revoked \cup {p}
  /\ Dispatch(p, <<Signal("others", "participant_left", p, None)>> \o out[p])
  /\ UNCHANGED <<peers, sharing, types, perm, viewers>>

-----------------------------------------------------------------------------
Init ==
  /\ peers = Present
  /\ listed = [p \in Present |-> Fresh]
  /\ sharing = {} /\ types = <<>> /\ perm = "anyone"
  /\ viewers = [p \in Peer |-> 0]
  /\ revoked = {}
  /\ pc = [p \in Peer |-> IF p \in Present THEN "idle" ELSE "outside"]
  /\ op = [p \in Peer |-> NoOp]
  /\ snap = [p \in Peer |-> <<>>]
  /\ out = [p \in Peer |-> <<>>]
  /\ todo = [p \in Peer |-> {}]
  /\ left = Budget
  /\ view = [p \in Peer |->
               IF p \in Present
                 THEN [Unseen EXCEPT !.who = [q \in Present |-> Stranger(Fresh)]]
                 ELSE Unseen]
  /\ crossed = {} /\ late = {}

Message(p) ==
  \/ \E k \in {"self_mute", "self_unmute", "self_deafen", "self_undeafen"} :
       AskSelfFlag(p, k)
  \/ \E t \in DOMAIN view[p].who \ {p} :
       \/ AskHost(p, "kick", t, None)
       \/ AskHost(p, IF view[p].who[t].host THEN "unmute" ELSE "mute", t, None)
  \/ \E v \in Perm \ {view[p].perm} : AskHost(p, "permit", None, v)
  \/ \E t \in Type \cup {None} :
       AskStartShare(p, t) \/ \E q \in DOMAIN view[p].who : AskStopShare(p, q, t)
  \/ AskStopAll(p)
  \/ AskViewer(p) \/ Leave(p)

Handle(p) ==
  \/ ApplySelfFlag(p) \/ ResolveRole(p) \/ CheckTarget(p) \/ ApplyMute(p)
  \/ KickTake(p) \/ KickRemove(p) \/ KickDelist(p) \/ ApplyPermission(p)
  \/ StartShare(p) \/ StopShare(p) \/ StopAllShares(p) \/ RecordViewer(p)
  \/ JoinAdd(p) \/ JoinList(p) \/ JoinSnapshot(p)
  \/ CleanupShare(p) \/ LeaveTake(p) \/ LeaveDrop(p) \/ LeaveUnlist(p)
  \/ Cast(p) \/ \E r \in Peer : Send(p, r)

Next == \E p \in Peer : Message(p) \/ Join(p) \/ Disconnect(p) \/ Handle(p)

Spec == Init /\ [][Next]_vars

-----------------------------------------------------------------------------
(* Properties                                                              *)

\* A participant muted by a host is muted, whatever the participant toggles
\* and however the two handlers interleave ("Self-unmute cannot override a
\* host mute").
HostMuteHolds == \A p \in DOMAIN listed : listed[p].host => listed[p].muted

\* A participant has at most one share of each category, and recorded types
\* only while sharing (active_share_types against active_shares).
SlotsExclusive ==
  /\ DOMAIN types \subseteq sharing
  /\ \A p \in DOMAIN types :
       \A t, u \in types[p] : SameSlot(t, u) => t = u

\* The records of shares and of viewers keep their shape: types, and one share
\* per slot, through starts, replacements, stops, kicks and leaves.
SharesInv == TypeOK /\ SlotsExclusive

Quiet == \A p \in Peer : pc[p] \in {"outside", "idle", "closed"}

\* When no handler is at work, what a client shows of the others is what the
\* room holds, except for what overlapped: two handlers about the same thing,
\* a handler and the client's own join, or a self-unmute and a host mute.
ViewsAgree ==
  LET ok(r, item, s) == <<r, item, s>> \in crossed
  IN  Quiet => \A r \in peers \cap DOMAIN listed :
        LET v == view[r]
        IN  /\ v.perm = perm \/ ok(r, "perm", None)
            /\ \A s \in Peer \ {r} :
                 \/ ok(r, "roster", s)
                 \/ s \in DOMAIN v.who <=> s \in DOMAIN listed
            /\ \A s \in (DOMAIN v.who \cap DOMAIN listed) \ {r} :
                 /\ \/ ok(r, "mute", s)
                    \/ /\ v.who[s].muted = listed[s].muted
                       /\ v.who[s].host = listed[s].host
                 /\ v.who[s].deaf = listed[s].deaf \/ ok(r, "deaf", s)
                 /\ \/ ok(r, "share", s)
                    \/ /\ v.who[s].sharing <=> s \in sharing
                       /\ s \in DOMAIN types =>
                            /\ s \in v.audio <=> "audio" \in types[s]
                            /\ {v.who[s].video} \cap Video = types[s] \cap Video

\* A closed connection has no viewer window left, and a kicked participant has
\* none unless its request slipped between the kick's reclaiming and its
\* revocation ("kick must not leave watchers alive").
WatchersLeave ==
  \A p \in Peer :
    /\ pc[p] = "closed" => viewers[p] = 0
    /\ p \notin peers /\ ~KickUnderWay(p) /\ p \notin late => viewers[p] = 0

=============================================================================
