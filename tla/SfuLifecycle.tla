---------------------------- MODULE SfuLifecycle ----------------------------
(***************************************************************************)
(* The life of the media server (SFU) behind the voice rooms: the cached   *)
(* health status every JoinVoice is gated on, the monitor that refreshes   *)
(* it, the cold start of the EC2 instance by the first join that finds the *)
(* SFU down, and the idle stop of the instance by the 1 AM scheduler or,   *)
(* when rooms were open at that hour, by the close of the last room.       *)
(*                                                                         *)
(* One step is one lock section, one atomic access, or one answer of AWS   *)
(* or of the SFU; everything else interleaves.  Joins, rooms and detached  *)
(* tasks are counted, not named: two of a kind in one place do not differ. *)
(***************************************************************************)
EXTENDS Naturals

CONSTANTS MaxRooms,      \* bound on the joins past the gate, and on the rooms
          MaxCold,       \* bound on the cold-start tasks at a time
          MaxTasks       \* bound on the closes, and on the stop tasks, at a time

ASSUME BoundsAssumption ==
  MaxRooms \in Nat /\ MaxCold \in Nat /\ MaxTasks \in Nat

VARIABLES
  ec2,        \* AppState.ec2_controller is configured
  health,     \* sfu_health_status: "available", "unavailable", "starting"
  late,       \* the Starting status is older than 300 seconds
  inst,       \* state of the EC2 instance (external)
  sfuUp,      \* the SFU answers its health check (external)
  mon,        \* the monitor: "idle", or the answer it is about to write
  joining,    \* joins past the gate that have not opened their room yet
  rooms,      \* RoomState::active_room_count
  hooks,      \* closes of a room in each place of cleanup_room_artifacts
  pending,    \* pending_shutdown
  sched,      \* the shutdown scheduler
  cold,       \* detached cold-start tasks in each place
  stops,      \* detached trigger_ec2_stop tasks in each place
  spawned,    \* history: cold starts spawned in this Starting episode
  missed,     \* history: no close of a room is left to see the pending flag
  old         \* history: rooms open since before a stop was last decided on

controlVars == <<ec2, health, late, pending>>
outsideVars == <<inst, sfuUp>>
roomVars    == <<joining, rooms, hooks>>
taskVars    == <<mon, sched, cold, stops>>
historyVars == <<spawned, missed, old>>
sfuVars == <<controlVars, outsideVars, roomVars, taskVars, historyVars>>

InstStates  == {"stopped", "starting", "running", "stopping"}
ColdPlaces  == {"describe", "start", "fail"}
StopPlaces  == {"call", "mark"}
HookPlaces  == {"read", "count", "store"}
Colds       == cold["describe"] + cold["start"] + cold["fail"]
Stops       == stops["call"] + stops["mark"]
Hooks       == hooks["read"] + hooks["count"] + hooks["store"]
None(P)     == [p \in P |-> 0]

StopUnderWay == sched \in {"call", "mark"} \/ stops # None(StopPlaces)

\* One task of the kind f counts goes from place a to place b; tasks come
\* from "none" and end there.
MoveTask(f, a, b) ==
  [p \in DOMAIN f |-> IF p = a THEN f[p] - 1
                      ELSE IF p = b THEN f[p] + 1 ELSE f[p]]

Probe == IF sfuUp THEN "available" ELSE "unavailable"

SfuTypeOK ==
  /\ ec2 \in BOOLEAN /\ late \in BOOLEAN /\ sfuUp \in BOOLEAN
  /\ pending \in BOOLEAN /\ missed \in BOOLEAN
  /\ health \in {"available", "unavailable", "starting"}
  /\ inst \in InstStates
  /\ mon \in {"idle", "available", "unavailable"}
  /\ joining \in 0..MaxRooms /\ rooms \in 0..MaxRooms /\ old \in 0..MaxRooms
  /\ hooks \in [HookPlaces -> 0..MaxTasks]
  /\ sched \in {"sleep", "count", "store", "call", "mark"}
  /\ cold \in [ColdPlaces -> 0..MaxCold]
  /\ stops \in [StopPlaces -> 0..MaxTasks]
  /\ spawned \in 0..2

\* main: one health check before the background tasks are spawned.
SfuInit ==
  /\ ec2 \in BOOLEAN
  /\ sfuUp \in BOOLEAN
  /\ inst \in IF ec2 THEN {"stopped", "running"} ELSE {"running"}
  /\ sfuUp => inst = "running"
  /\ health = Probe
  /\ late = FALSE /\ pending = FALSE
  /\ mon = "idle" /\ sched = "sleep"
  /\ cold = None(ColdPlaces) /\ stops = None(StopPlaces)
  /\ joining = 0 /\ rooms = 0 /\ hooks = None(HookPlaces)
  /\ spawned = 0 /\ missed = FALSE /\ old = 0

-----------------------------------------------------------------------------
(* The health status                                                       *)

\* Writing a status other than Starting ends the episode of a cold start.
SetHealth(h) ==
  /\ health' = h
  /\ late' = FALSE
  /\ spawned' = 0

\* The five minutes a cold start may take go by.
StartAges ==
  /\ health = "starting" /\ ~late
  /\ late' = TRUE
  /\ UNCHANGED <<ec2, health, pending, outsideVars, roomVars,
                 taskVars, historyVars>>

\* The monitor's tick: the SFU answers the health check.
MonitorAsk ==
  /\ mon = "idle"
  /\ mon' = Probe
  /\ UNCHANGED <<controlVars, outsideVars, roomVars, sched, cold, stops,
                 historyVars>>

MutMonitorWrite ==
  /\ mon # "idle"
  /\ mon' = "idle"
  /\ IF health = "starting" /\ mon # "available"
       THEN UNCHANGED <<health, late, spawned>>
       ELSE SetHealth(mon)
  /\ UNCHANGED <<ec2, pending, outsideVars, roomVars,
                 sched, cold, stops, missed, old>>

MutMonitorKeepsDown ==
  /\ mon # "idle"
  /\ mon' = "idle"
  /\ IF health # "starting" \/ (mon # "available" /\ ~late)
       THEN UNCHANGED <<health, late, spawned>>
       ELSE SetHealth(mon)
  /\ UNCHANGED <<ec2, pending, outsideVars, roomVars,
                 sched, cold, stops, missed, old>>

\* The monitor takes the lock and applies the answer it holds, which may be
\* out of date by now.  Starting is left alone until the SFU answers or the
\* cold start has taken too long.
MonitorWrite ==
  /\ mon # "idle"
  /\ mon' = "idle"
  /\ IF health = "starting" /\ mon # "available" /\ ~late
       THEN UNCHANGED <<health, late, spawned>>
       ELSE SetHealth(mon)
  /\ UNCHANGED <<ec2, pending, outsideVars, roomVars,
                 sched, cold, stops, missed, old>>

-----------------------------------------------------------------------------
(* JoinVoice and the cold start                                            *)

\* The gate of JoinVoice lets a join through while the SFU is available.
JoinPasses ==
  /\ health = "available"
  /\ joining < MaxRooms
  /\ joining' = joining + 1
  /\ UNCHANGED <<controlVars, outsideVars, rooms, hooks, taskVars, historyVars>>

\* The join that finds the SFU unavailable marks it Starting under the same
\* lock and spawns the cold start; it and every later join are told to wait.
\* Without a controller the join is refused and nothing changes.
ColdStart ==
  /\ health = "unavailable" /\ ec2
  /\ Colds < MaxCold
  /\ health' = "starting"
  /\ late' = FALSE
  /\ spawned' = IF spawned < 2 THEN spawned + 1 ELSE spawned
  /\ cold' = MoveTask(cold, "none", "describe")
  /\ UNCHANGED <<ec2, pending, outsideVars, roomVars, mon, sched,
                 stops, missed, old>>

\* describe_state names the state of the instance, or fails.
Described(err) == IF err THEN "error" ELSE inst

\* The spawned task asks for it: a stopped instance is started, a running one
\* is waited for, anything else gives up.
ColdDescribe ==
  /\ cold["describe"] > 0
  /\ \E err \in BOOLEAN :
       cold' = MoveTask(cold, "describe",
                        CASE Described(err) = "stopped" -> "start"
                          [] Described(err) = "running" -> "none"
                          [] OTHER -> "fail")
  /\ UNCHANGED <<controlVars, outsideVars, roomVars, mon, sched, stops,
                 historyVars>>

\* start_instance answers.  AWS accepts a start of any instance that is not
\* being stopped; of one that already runs it is a success without effect.
ColdStartInstance ==
  /\ cold["start"] > 0
  /\ \/ /\ inst # "stopping"
        /\ inst' = IF inst = "stopped" THEN "starting" ELSE inst
        /\ cold' = MoveTask(cold, "start", "none")
     \/ /\ cold' = MoveTask(cold, "start", "fail")
        /\ UNCHANGED inst
  /\ UNCHANGED <<controlVars, sfuUp, roomVars, mon, sched, stops,
                 historyVars>>

\* A cold start that gave up writes Unavailable, whatever the status is now.
ColdFail ==
  /\ cold["fail"] > 0
  /\ cold' = MoveTask(cold, "fail", "none")
  /\ SetHealth("unavailable")
  /\ UNCHANGED <<ec2, pending, outsideVars, roomVars, mon, sched,
                 stops, missed, old>>

-----------------------------------------------------------------------------
(* Rooms                                                                   *)

\* The join that passed the gate creates its room, or is refused later on.
OpenRoom ==
  /\ joining > 0 /\ rooms < MaxRooms
  /\ joining' = joining - 1
  /\ rooms' = rooms + 1
  /\ missed' = FALSE
  /\ UNCHANGED <<controlVars, outsideVars, hooks, taskVars, spawned, old>>

JoinFails ==
  /\ joining > 0
  /\ joining' = joining - 1
  /\ UNCHANGED <<controlVars, outsideVars, rooms, hooks, taskVars, historyVars>>

NobodyWillLook == hooks = None(HookPlaces)

\* A room leaves the registry, an old one if there is one.
RemoveRoom ==
  /\ rooms > 0
  /\ rooms' = rooms - 1
  /\ old' = IF old > 0 THEN old - 1 ELSE 0

\* The last participant leaves: the room is gone from the registry, then
\* cleanup_room_artifacts goes on in the session's task.
CloseRoom ==
  /\ RemoveRoom
  /\ Hooks < MaxTasks
  /\ hooks' = MoveTask(hooks, "none", "read")
  /\ UNCHANGED <<controlVars, outsideVars, joining, taskVars, spawned, missed>>

\* A room also disappears without that cleanup: a join that is rolled back,
\* and the ejection of a banned member, remove an empty room themselves.
DropRoom ==
  /\ RemoveRoom
  /\ missed' = (missed \/ (pending /\ rooms = 1 /\ NobodyWillLook))
  /\ UNCHANGED <<controlVars, outsideVars, joining, hooks, taskVars, spawned>>

\* The connection of a participant that was kicked, evicted or ejected closes
\* when the room it was in is already gone: only the cleanup is left to do.
LateCleanup ==
  /\ Hooks < MaxTasks
  /\ hooks' = MoveTask(hooks, "none", "read")
  /\ UNCHANGED <<controlVars, outsideVars, joining, rooms, taskVars,
                 historyVars>>

\* The three accesses at the end of cleanup_room_artifacts: is a shutdown
\* pending, is no room left, and if so clear the flag and spawn the stop.
HookRead ==
  LET next == IF pending THEN "count" ELSE "none"
  IN  /\ hooks["read"] > 0
      /\ hooks' = MoveTask(hooks, "read", next)
      /\ UNCHANGED <<controlVars, outsideVars, joining, rooms, taskVars,
                     historyVars>>

MutHookCount ==
  /\ hooks["count"] > 0
  /\ hooks' = MoveTask(hooks, "count", "store")
  /\ old' = rooms
  /\ UNCHANGED <<controlVars, outsideVars, joining, rooms, taskVars, spawned,
                 missed>>

MutHookCountsItself ==
  /\ hooks["count"] > 0
  /\ hooks' = MoveTask(hooks, "count", "none")
  /\ UNCHANGED <<controlVars, outsideVars, joining, rooms, taskVars,
                 historyVars>>

HookCount ==
  /\ hooks["count"] > 0
  /\ IF rooms = 0
       THEN /\ hooks' = MoveTask(hooks, "count", "store")
            /\ old' = rooms
       ELSE /\ hooks' = MoveTask(hooks, "count", "none")
            /\ UNCHANGED old
  /\ UNCHANGED <<controlVars, outsideVars, joining, rooms, taskVars, spawned,
                 missed>>

HookStore ==
  /\ hooks["store"] > 0 /\ Stops < MaxTasks
  /\ hooks' = MoveTask(hooks, "store", "none")
  /\ pending' = FALSE /\ missed' = FALSE
  /\ stops' = MoveTask(stops, "none", "call")
  /\ UNCHANGED <<ec2, health, late, outsideVars, joining, rooms, mon, sched,
                 cold, spawned, old>>

-----------------------------------------------------------------------------
(* The nightly scheduler and the stop of the instance                      *)

\* 1 AM: an instance that is starting is left alone until the next night.
SchedulerWakes ==
  /\ ec2 /\ sched = "sleep"
  /\ sched' = IF health = "starting" THEN "sleep" ELSE "count"
  /\ UNCHANGED <<controlVars, outsideVars, roomVars, mon, cold, stops,
                 historyVars>>

MutSchedulerCounts ==
  /\ sched = "count"
  /\ sched' = "store"
  /\ UNCHANGED <<controlVars, outsideVars, roomVars, mon, cold, stops,
                 historyVars>>

SchedulerCounts ==
  /\ sched = "count"
  /\ IF rooms = 0
       THEN sched' = "call" /\ old' = rooms
       ELSE sched' = "store" /\ UNCHANGED old
  /\ UNCHANGED <<controlVars, outsideVars, roomVars, mon, cold, stops,
                 spawned, missed>>

\* The stop is deferred.  The rooms counted may all have closed since.
SchedulerDefers ==
  /\ sched = "store"
  /\ sched' = "sleep"
  /\ pending' = TRUE
  /\ missed' = (missed \/ (rooms = 0 /\ NobodyWillLook))
  /\ UNCHANGED <<ec2, health, late, outsideVars, roomVars, mon, cold, stops,
                 spawned, old>>

\* AWS stops a running instance, accepts a stop of one that is down or going
\* down, and refuses one that is still booting; it may refuse at any time.
StopInstance(ok) ==
  /\ ok => inst # "starting"
  /\ inst' = IF ok /\ inst = "running" THEN "stopping" ELSE inst

SchedulerStops(ok) ==
  /\ sched = "call"
  /\ StopInstance(ok)
  /\ sched' = IF ok THEN "mark" ELSE "sleep"
  /\ UNCHANGED <<controlVars, sfuUp, roomVars, mon, cold, stops,
                 historyVars>>

TaskStops(ok) ==
  /\ stops["call"] > 0
  /\ StopInstance(ok)
  /\ stops' = MoveTask(stops, "call", IF ok THEN "mark" ELSE "none")
  /\ UNCHANGED <<controlVars, sfuUp, roomVars, mon, sched, cold,
                 historyVars>>

\* trigger_ec2_stop records the stop in the health status.
SchedulerMarks ==
  /\ sched = "mark"
  /\ sched' = "sleep"
  /\ SetHealth("unavailable")
  /\ UNCHANGED <<ec2, pending, outsideVars, roomVars, mon, cold,
                 stops, missed, old>>

TaskMarks ==
  /\ stops["mark"] > 0
  /\ stops' = MoveTask(stops, "mark", "none")
  /\ SetHealth("unavailable")
  /\ UNCHANGED <<ec2, pending, outsideVars, roomVars, mon, sched,
                 cold, missed, old>>

-----------------------------------------------------------------------------
(* The outside: the instance, the SFU process, and the backend process     *)

InstanceBoots ==
  /\ inst = "starting" /\ inst' = "running"
  /\ UNCHANGED <<controlVars, sfuUp, roomVars, taskVars, historyVars>>

InstanceStops ==
  /\ inst = "stopping" /\ inst' = "stopped" /\ sfuUp' = FALSE
  /\ UNCHANGED <<controlVars, roomVars, taskVars, historyVars>>

SfuChanges ==
  /\ inst = "running" \/ (inst = "stopping" /\ sfuUp)
  /\ sfuUp' = ~sfuUp
  /\ UNCHANGED <<controlVars, inst, roomVars, taskVars, historyVars>>

\* The backend restarts: rooms, tasks and the pending flag are gone, the
\* health status comes from one check of the SFU.
Restart ==
  /\ SetHealth(Probe)
  /\ pending' = FALSE /\ missed' = FALSE /\ old' = 0
  /\ mon' = "idle" /\ sched' = "sleep"
  /\ cold' = None(ColdPlaces) /\ stops' = None(StopPlaces)
  /\ joining' = 0 /\ rooms' = 0 /\ hooks' = None(HookPlaces)
  /\ UNCHANGED <<ec2, outsideVars>>

-----------------------------------------------------------------------------
MonitorStep == MonitorAsk \/ MonitorWrite
SchedulerStep ==
  \/ SchedulerWakes \/ SchedulerCounts \/ SchedulerDefers \/ SchedulerMarks
  \/ \E ok \in BOOLEAN : SchedulerStops(ok)

SfuNext ==
  \/ StartAges \/ MonitorAsk \/ MonitorWrite
  \/ JoinPasses \/ ColdStart \/ ColdDescribe \/ ColdStartInstance \/ ColdFail
  \/ OpenRoom \/ JoinFails \/ CloseRoom \/ DropRoom \/ LateCleanup
  \/ HookRead \/ HookCount \/ HookStore
  \/ SchedulerWakes \/ SchedulerCounts \/ SchedulerDefers \/ SchedulerMarks
  \/ \E ok \in BOOLEAN : SchedulerStops(ok) \/ TaskStops(ok)
  \/ TaskMarks
  \/ InstanceBoots \/ InstanceStops \/ SfuChanges \/ Restart

SfuSpec == SfuInit /\ [][SfuNext]_sfuVars

\* Time passes, the runtime polls the monitor and the scheduler, their calls to
\* the SFU and to AWS return, and AWS finishes a stop it has accepted.  Nothing
\* is assumed of the detached tasks, of clients, of the SFU process or of a boot.
Fairness ==
  /\ WF_sfuVars(StartAges) /\ WF_sfuVars(MonitorStep) /\ WF_sfuVars(SchedulerStep)
  /\ WF_sfuVars(InstanceStops)

FairSpec == SfuSpec /\ Fairness

-----------------------------------------------------------------------------
(* Properties                                                              *)

\* While the status is Starting, exactly one cold start was spawned for it:
\* JoinVoice tests and sets the status under one write lock, so joins that
\* race on a sleeping SFU do not each start the instance (ws_dispatch.rs).
OneColdStart == health = "starting" => spawned = 1

\* A pending shutdown is seen by the close of the last room, unless no close
\* was left to see it: the scheduler stored the flag after the last close had
\* looked (it counts rooms before it stores), or the last room disappeared
\* without cleanup_room_artifacts (main.rs, ws_session.rs).
DeferralNotForgotten ==
  pending /\ rooms = 0 /\ NobodyWillLook => missed

\* The flags and counters of the lifecycle fit together, across restarts too:
\* one cold start per episode, and no deferred stop overlooked.
SfuInv == SfuTypeOK /\ OneColdStart /\ DeferralNotForgotten

\* When AWS accepts a stop of the running instance, every room that is open
\* opened after the stop was decided on; a room that was there when the rooms
\* were counted is never cut off (trigger_ec2_stop's two callers).
StopSparesOldRooms ==
  [][inst = "running" /\ inst' = "stopping" => old = 0]_sfuVars

\* A cold start comes to an end: the SFU answers, the start fails, or the
\* monitor gives it up after five minutes (spawn_health_monitor). Said as
\* "never starting for good", the same formula as starting ~> not starting.
StartingEnds == []<>(health # "starting")

\* While the SFU stays up the status is available again and again, and for
\* good once no cold start is left that gave up: only such a task can still
\* overwrite the monitor's answer.  While the SFU stays down the status is in
\* the end never available, whatever stale answer was written in between
\* (spawn_health_monitor and the task JoinVoice spawns).
HealthFollowsSfu ==
  /\ <>[]sfuUp => []<>(health = "available")
  /\ <>[](sfuUp /\ cold["fail"] = 0) => <>[](health = "available")
  /\ <>[]~sfuUp => <>[](health # "available")

\* A backend that stays up and idle keeps asking for the instance to be
\* stopped, night after night, also when a deferred stop was missed
\* (spawn_shutdown_scheduler).
IdleInstanceIsStopped ==
  /\ <>[](ec2 /\ rooms = 0 /\ health # "starting")
  /\ <>[][~Restart]_sfuVars
  => []<>StopUnderWay

=============================================================================
