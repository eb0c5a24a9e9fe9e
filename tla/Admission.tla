----------------------------- MODULE Admission -----------------------------
(***************************************************************************)
(* How a WebSocket connection is admitted and given up: the pre-upgrade    *)
(* checks of ws_handler in their order (global ceiling, temporary ban,     *)
(* one-use ticket, per-IP cap), the upgrade, the receive loop's rate-limit *)
(* violations, and the guard that gives the per-IP slot back.              *)
(*                                                                         *)
(* One step is one lock section or one atomic access of a request's task;  *)
(* the tasks of all requests, the ticket endpoint, the sweeps and the      *)
(* clock interleave.  The clock counts seconds.                            *)
(***************************************************************************)
EXTENDS Integers, FiniteSets, Sequences

CONSTANTS
  Conn,          \* upgrade requests, each handled once
  Ip,            \* client addresses
  IpOf,          \* the address a request comes from
  Ticket,        \* tickets the ticket endpoint may issue
  MaxPerSec,     \* ceiling of the global limiter
  MaxPerIp,      \* MAX_CONNECTIONS_PER_IP
  TicketTtl,     \* TICKET_TTL_SECS
  Threshold,     \* TEMP_BAN_THRESHOLD
  Window,        \* TEMP_BAN_WINDOW_SECS
  BanDuration,   \* TEMP_BAN_DURATION_SECS
  MaxEntries,    \* TEMP_BAN_MAX_ENTRIES
  MaxClock       \* bound on the clock

ASSUME ConfigAssumption ==
  /\ IsFiniteSet(Conn) /\ IpOf \in [Conn -> Ip]
  /\ {MaxPerSec, MaxPerIp, MaxEntries, MaxClock} \subseteq Nat
  /\ {TicketTtl, Threshold, Window, BanDuration} \subseteq Nat \ {0}

VARIABLES
  clock,       \* seconds
  pc,          \* the place of each request's task
  now,         \* the time the task read, 0 when it no longer needs it
  bucket,      \* GlobalRateLimiter.state: epoch and tokens
  seen,        \* the bucket a task loaded
  tickets,     \* WsTicketStore.tickets: expiry and consumed flag by ticket
  issued,      \* tickets issued so far
  count,       \* IpConnectionTracker.connections
  violations,  \* TempBanList.violations
  bans,        \* TempBanList.bans: expiry by address
  admitted,    \* history: tokens taken for each second
  rewound,     \* history: seconds the bucket was set back over
  holder,      \* history: the request each ticket was accepted for
  abandoned    \* history: slots whose upgrade never completed

limiterVars == <<bucket, seen, admitted, rewound>>
ticketVars  == <<tickets, issued, holder>>
slotVars    == <<count, abandoned>>
banVars     == <<violations, bans>>
vars == <<clock, pc, now, limiterVars, ticketVars, slotVars, banVars>>

Second  == 0..MaxClock
\* A bucket starts, and restarts, in an epoch no request can be in.
NoEpoch == -1
Place   == {"new", "load", "swap", "banned", "ticket", "slot", "upgrade",
            "open", "violation", "ban", "closing", "gone", "refused"}

\* A task that owns a slot of its address.
Holding(c) == pc[c] \in {"upgrade", "open", "violation", "ban", "closing"}
Connected(ip) == {c \in Conn : IpOf[c] = ip /\ Holding(c)}

NoBucket == [epoch |-> NoEpoch, tokens |-> 0]
Put(f, k, v) == [x \in DOMAIN f \cup {k} |-> IF x = k THEN v ELSE f[x]]
GoTo(c, place) == pc' = [pc EXCEPT ![c] = place]

TypeOK ==
  /\ clock \in Second
  /\ pc \in [Conn -> Place]
  /\ now \in [Conn -> Second]
  /\ bucket \in [epoch : Second \cup {NoEpoch}, tokens : 0..MaxPerSec]
  /\ seen \in [Conn -> [epoch : Second \cup {NoEpoch}, tokens : 0..MaxPerSec]]
  /\ issued \subseteq Ticket
  /\ DOMAIN tickets \subseteq issued
  /\ \A t \in DOMAIN tickets :
       tickets[t] \in [expires : 0..(MaxClock + TicketTtl), consumed : BOOLEAN]
  /\ count \in [Ip -> 0..MaxPerIp]
  /\ violations \in [Ip -> Seq(Second)]
  /\ DOMAIN bans \subseteq Ip
  /\ \A ip \in DOMAIN bans : bans[ip] \in 0..(MaxClock + BanDuration)
  /\ admitted \in [Second -> Nat]
  /\ rewound \subseteq Second
  /\ DOMAIN holder \subseteq issued
  /\ \A t \in DOMAIN holder : holder[t] \in Conn
  /\ abandoned \in [Ip -> Nat]

Init ==
  /\ clock = 0
  /\ pc = [c \in Conn |-> "new"]
  /\ now = [c \in Conn |-> 0]
  /\ bucket = [epoch |-> NoEpoch, tokens |-> MaxPerSec]
  /\ seen = [c \in Conn |-> NoBucket]
  /\ tickets = <<>> /\ issued = {}
  /\ count = [ip \in Ip |-> 0]
  /\ violations = [ip \in Ip |-> <<>>]
  /\ bans = <<>>
  /\ admitted = [t \in Second |-> 0] /\ rewound = {}
  /\ holder = <<>>
  /\ abandoned = [ip \in Ip |-> 0]

Tick ==
  /\ clock < MaxClock
  /\ clock' = clock + 1
  /\ UNCHANGED <<pc, now, limiterVars, ticketVars, slotVars, banVars>>

-----------------------------------------------------------------------------
(* GlobalRateLimiter.allow                                                 *)

\* The handler reads the clock; the scheme of the request is already checked.
Arrive(c) ==
  /\ pc[c] = "new"
  /\ now' = [now EXCEPT ![c] = clock]
  /\ GoTo(c, "load")
  /\ UNCHANGED <<clock, limiterVars, ticketVars, slotVars, banVars>>

\* A request that needs TLS and did not come over it goes no further.
RefuseScheme(c) ==
  /\ pc[c] = "new"
  /\ GoTo(c, "refused")
  /\ UNCHANGED <<clock, now, limiterVars, ticketVars, slotVars, banVars>>

\* An empty bucket of the caller's second refuses without a swap.
Load(c) ==
  /\ pc[c] = "load"
  /\ IF bucket.epoch = now[c] /\ bucket.tokens = 0
       THEN /\ now' = [now EXCEPT ![c] = 0]
            /\ GoTo(c, "refused")
            /\ UNCHANGED seen
       ELSE /\ seen' = [seen EXCEPT ![c] = bucket]
            /\ GoTo(c, "swap")
            /\ UNCHANGED now
  /\ UNCHANGED <<clock, bucket, admitted, rewound, ticketVars, slotVars,
                 banVars>>

MutTake(b, t) ==
  IF b.epoch # t THEN [epoch |-> t, tokens |-> MaxPerSec]
                 ELSE [epoch |-> t, tokens |-> b.tokens - 1]

\* A bucket of another second is refilled; the caller takes one token.
Take(b, t) ==
  IF b.epoch # t
    THEN [epoch |-> t, tokens |-> IF MaxPerSec > 0 THEN MaxPerSec - 1 ELSE 0]
    ELSE [epoch |-> t, tokens |-> b.tokens - 1]

\* allow returns true and its locals are gone.
Admit(c) ==
  /\ admitted' = [admitted EXCEPT ![now[c]] = @ + 1]
  /\ rewound' = IF bucket.epoch > now[c]
                  THEN rewound \cup (now[c]..bucket.epoch) ELSE rewound
  /\ now' = [now EXCEPT ![c] = 0]
  /\ seen' = [seen EXCEPT ![c] = NoBucket]
  /\ GoTo(c, "banned")

\* compare_exchange_weak: the token is taken if the bucket is still the one
\* that was loaded, otherwise the task loads again (as it does after a
\* spurious failure).
Swap(c) ==
  /\ pc[c] = "swap"
  /\ IF bucket = seen[c]
       THEN /\ bucket' = Take(bucket, now[c])
            /\ Admit(c)
       ELSE /\ GoTo(c, "load")
            /\ UNCHANGED <<bucket, now, seen, admitted, rewound>>
  /\ UNCHANGED <<clock, ticketVars, slotVars, banVars>>

-----------------------------------------------------------------------------
(* The temporary ban, the ticket and the slot                              *)

Banned(ip, t) == ip \in DOMAIN bans /\ bans[ip] > t

CheckBan(c) ==
  /\ pc[c] = "banned"
  /\ GoTo(c, IF Banned(IpOf[c], clock) THEN "refused" ELSE "ticket")
  /\ UNCHANGED <<clock, now, limiterVars, ticketVars, slotVars, banVars>>

\* POST /auth/ws-ticket: a fresh random ticket, known by its hash.
IssueTicket(t) ==
  /\ t \notin issued
  /\ issued' = issued \cup {t}
  /\ tickets' = Put(tickets, t, [expires |-> clock + TicketTtl, consumed |-> FALSE])
  /\ UNCHANGED <<clock, pc, now, holder, limiterVars, slotVars, banVars>>

Acceptable(t) ==
  /\ t \in DOMAIN tickets
  /\ ~tickets[t].consumed
  /\ tickets[t].expires > clock

MutPresentTicket(c, t) ==
  /\ pc[c] = "ticket"
  /\ IF Acceptable(t)
       THEN /\ holder' = Put(holder, t, c)
            /\ GoTo(c, "slot")
       ELSE /\ GoTo(c, "refused")
            /\ UNCHANGED holder
  /\ UNCHANGED <<clock, now, issued, tickets, limiterVars, slotVars, banVars>>

\* validate_and_consume: one write lock for the check and the mark.
PresentTicket(c, t) ==
  /\ pc[c] = "ticket"
  /\ IF Acceptable(t)
       THEN /\ tickets' = [tickets EXCEPT ![t].consumed = TRUE]
            /\ holder' = Put(holder, t, c)
            /\ GoTo(c, "slot")
       ELSE /\ GoTo(c, "refused")
            /\ UNCHANGED <<tickets, holder>>
  /\ UNCHANGED <<clock, now, issued, limiterVars, slotVars, banVars>>

\* A request without a ticket.
NoTicket(c) ==
  /\ pc[c] = "ticket"
  /\ GoTo(c, "refused")
  /\ UNCHANGED <<clock, now, limiterVars, ticketVars, slotVars, banVars>>

\* The auth sweep drops consumed and expired tickets.
PruneTickets ==
  /\ \E t \in DOMAIN tickets : ~Acceptable(t)
  /\ tickets' = [t \in {u \in DOMAIN tickets : Acceptable(u)} |-> tickets[t]]
  /\ UNCHANGED <<clock, pc, now, issued, holder, limiterVars, slotVars, banVars>>

\* IpConnectionTracker::try_add; a refused request has used its ticket up.
TakeSlot(c) ==
  LET ip == IpOf[c]
  IN  /\ pc[c] = "slot"
      /\ IF count[ip] < MaxPerIp
           THEN /\ count' = [count EXCEPT ![ip] = @ + 1]
                /\ GoTo(c, "upgrade")
           ELSE /\ GoTo(c, "refused")
                /\ UNCHANGED count
      /\ UNCHANGED <<clock, now, abandoned, limiterVars, ticketVars, banVars>>

-----------------------------------------------------------------------------
(* The connection                                                          *)

\* The upgrade completes and handle_socket builds the guard.
Upgrade(c) ==
  /\ pc[c] = "upgrade"
  /\ GoTo(c, "open")
  /\ UNCHANGED <<clock, now, limiterVars, ticketVars, slotVars, banVars>>

\* The client is gone before the upgrade completes: handle_socket never runs,
\* so no guard gives the slot back.
UpgradeFails(c) ==
  /\ pc[c] = "upgrade"
  /\ GoTo(c, "gone")
  /\ abandoned' = [abandoned EXCEPT ![IpOf[c]] = @ + 1]
  /\ UNCHANGED <<clock, now, count, limiterVars, ticketVars, banVars>>

\* A message over the window or the burst limit: record_violation reads the
\* clock, and the connection is closed once it has returned.
ExceedRate(c) ==
  /\ pc[c] = "open"
  /\ now' = [now EXCEPT ![c] = clock]
  /\ GoTo(c, "violation")
  /\ UNCHANGED <<clock, limiterVars, ticketVars, slotVars, banVars>>

\* Timestamps at the front of the queue that are too old at time t are dropped.
Recent(s, t) ==
  LET keep == {i \in DOMAIN s : s[i] > t - Window}
  IN  IF keep = {} THEN <<>>
      ELSE SubSeq(s, CHOOSE i \in keep : \A j \in keep : i <= j, Len(s))

\* First lock section of record_violation: the window of the address.
RecordViolation(c) ==
  LET ip == IpOf[c]
      w  == Recent(Append(violations[ip], now[c]), now[c])
  IN  /\ pc[c] = "violation"
      /\ violations' = [violations EXCEPT ![ip] = w]
      /\ IF Len(w) >= Threshold
           THEN GoTo(c, "ban") /\ UNCHANGED now
           ELSE GoTo(c, "closing") /\ now' = [now EXCEPT ![c] = 0]
      /\ UNCHANGED <<clock, bans, limiterVars, ticketVars, slotVars>>

Unexpired(t) == [ip \in {a \in DOMAIN bans : bans[a] > t} |-> bans[ip]]

MutBan(c) ==
  LET ip == IpOf[c]
  IN  /\ pc[c] = "ban"
      /\ bans' = Put(IF Cardinality(DOMAIN bans) >= MaxEntries THEN <<>> ELSE bans,
                     ip, now[c] + BanDuration)
      /\ GoTo(c, "closing")
      /\ now' = [now EXCEPT ![c] = 0]
      /\ UNCHANGED <<clock, violations, limiterVars, ticketVars, slotVars>>

\* Second lock section: the ban, unless the address is banned already or the
\* list is full even without its expired entries.
Ban(c) ==
  LET ip   == IpOf[c]
      room == IF Cardinality(DOMAIN bans) >= MaxEntries
                THEN Unexpired(now[c]) ELSE bans
  IN  /\ pc[c] = "ban"
      /\ bans' = IF Banned(ip, now[c]) THEN bans
                 ELSE IF Cardinality(DOMAIN room) >= MaxEntries THEN room
                 ELSE Put(room, ip, now[c] + BanDuration)
      /\ GoTo(c, "closing")
      /\ now' = [now EXCEPT ![c] = 0]
      /\ UNCHANGED <<clock, violations, limiterVars, ticketVars, slotVars>>

\* Any other end of the receive loop.
Close(c) ==
  /\ pc[c] = "open"
  /\ GoTo(c, "closing")
  /\ UNCHANGED <<clock, now, limiterVars, ticketVars, slotVars, banVars>>

\* The guard is dropped when handle_socket returns.
DropGuard(c) ==
  LET ip == IpOf[c]
  IN  /\ pc[c] = "closing"
      /\ count' = [count EXCEPT ![ip] = IF @ <= 1 THEN 0 ELSE @ - 1]
      /\ GoTo(c, "gone")
      /\ UNCHANGED <<clock, now, abandoned, limiterVars, ticketVars, banVars>>

\* The invite sweep prunes expired bans and empty violation windows.
PruneBans ==
  /\ Unexpired(clock) # bans
  /\ bans' = Unexpired(clock)
  /\ UNCHANGED <<clock, pc, now, violations, limiterVars, ticketVars, slotVars>>

-----------------------------------------------------------------------------
Next ==
  \/ Tick \/ PruneTickets \/ PruneBans
  \/ \E t \in Ticket : IssueTicket(t)
  \/ \E c \in Conn :
       \/ Arrive(c) \/ RefuseScheme(c) \/ Load(c) \/ Swap(c) \/ CheckBan(c)
       \/ (\E t \in Ticket : PresentTicket(c, t)) \/ NoTicket(c)
       \/ TakeSlot(c) \/ Upgrade(c) \/ UpgradeFails(c)
       \/ ExceedRate(c) \/ RecordViolation(c) \/ Ban(c)
       \/ Close(c) \/ DropGuard(c)

Spec == Init /\ [][Next]_vars

-----------------------------------------------------------------------------
(* Properties                                                              *)

\* The count of an address is the number of connections that will give their
\* slot back, plus the slots of upgrades that never completed, so the cap is
\* neither exceeded nor eaten up by refused or violating connections
\* (IpConnectionTracker, ConnectionGuard).
SlotsAccounted ==
  \A ip \in Ip : count[ip] = Cardinality(Connected(ip)) + abandoned[ip]

\* Every connection past the ticket check has a ticket of its own: two
\* requests that race with the same ticket do not both pass, also when the
\* sweep prunes in between (WsTicketStore::validate_and_consume).
TicketPerConnection ==
  \A c \in Conn :
    Holding(c) \/ pc[c] \in {"slot", "gone"} =>
      \E t \in DOMAIN holder : holder[t] = c

\* The books of admission balance at every step of every handler: slots
\* against connections, connections against tickets.
AdmissionInv == TypeOK /\ SlotsAccounted /\ TicketPerConnection

\* The ceiling of the global limiter holds for every second unless a task that
\* had read an older second came late and set the bucket back
\* (GlobalRateLimiter::allow: "at most max_per_sec admissions per second").
CeilingUnlessRewound ==
  \A t \in Second \ rewound :
    admitted[t] <= (IF MaxPerSec > 0 THEN MaxPerSec ELSE 1)

\* A ban lasts to its term: neither another violation of the same address, nor
\* making room for another one, nor the sweep ends it early or shortens it
\* (TempBanList::record_violation, prune_expired).
BanServed ==
  [][\A ip \in DOMAIN bans :
       bans[ip] > clock => ip \in DOMAIN bans' /\ bans'[ip] = bans[ip]]_vars
=============================================================================
