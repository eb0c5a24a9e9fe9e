---------------------- MODULE SfuAndAdmissionProofs ----------------------
(***************************************************************************)
(* Theorems about the two gates a caller passes on the way to a room.      *)
(*                                                                         *)
(* Admission, for any requests, addresses, tickets, limits and durations.  *)
(* TypeOK is inductive once it is known that no task holds a time of the   *)
(* future and that a task about to swap has seen a token.  On it stand     *)
(* three arguments: a ban running now is unexpired at every time a task    *)
(* may hold; in a second never set back over, tokens taken and left stay   *)
(* within the ceiling; an accepted ticket stays consumed, and the          *)
(* connections of an address gain or lose one element with its count.      *)
(*                                                                         *)
(* SfuLifecycle, for any number of rooms and tasks: the lifecycle keeps    *)
(* SfuInv, and a stop never cuts off a room that was there when the rooms  *)
(* were counted.                                                           *)
(***************************************************************************)
EXTENDS Admission, SfuLifecycle, FiniteSetTheorems, WellFoundedInduction, TLAPS

(***************************************************************************)
(*                                                                         *)
(* Admission.                                                              *)
(*                                                                         *)
(***************************************************************************)

\* No task holds a time that has not come.
Clocked == \A c \in Conn : now[c] <= clock

\* A task about to swap has seen a token to take, if the bucket is of its second.
Loaded ==
  \A c \in Conn : pc[c] = "swap" /\ seen[c].epoch = now[c] => seen[c].tokens > 0

Typed == TypeOK /\ Clocked /\ Loaded

\* A nonempty set of naturals has a least element.
LEMMA LeastElement ==
    ASSUME NEW T, T \subseteq Nat, T # {}
    PROVE  \E x \in T : \A y \in T : x <= y
<1> DEFINE R == {ss \in Nat \X Nat : ss[1] < ss[2]}
<1>1. PICK x \in T : \A y \in T : ~(<<y, x>> \in R)
  <2>1. IsWellFoundedOn(R, Nat)
      BY NatLessThanWellFounded, Zenon DEF OpToRel
  <2> HIDE DEF R
  <2> QED BY Zenon, <2>1, WFMin
<1>2. ASSUME NEW y \in T PROVE x <= y
  <2>1. x \in Nat /\ y \in Nat
      OBVIOUS
  <2>2. ASSUME y < x PROVE <<y, x>> \in R
    <3> DEFINE p == <<y, x>>
    <3>1. p \in Nat \X Nat /\ p[1] = y /\ p[2] = x
        BY <2>1
    <3> HIDE DEF p
    <3>2. p \in R
        BY <2>2, <3>1
    <3> QED BY <3>2 DEF p
  <2>3. ~(y < x)
      BY <1>1, <2>2
  <2> QED BY <2>1, <2>3
<1> QED BY <1>2

\* Dropping old timestamps leaves a sequence of timestamps.
LEMMA RecentIsSeq ==
    ASSUME NEW s \in Seq(Second), NEW t \in Second
    PROVE  Recent(s, t) \in Seq(Second)
<1> DEFINE keep == {i \in DOMAIN s : s[i] > t - Window}
           m == CHOOSE i \in keep : \A j \in keep : i <= j
<1>1. CASE keep = {}
    BY <1>1 DEF Recent
<1>2. CASE keep # {}
  <2>1. keep \subseteq Nat
      OBVIOUS
  <2>2. \E i \in keep : \A j \in keep : i <= j
    <3> HIDE DEF keep
    <3> QED BY Zenon, <1>2, <2>1, LeastElement
  <2>3. m \in keep
    <3> HIDE DEF keep
    <3> QED BY <2>2
  <2>4. m \in 1 .. Len(s)
      BY <2>3
  <2>5. Recent(s, t) = SubSeq(s, m, Len(s))
      BY Zenon, <1>2 DEF Recent
  <2> HIDE DEF m
  <2>6. SubSeq(s, m, Len(s)) \in Seq(Second)
      BY <2>4
  <2> QED BY <2>5, <2>6
<1> QED BY <1>1, <1>2

\* Bounds and places are what they should be.
LEMMA Bounds ==
    /\ MaxPerSec \in Nat /\ MaxPerIp \in Nat /\ MaxEntries \in Nat /\ MaxClock \in Nat
    /\ TicketTtl \in Nat /\ Window \in Nat /\ BanDuration \in Nat
    /\ \A t \in Second : t \in Nat /\ t <= MaxClock
    /\ 0 \in Second
BY ConfigAssumption DEF Second

\* A task that only moves on disturbs nothing but its place.
LEMMA MoveTyped ==
    ASSUME Typed, NEW c \in Conn, NEW p \in Place \ {"swap"}, GoTo(c, p),
           UNCHANGED <<clock, now, limiterVars, ticketVars, slotVars, banVars>>
    PROVE  Typed'
<1>1. pc' \in [Conn -> Place] /\ \A d \in Conn : pc'[d] = "swap" => pc[d] = "swap"
    BY DEF Typed, TypeOK, GoTo
<1> QED
    BY <1>1 DEF Typed, TypeOK, Clocked, Loaded, limiterVars, ticketVars, slotVars, banVars

\* Taking a token and recording it.
LEMMA TakeTyped ==
    ASSUME Typed, NEW c \in Conn, bucket.epoch = now[c] => bucket.tokens > 0
    PROVE  Take(bucket, now[c]) \in [epoch : Second \cup {NoEpoch}, tokens : 0..MaxPerSec]
<1> DEFINE b == Take(bucket, now[c])
<1>1. bucket.epoch \in Second \cup {NoEpoch} /\ bucket.tokens \in 0..MaxPerSec
    BY DEF Typed, TypeOK
<1>2. now[c] \in Second
    BY DEF Typed, TypeOK
<1>3. CASE bucket.epoch # now[c]
  <2>1. (IF MaxPerSec > 0 THEN MaxPerSec - 1 ELSE 0) \in 0..MaxPerSec
      BY Bounds
  <2> QED BY <1>2, <1>3, <2>1 DEF Take
<1>4. CASE bucket.epoch = now[c]
  <2>1. bucket.tokens - 1 \in 0..MaxPerSec
      BY <1>1, <1>4, Bounds
  <2> QED BY <1>2, <1>4, <2>1 DEF Take
<1> QED BY <1>3, <1>4

\* Every step of every handler, sweep and tick keeps the types.
LEMMA TypedInductive == Typed /\ [Next]_vars => Typed'
<1> SUFFICES ASSUME Typed, [Next]_vars PROVE Typed'
    OBVIOUS
<1> USE DEF limiterVars, ticketVars, slotVars, banVars
<1>1. CASE UNCHANGED vars
    BY <1>1 DEF vars, Typed, TypeOK, Clocked, Loaded
<1>2. CASE Tick
  <2>1. clock' \in Second /\ clock <= clock'
      BY <1>2, Bounds DEF Tick, Typed, TypeOK, Second
  <2>2. \A c \in Conn : now[c] \in Nat /\ clock \in Nat /\ clock' \in Nat
      BY <2>1, Bounds DEF Typed, TypeOK
  <2> QED BY <1>2, <2>1, <2>2 DEF Tick, Typed, TypeOK, Clocked, Loaded
<1>3. CASE PruneTickets
    BY <1>3 DEF PruneTickets, Typed, TypeOK, Clocked, Loaded
<1>4. CASE PruneBans
    BY Zenon, <1>4 DEF PruneBans, Unexpired, Typed, TypeOK, Clocked, Loaded
<1>5. ASSUME NEW t \in Ticket, IssueTicket(t) PROVE Typed'
  <2> DEFINE Entry == [expires : 0..(MaxClock + TicketTtl), consumed : BOOLEAN]
             e == [expires |-> clock + TicketTtl, consumed |-> FALSE]
  <2>1. clock + TicketTtl \in 0..(MaxClock + TicketTtl)
    <3>1. clock \in Second
        BY DEF Typed, TypeOK
    <3> QED BY <3>1, Bounds
  <2>2. /\ DOMAIN tickets' = DOMAIN tickets \cup {t}
        /\ tickets'[t] = e
        /\ \A u \in DOMAIN tickets \ {t} : tickets'[u] = tickets[u]
      BY <1>5 DEF IssueTicket, Put
  <2>3. \A u \in DOMAIN tickets' : tickets'[u] \in Entry
    <3>1. e \in Entry
        BY <2>1
    <3>2. \A u \in DOMAIN tickets : tickets[u] \in Entry
        BY DEF Typed, TypeOK
    <3> HIDE DEF e, Entry
    <3> QED BY <2>2, <3>1, <3>2
  <2>4. DOMAIN tickets' \subseteq issued' /\ issued' \subseteq Ticket /\ issued \subseteq issued'
      BY <1>5, <2>2 DEF IssueTicket, Typed, TypeOK
  <2>5. UNCHANGED <<clock, pc, now, holder, limiterVars, slotVars, banVars>>
      BY <1>5 DEF IssueTicket
  <2> QED BY <2>3, <2>4, <2>5 DEF Typed, TypeOK, Clocked, Loaded
<1>6. ASSUME NEW c \in Conn,
             RefuseScheme(c) \/ CheckBan(c) \/ NoTicket(c) \/ Upgrade(c) \/ Close(c)
      PROVE  Typed'
  <2>1. /\ \E p \in Place \ {"swap"} : GoTo(c, p)
        /\ UNCHANGED <<clock, now, limiterVars, ticketVars, slotVars, banVars>>
      BY <1>6 DEF RefuseScheme, CheckBan, NoTicket, Upgrade, Close, Place
  <2> QED BY Zenon, <2>1, MoveTyped
<1>7. ASSUME NEW c \in Conn, Arrive(c) \/ ExceedRate(c) PROVE Typed'
  <2>1. \E p \in Place \ {"swap"} : GoTo(c, p)
      BY <1>7 DEF Arrive, ExceedRate, Place
  <2>2. now' = [now EXCEPT ![c] = clock]
      BY <1>7 DEF Arrive, ExceedRate
  <2>3. UNCHANGED <<clock, limiterVars, ticketVars, slotVars>>
      BY <1>7 DEF Arrive, ExceedRate
  <2>4. UNCHANGED <<banVars>>
      BY <1>7 DEF Arrive, ExceedRate
  <2>5. /\ pc' \in [Conn -> Place] /\ now' \in [Conn -> Second]
        /\ \A d \in Conn : pc'[d] = "swap" => pc[d] = "swap" /\ now'[d] = now[d]
        /\ \A d \in Conn : now'[d] = now[d] \/ now'[d] = clock
      BY <2>1, <2>2 DEF GoTo, Typed, TypeOK
  <2>6. clock <= clock
      BY Bounds DEF Typed, TypeOK
  <2> QED BY Zenon, <2>3, <2>4, <2>5, <2>6 DEF Typed, TypeOK, Clocked, Loaded
<1>8. ASSUME NEW c \in Conn, Load(c) PROVE Typed'
  <2>1. CASE bucket.epoch = now[c] /\ bucket.tokens = 0
    <3>1. /\ now' = [now EXCEPT ![c] = 0] /\ GoTo(c, "refused")
          /\ UNCHANGED <<clock, limiterVars, ticketVars, slotVars, banVars>>
        BY Zenon, <1>8, <2>1 DEF Load
    <3>2. /\ pc' \in [Conn -> Place] /\ now' \in [Conn -> Second]
          /\ \A d \in Conn : pc'[d] = "swap" => pc[d] = "swap" /\ now'[d] = now[d]
          /\ \A d \in Conn : now'[d] = now[d] \/ now'[d] = 0
        BY Zenon, <3>1, Bounds DEF GoTo, Typed, TypeOK, Place
    <3>3. 0 <= clock
        BY Bounds DEF Typed, TypeOK
    <3> QED BY SMTT(30), <3>1, <3>2, <3>3 DEF Typed, TypeOK, Clocked, Loaded
  <2>2. CASE ~(bucket.epoch = now[c] /\ bucket.tokens = 0)
    <3>1. /\ seen' = [seen EXCEPT ![c] = bucket] /\ GoTo(c, "swap")
          /\ UNCHANGED <<clock, now, bucket, admitted, rewound, ticketVars, slotVars, banVars>>
        BY <1>8, <2>2 DEF Load
    <3>2. /\ pc' \in [Conn -> Place]
          /\ seen' \in [Conn -> [epoch : Second \cup {NoEpoch}, tokens : 0..MaxPerSec]]
          /\ seen'[c] = bucket
          /\ \A d \in Conn \ {c} : pc'[d] = pc[d] /\ seen'[d] = seen[d]
        BY Zenon, <3>1 DEF GoTo, Typed, TypeOK, Place
    <3>3. bucket.tokens \in 0..MaxPerSec
        BY DEF Typed, TypeOK
    <3>4. bucket.epoch = now[c] => bucket.tokens > 0
        BY <2>2, <3>3, Bounds
    <3>5. Loaded'
        BY <3>1, <3>2, <3>4 DEF Typed, Loaded
    <3> QED BY Zenon, <3>1, <3>2, <3>5 DEF Typed, TypeOK, Clocked
  <2> QED BY Zenon, <2>1, <2>2
<1>9. ASSUME NEW c \in Conn, Swap(c) PROVE Typed'
  <2>1. CASE bucket = seen[c]
    <3>1. bucket.epoch = now[c] => bucket.tokens > 0
        BY Zenon, <1>9, <2>1 DEF Swap, Typed, Loaded
    <3>2. bucket' \in [epoch : Second \cup {NoEpoch}, tokens : 0..MaxPerSec]
        BY Zenon, <1>9, <2>1, <3>1, TakeTyped DEF Swap
    <3>3. /\ admitted' = [admitted EXCEPT ![now[c]] = @ + 1]
          /\ rewound' = IF bucket.epoch > now[c]
                          THEN rewound \cup (now[c]..bucket.epoch) ELSE rewound
          /\ now' = [now EXCEPT ![c] = 0]
          /\ seen' = [seen EXCEPT ![c] = NoBucket]
          /\ GoTo(c, "banned")
          /\ UNCHANGED <<clock, ticketVars, slotVars, banVars>>
        BY Zenon, <1>9, <2>1 DEF Swap, Admit
    <3>4. admitted' \in [Second -> Nat]
        BY <3>3 DEF Typed, TypeOK
    <3>5. rewound' \subseteq Second
      <4>1. now[c] \in Second /\ bucket.epoch \in Second \cup {NoEpoch}
          BY DEF Typed, TypeOK
      <4>2. bucket.epoch > now[c] => now[c]..bucket.epoch \subseteq Second
          BY <4>1, Bounds DEF Second, NoEpoch
      <4> QED BY <3>3, <4>2 DEF Typed, TypeOK
    <3>6. NoBucket \in [epoch : Second \cup {NoEpoch}, tokens : 0..MaxPerSec]
        BY Bounds DEF NoBucket
    <3>7. /\ pc' \in [Conn -> Place] /\ now' \in [Conn -> Second]
          /\ seen' \in [Conn -> [epoch : Second \cup {NoEpoch}, tokens : 0..MaxPerSec]]
          /\ pc'[c] = "banned" /\ now'[c] = 0
          /\ \A d \in Conn \ {c} : pc'[d] = pc[d] /\ seen'[d] = seen[d] /\ now'[d] = now[d]
        BY Zenon, <3>3, <3>6, Bounds DEF GoTo, Typed, TypeOK, Place
    <3>8. 0 <= clock
        BY Bounds DEF Typed, TypeOK
    <3>9. Clocked' /\ Loaded'
        BY Zenon, <3>3, <3>7, <3>8 DEF Typed, Clocked, Loaded
    <3> QED BY Zenon, <3>2, <3>3, <3>4, <3>5, <3>7, <3>9 DEF Typed, TypeOK
  <2>2. CASE bucket # seen[c]
    <3>1. "load" \in Place \ {"swap"}
        BY DEF Place
    <3> QED BY <1>9, <2>2, <3>1, MoveTyped DEF Swap
  <2> QED BY <2>1, <2>2
<1>10. ASSUME NEW c \in Conn, NEW t \in Ticket, PresentTicket(c, t) PROVE Typed'
  <2> DEFINE Entry == [expires : 0..(MaxClock + TicketTtl), consumed : BOOLEAN]
  <2>1. CASE Acceptable(t)
    <3>1. /\ tickets' = [tickets EXCEPT ![t].consumed = TRUE]
          /\ holder' = Put(holder, t, c) /\ GoTo(c, "slot")
          /\ UNCHANGED <<clock, now, issued, limiterVars, slotVars, banVars>>
        BY <1>10, <2>1 DEF PresentTicket
    <3>2. DOMAIN tickets' = DOMAIN tickets /\ \A u \in DOMAIN tickets' : tickets'[u] \in Entry
      <4>1. t \in DOMAIN tickets /\ \A u \in DOMAIN tickets : tickets[u] \in Entry
          BY <2>1 DEF Acceptable, Typed, TypeOK
      <4> QED BY Zenon, <3>1, <4>1
    <3>3. DOMAIN holder' \subseteq issued /\ \A u \in DOMAIN holder' : holder'[u] \in Conn
        BY <2>1, <3>1 DEF Put, Acceptable, Typed, TypeOK
    <3>4. pc' \in [Conn -> Place] /\ \A d \in Conn : pc'[d] = "swap" => pc[d] = "swap"
        BY <3>1 DEF GoTo, Typed, TypeOK, Place
    <3> QED BY Zenon, <3>1, <3>2, <3>3, <3>4 DEF Typed, TypeOK, Clocked, Loaded
  <2>2. CASE ~Acceptable(t)
    <3>1. "refused" \in Place \ {"swap"}
        BY Zenon DEF Place
    <3> QED BY <1>10, <2>2, <3>1, MoveTyped DEF PresentTicket
  <2> QED BY <2>1, <2>2
<1>11. ASSUME NEW c \in Conn, TakeSlot(c) \/ UpgradeFails(c) \/ DropGuard(c) PROVE Typed'
  <2>1. count' \in [Ip -> 0..MaxPerIp] /\ abandoned' \in [Ip -> Nat]
    <3>1. IpOf[c] \in Ip /\ count[IpOf[c]] \in 0..MaxPerIp /\ abandoned[IpOf[c]] \in Nat
        BY ConfigAssumption DEF Typed, TypeOK
    <3> DEFINE n == count[IpOf[c]]
    <3>0. count \in [Ip -> 0..MaxPerIp] /\ abandoned \in [Ip -> Nat]
        BY DEF Typed, TypeOK
    <3>2. CASE TakeSlot(c)
      <4> DEFINE more == n + 1
      <4>1. abandoned' = abandoned
          BY <3>2 DEF TakeSlot
      <4>2. CASE n < MaxPerIp
        <5>1. more \in 0..MaxPerIp
            BY <3>1, <4>2, Bounds
        <5>2. count' = [count EXCEPT ![IpOf[c]] = more]
            BY Zenon, <3>2, <4>2 DEF TakeSlot
        <5> HIDE DEF more
        <5> QED BY Zenon, <3>0, <4>1, <5>1, <5>2
      <4>3. CASE ~(n < MaxPerIp)
          BY Zenon, <3>0, <3>2, <4>1, <4>3 DEF TakeSlot
      <4> QED BY <4>2, <4>3
    <3>3. CASE UpgradeFails(c)
        BY <3>1, <3>0, <3>3 DEF UpgradeFails
    <3>4. CASE DropGuard(c)
      <4> DEFINE left == IF n <= 1 THEN 0 ELSE n - 1
      <4>1. left \in 0..MaxPerIp
          BY SMTT(30), <3>1, Bounds
      <4>2. abandoned' = abandoned /\ count' = [count EXCEPT ![IpOf[c]] = left]
          BY <3>4 DEF DropGuard
      <4> HIDE DEF left
      <4> QED BY ZenonT(30), <3>0, <4>1, <4>2
    <3> QED BY ZenonT(30), <1>11, <3>2, <3>3, <3>4
  <2>2. /\ \E p \in Place \ {"swap"} : GoTo(c, p)
        /\ UNCHANGED <<clock, now, limiterVars, ticketVars, banVars>>
      BY ZenonT(30), <1>11 DEF TakeSlot, UpgradeFails, DropGuard, Place
  <2>3. pc' \in [Conn -> Place] /\ \A d \in Conn : pc'[d] = "swap" => pc[d] = "swap"
      BY <2>2 DEF GoTo, Typed, TypeOK
  <2> QED BY <2>1, <2>2, <2>3 DEF Typed, TypeOK, Clocked, Loaded
<1>12. ASSUME NEW c \in Conn, RecordViolation(c) \/ Ban(c) PROVE Typed'
  <2>1. now[c] \in Second /\ IpOf[c] \in Ip
      BY ConfigAssumption DEF Typed, TypeOK
  <2>2. violations' \in [Ip -> Seq(Second)]
    <3> DEFINE s == Append(violations[IpOf[c]], now[c])
    <3>1. violations \in [Ip -> Seq(Second)] /\ s \in Seq(Second)
        BY <2>1 DEF Typed, TypeOK
    <3> HIDE DEF s
    <3>2. Recent(s, now[c]) \in Seq(Second)
        BY ZenonT(30), <2>1, <3>1, RecentIsSeq
    <3>3. \/ violations' = violations
          \/ violations' = [violations EXCEPT ![IpOf[c]] = Recent(s, now[c])]
        BY Zenon, <1>12 DEF RecordViolation, Ban, s
    <3> QED BY ZenonT(30), <3>1, <3>2, <3>3
  <2>3. /\ DOMAIN bans' \subseteq Ip
        /\ \A ip \in DOMAIN bans' : bans'[ip] \in 0..(MaxClock + BanDuration)
    <3>1. now[c] + BanDuration \in 0..(MaxClock + BanDuration)
        BY <2>1, Bounds
    <3>2. CASE RecordViolation(c)
        BY Zenon, <3>2 DEF RecordViolation, Typed, TypeOK
    <3>3. CASE Ban(c)
        BY ZenonT(30), <2>1, <3>1, <3>3 DEF Ban, Put, Unexpired, Typed, TypeOK
    <3> QED BY Zenon, <1>12, <3>2, <3>3
  <2>4. /\ \E p \in Place \ {"swap"} : GoTo(c, p)
        /\ now' = now \/ now' = [now EXCEPT ![c] = 0]
        /\ UNCHANGED <<clock, limiterVars, ticketVars, slotVars>>
        /\ pc[c] # "swap"
      BY <1>12 DEF RecordViolation, Ban, Place
  <2>5. /\ pc' \in [Conn -> Place] /\ now' \in [Conn -> Second]
        /\ \A d \in Conn : pc'[d] = "swap" => pc[d] = "swap" /\ now'[d] = now[d]
        /\ \A d \in Conn : now'[d] = now[d] \/ now'[d] = 0
    <3>1. pc \in [Conn -> Place] /\ now \in [Conn -> Second] /\ 0 \in Second
        BY Zenon, Bounds DEF Typed, TypeOK
    <3>2. PICK p \in Place \ {"swap"} : pc' = [pc EXCEPT ![c] = p]
        BY Zenon, <2>4 DEF GoTo
    <3>3. CASE now' = now
        BY Zenon, <3>1, <3>2, <3>3
    <3>4. CASE now' = [now EXCEPT ![c] = 0]
        BY Zenon, <3>1, <3>2, <3>4
    <3> QED BY Zenon, <2>4, <3>3, <3>4
  <2>6. 0 <= clock
      BY Bounds DEF Typed, TypeOK
  <2> QED BY ZenonT(30), <2>2, <2>3, <2>4, <2>5, <2>6 DEF Typed, TypeOK, Clocked, Loaded
<1> QED BY <1>1, <1>2, <1>3, <1>4, <1>5, <1>6, <1>7, <1>8, <1>9, <1>10, <1>11, <1>12 DEF Next

\* Nothing has happened yet.
LEMMA TypedInitially == Init => Typed
<1> SUFFICES ASSUME Init PROVE Typed
    BY Zenon
<1>1. /\ clock \in Second /\ pc \in [Conn -> Place] /\ now \in [Conn -> Second]
      /\ count \in [Ip -> 0..MaxPerIp] /\ abandoned \in [Ip -> Nat]
      /\ admitted \in [Second -> Nat] /\ rewound \subseteq Second
    BY SMTT(30), Bounds DEF Init, Place
<1>2. /\ bucket \in [epoch : Second \cup {NoEpoch}, tokens : 0..MaxPerSec]
      /\ seen \in [Conn -> [epoch : Second \cup {NoEpoch}, tokens : 0..MaxPerSec]]
    BY Bounds DEF Init, NoBucket
<1>3. DOMAIN tickets = {} /\ DOMAIN bans = {} /\ DOMAIN holder = {} /\ issued = {}
    BY DEF Init
<1>4. violations \in [Ip -> Seq(Second)]
    BY DEF Init
<1>5. Clocked /\ Loaded
    BY Bounds DEF Init, Clocked, Loaded
<1> QED BY <1>1, <1>2, <1>3, <1>4, <1>5 DEF Typed, TypeOK

LEMMA TypedAlways == Spec => []Typed
    BY TypedInitially, TypedInductive, PTL DEF Spec

-----------------------------------------------------------------------------
(* Bans                                                                    *)

\* A ban that is still running at the time of a step is there after it.
LEMMA StepsKeepBans ==
    ASSUME Typed, Next, NEW ip \in DOMAIN bans, bans[ip] > clock
    PROVE  ip \in DOMAIN bans' /\ bans'[ip] = bans[ip]
<1> USE DEF banVars
<1>1. CASE PruneBans
    BY <1>1 DEF PruneBans, Unexpired
<1>2. ASSUME NEW c \in Conn, Ban(c) PROVE ip \in DOMAIN bans' /\ bans'[ip] = bans[ip]
  <2>1. now[c] \in Nat /\ clock \in Nat /\ bans[ip] \in Nat /\ now[c] <= clock
      BY Bounds DEF Typed, TypeOK, Clocked
  <2>2. bans[ip] > now[c]
      BY <2>1
  <2>3. CASE IpOf[c] = ip
      BY <1>2, <2>2, <2>3 DEF Ban, Banned
  <2>4. CASE IpOf[c] # ip
    <3>1. ip \in DOMAIN Unexpired(now[c]) /\ Unexpired(now[c])[ip] = bans[ip]
        BY <2>2 DEF Unexpired
    <3> DEFINE room == IF Cardinality(DOMAIN bans) >= MaxEntries
                         THEN Unexpired(now[c]) ELSE bans
               put == Put(room, IpOf[c], now[c] + BanDuration)
    <3>2. ip \in DOMAIN room /\ room[ip] = bans[ip]
        BY <3>1
    <3>3. ip \in DOMAIN put /\ put[ip] = bans[ip]
        BY ZenonT(30), <2>4, <3>2 DEF Put
    <3>4. bans' = bans \/ bans' = room \/ bans' = put
        BY <1>2 DEF Ban
    <3> HIDE DEF put, room
    <3> QED BY <3>2, <3>3, <3>4
  <2> QED BY <2>3, <2>4
<1>3. CASE UNCHANGED bans
    BY ZenonT(30), <1>3
<1>4. PruneBans \/ (\E c \in Conn : Ban(c)) \/ UNCHANGED bans
    BY DEF Next, Tick, PruneTickets, IssueTicket, Arrive, RefuseScheme, Load, Swap,
           CheckBan, PresentTicket, NoTicket, TakeSlot, Upgrade, UpgradeFails,
           ExceedRate, RecordViolation, Close, DropGuard
<1> QED BY <1>1, <1>2, <1>3, <1>4

\* A ban lasts to its term, for any number of addresses, threads and entries:
\* no violation recorded with an older time, no eviction from a full list and no
\* sweep ends it early or shortens it.
THEOREM BansAlwaysServed == Spec => BanServed
<1>1. Typed /\ [Next]_vars =>
        [\A ip \in DOMAIN bans :
           bans[ip] > clock => ip \in DOMAIN bans' /\ bans'[ip] = bans[ip]]_vars
    BY Zenon, StepsKeepBans
<1> QED BY <1>1, TypedAlways, PTL DEF Spec, BanServed

-----------------------------------------------------------------------------
(* The ceiling                                                             *)

Ceiling == IF MaxPerSec > 0 THEN MaxPerSec ELSE 1

\* In a second the bucket was never set back over, tokens taken and tokens left
\* stay within the ceiling, and none was taken before the bucket got there.
LimiterInv ==
  /\ CeilingUnlessRewound
  /\ \A t \in Second \ rewound : t > bucket.epoch => admitted[t] = 0
  /\ bucket.epoch \in Second \ rewound =>
       admitted[bucket.epoch] + bucket.tokens <= Ceiling

\* Only a compare-and-swap that succeeds touches the bucket and its history.
LEMMA OnlySwapAdmits ==
    ASSUME [Next]_vars
    PROVE  \/ UNCHANGED <<bucket, admitted, rewound>>
           \/ \E c \in Conn : Swap(c) /\ bucket = seen[c]
<1> USE DEF limiterVars
<1>1. CASE UNCHANGED vars
    BY Zenon, <1>1 DEF vars
<1>2. CASE Tick \/ PruneTickets \/ PruneBans \/ \E t \in Ticket : IssueTicket(t)
    BY <1>2 DEF Tick, PruneTickets, PruneBans, IssueTicket
<1>3. ASSUME NEW c \in Conn,
             \/ Arrive(c) \/ RefuseScheme(c) \/ Load(c) \/ CheckBan(c)
             \/ (\E t \in Ticket : PresentTicket(c, t)) \/ NoTicket(c)
      PROVE  UNCHANGED <<bucket, admitted, rewound>>
    BY <1>3 DEF Arrive, RefuseScheme, Load, CheckBan, PresentTicket, NoTicket
<1>4. ASSUME NEW c \in Conn,
             \/ TakeSlot(c) \/ Upgrade(c) \/ UpgradeFails(c) \/ ExceedRate(c)
             \/ RecordViolation(c) \/ Ban(c) \/ Close(c) \/ DropGuard(c)
      PROVE  UNCHANGED <<bucket, admitted, rewound>>
    BY ZenonT(30), <1>4 DEF TakeSlot, Upgrade, UpgradeFails, ExceedRate, RecordViolation, Ban, Close,
                DropGuard
<1>5. ASSUME NEW c \in Conn, Swap(c), bucket # seen[c]
      PROVE  UNCHANGED <<bucket, admitted, rewound>>
    BY <1>5 DEF Swap
<1> QED BY Zenon, <1>1, <1>2, <1>3, <1>4, <1>5 DEF Next

\* A swap keeps the books of the second it takes a token of.
LEMMA SwapKeepsLimiterInv ==
    ASSUME Typed, LimiterInv, NEW c \in Conn, Swap(c), bucket = seen[c]
    PROVE  LimiterInv'
<1> DEFINE n == now[c]
           e == bucket.epoch
           k == bucket.tokens
<1>1. /\ n \in Second /\ e \in Second \cup {NoEpoch} /\ k \in 0..MaxPerSec
      /\ \A t \in Second : admitted[t] \in Nat
    BY Zenon DEF Typed, TypeOK
<1>2. /\ n \in Int /\ e \in Int /\ k \in Int /\ Ceiling \in Nat /\ 1 <= Ceiling
      /\ Ceiling >= MaxPerSec /\ MaxPerSec \in Nat
    BY SMTT(30), <1>1, Bounds DEF NoEpoch, Ceiling
<1>3. e = n => k > 0
    BY Zenon DEF Typed, Loaded, Swap
<1>4. /\ admitted' = [admitted EXCEPT ![n] = @ + 1]
      /\ rewound' = IF e > n THEN rewound \cup (n..e) ELSE rewound
      /\ bucket' = Take(bucket, n)
    BY Zenon DEF Swap, Admit
<1>5. /\ admitted'[n] = admitted[n] + 1
      /\ \A t \in Second \ {n} : admitted'[t] = admitted[t]
    BY <1>1, <1>4 DEF Typed, TypeOK
<1>6. /\ bucket'.epoch = n
      /\ e = n => bucket'.tokens = k - 1
      /\ e # n => bucket'.tokens = IF MaxPerSec > 0 THEN MaxPerSec - 1 ELSE 0
    BY <1>4 DEF Take
<1>7. n \notin rewound' =>
        /\ n \notin rewound /\ n >= e
        /\ n > e => admitted[n] = 0
        /\ n = e => admitted[n] + k <= Ceiling
  <2>1. n \notin rewound' => n \notin rewound /\ ~(e > n)
      BY SMTT(30), <1>2, <1>4
  <2>2. n \notin rewound /\ n > e => admitted[n] = 0
      BY <1>1 DEF LimiterInv
  <2>3. n \notin rewound /\ n = e => admitted[n] + k <= Ceiling
      BY Zenon, <1>1 DEF LimiterInv
  <2> HIDE DEF n, e, k
  <2> QED BY SMTT(30), <1>2, <2>1, <2>2, <2>3
<1>8. n \notin rewound' => admitted'[n] + bucket'.tokens <= Ceiling /\ admitted'[n] <= Ceiling
  <2> SUFFICES ASSUME n \notin rewound'
               PROVE  admitted'[n] + bucket'.tokens <= Ceiling /\ admitted'[n] <= Ceiling
      OBVIOUS
  <2>1. CASE n = e
    <3>1. admitted[n] \in Nat /\ admitted[n] + k <= Ceiling /\ k > 0
        BY Zenon, <1>1, <1>3, <1>7, <2>1
    <3> HIDE DEF n, e, k
    <3> QED BY SMTT(30), <1>2, <1>5, <1>6, <2>1, <3>1
  <2>2. CASE n > e
    <3>1. admitted'[n] = 1 /\ e # n
        BY <1>2, <1>5, <1>7, <2>2
    <3> HIDE DEF n, e, k
    <3> QED BY SMTT(30), <1>2, <1>6, <3>1 DEF Ceiling
  <2> QED BY <1>2, <1>7, <2>1, <2>2
<1>9. ASSUME NEW t \in Second \ rewound', t > n PROVE admitted'[t] = 0
  <2>1. t \in Int /\ t \notin rewound /\ t # n
      BY SMTT(30), <1>2, <1>4, <1>9, Bounds
  <2>2. t > e
      BY <1>2, <1>4, <1>9, <2>1
  <2> QED BY ZenonT(30), <1>5, <2>1, <2>2 DEF LimiterInv
<1>10. ASSUME NEW t \in Second \ rewound' PROVE admitted'[t] <= Ceiling
  <2>1. CASE t = n
      BY <1>8, <1>10, <2>1
  <2>2. CASE t # n
    <3>1. t \notin rewound
        BY <1>4
    <3> QED BY ZenonT(30), <1>5, <2>2, <3>1 DEF LimiterInv, CeilingUnlessRewound, Ceiling
  <2> QED BY ZenonT(30), <2>1, <2>2
<1> HIDE DEF n, e, k
<1> QED BY Zenon, <1>6, <1>8, <1>9, <1>10 DEF LimiterInv, CeilingUnlessRewound, Ceiling

\* The ceiling holds in every second the bucket was not set back over, for any
\* ceiling, any number of racing threads and any delay between reading the clock
\* and swapping.
THEOREM CeilingAlwaysUnlessRewound == Spec => []CeilingUnlessRewound
<1>1. Init => LimiterInv
  <2> SUFFICES ASSUME Init PROVE LimiterInv
      OBVIOUS
  <2>1. \A t \in Second : admitted[t] = 0
      BY DEF Init
  <2>2. bucket.epoch \notin Second
      BY Bounds DEF Init, NoEpoch
  <2> QED BY <2>1, <2>2, Bounds DEF LimiterInv, CeilingUnlessRewound
<1>2. Typed /\ LimiterInv /\ [Next]_vars => LimiterInv'
  <2> SUFFICES ASSUME Typed, LimiterInv, [Next]_vars PROVE LimiterInv'
      OBVIOUS
  <2>1. CASE UNCHANGED <<bucket, admitted, rewound>>
      BY <2>1 DEF LimiterInv, CeilingUnlessRewound
  <2> QED BY <2>1, OnlySwapAdmits, SwapKeepsLimiterInv
<1>3. LimiterInv => CeilingUnlessRewound
    BY ZenonT(30) DEF LimiterInv
<1> QED BY <1>1, <1>2, <1>3, TypedAlways, PTL DEF Spec

-----------------------------------------------------------------------------
(* Tickets and slots                                                       *)

\* A request past the ticket check.
Passed(c) == Holding(c) \/ pc[c] \in {"slot", "gone"}

\* A ticket that was accepted once is consumed for as long as it is stored.
AcceptedIsConsumed ==
  \A t \in DOMAIN holder : t \in DOMAIN tickets => tickets[t].consumed

\* What a move of one request does to the connections of every address.
LEMMA MoveConnected ==
    ASSUME Typed, NEW c \in Conn, NEW p, GoTo(c, p)
    PROVE  /\ pc'[c] = p /\ \A d \in Conn \ {c} : pc'[d] = pc[d]
           /\ \A d \in Conn \ {c} : Holding(d)' = Holding(d) /\ Passed(d)' = Passed(d)
           /\ Holding(c)' = Holding(c) =>
                \A ip \in Ip : Connected(ip)' = Connected(ip)
           /\ Holding(c)' /\ ~Holding(c) =>
                \A ip \in Ip : Connected(ip)' = IF ip = IpOf[c] THEN Connected(ip) \cup {c}
                                                ELSE Connected(ip)
           /\ ~Holding(c)' /\ Holding(c) =>
                \A ip \in Ip : Connected(ip)' = IF ip = IpOf[c] THEN Connected(ip) \ {c}
                                                ELSE Connected(ip)
<1>1. pc'[c] = p /\ \A d \in Conn \ {c} : pc'[d] = pc[d]
    BY ZenonT(30) DEF Typed, TypeOK, GoTo
<1>2. \A d \in Conn \ {c} : Holding(d)' = Holding(d) /\ Passed(d)' = Passed(d)
    BY <1>1 DEF Holding, Passed
<1>3. Holding(c)' = Holding(c) => \A ip \in Ip : Connected(ip)' = Connected(ip)
    BY <1>2 DEF Connected
<1>4. Holding(c)' /\ ~Holding(c) =>
        \A ip \in Ip : Connected(ip)' = IF ip = IpOf[c] THEN Connected(ip) \cup {c}
                                        ELSE Connected(ip)
    BY <1>2 DEF Connected
<1>5. ~Holding(c)' /\ Holding(c) =>
        \A ip \in Ip : Connected(ip)' = IF ip = IpOf[c] THEN Connected(ip) \ {c}
                                        ELSE Connected(ip)
    BY <1>2 DEF Connected
<1> QED BY <1>1, <1>2, <1>3, <1>4, <1>5

\* The connections of an address are finitely many.
LEMMA ConnectedFinite ==
    \A ip \in Ip : IsFiniteSet(Connected(ip)) /\ Cardinality(Connected(ip)) \in Nat
<1>1. ASSUME NEW ip \in Ip
      PROVE  IsFiniteSet(Connected(ip)) /\ Cardinality(Connected(ip)) \in Nat
  <2>1. Connected(ip) \in SUBSET Conn
      BY DEF Connected
  <2> QED BY <2>1, ConfigAssumption, FS_Subset, FS_CardinalityType
<1> QED BY <1>1

Books == Typed /\ AcceptedIsConsumed /\ TicketPerConnection /\ SlotsAccounted

\* Steps that neither take nor give back a slot, nor pass the ticket check.
LEMMA QuietStep ==
    ASSUME Books, NEW c \in Conn, NEW p \in Place, GoTo(c, p),
           Holding(c)' = Holding(c), Passed(c)' => Passed(c),
           UNCHANGED <<ticketVars, slotVars>>
    PROVE  AcceptedIsConsumed' /\ TicketPerConnection' /\ SlotsAccounted'
<1>1. AcceptedIsConsumed' /\ UNCHANGED <<holder, count, abandoned>>
    BY Zenon DEF Books, AcceptedIsConsumed, ticketVars, slotVars
<1>2. \A d \in Conn : Passed(d)' => Passed(d)
    BY Zenon, MoveConnected DEF Books
<1>3. TicketPerConnection'
    BY ZenonT(30), <1>1, <1>2 DEF Books, TicketPerConnection, Passed
<1>4. \A ip \in Ip : Connected(ip)' = Connected(ip)
    BY MoveConnected DEF Books
<1>5. SlotsAccounted'
    BY ZenonT(30), <1>1, <1>4 DEF Books, SlotsAccounted
<1> QED BY <1>1, <1>3, <1>5

\* Every step keeps slots, connections and tickets in balance.
LEMMA BooksInductive == Books /\ [Next]_vars => Books'
<1> SUFFICES ASSUME Books, [Next]_vars PROVE Books'
    OBVIOUS
<1>1. Typed /\ Typed'
    BY TypedInductive DEF Books
<1> DEFINE Goal == AcceptedIsConsumed' /\ TicketPerConnection' /\ SlotsAccounted'
<1>2. SUFFICES Goal
    BY <1>1 DEF Books
<1>3. ASSUME UNCHANGED <<pc, holder, slotVars>>, AcceptedIsConsumed' PROVE Goal
  <2>1. \A d \in Conn : Holding(d)' = Holding(d)
      BY <1>3 DEF Holding
  <2>2. \A ip \in Ip : Connected(ip)' = Connected(ip)
      BY Zenon, <2>1 DEF Connected
  <2>3. TicketPerConnection'
      BY Zenon, <1>3, <2>1 DEF Books, TicketPerConnection
  <2>4. SlotsAccounted'
      BY <1>3, <2>2 DEF Books, SlotsAccounted, slotVars
  <2> QED BY <1>3, <2>3, <2>4
<1>4. CASE UNCHANGED vars
    BY Zenon, <1>3, <1>4 DEF vars, Books, AcceptedIsConsumed, ticketVars
<1>5. CASE Tick \/ PruneBans
    BY Zenon, <1>3, <1>5 DEF Tick, PruneBans, Books, AcceptedIsConsumed, ticketVars
<1>6. CASE PruneTickets
  <2>1. AcceptedIsConsumed'
      BY <1>6 DEF PruneTickets, Books, AcceptedIsConsumed
  <2> QED BY Zenon, <1>3, <1>6, <2>1 DEF PruneTickets
<1>7. ASSUME NEW t \in Ticket, IssueTicket(t) PROVE Goal
  <2>1. t \notin DOMAIN holder /\ holder' = holder
      BY ZenonT(30), <1>1, <1>7 DEF IssueTicket, Typed, TypeOK
  <2>2. \A u \in DOMAIN tickets' \ {t} : u \in DOMAIN tickets /\ tickets'[u] = tickets[u]
      BY Zenon, <1>7 DEF IssueTicket, Put
  <2>3. AcceptedIsConsumed'
      BY <2>1, <2>2 DEF Books, AcceptedIsConsumed
  <2> QED BY ZenonT(30), <1>3, <1>7, <2>3 DEF IssueTicket
<1>8. ASSUME NEW c \in Conn,
             \/ Arrive(c) \/ RefuseScheme(c) \/ Load(c) \/ Swap(c) \/ CheckBan(c)
             \/ NoTicket(c) \/ Upgrade(c) \/ ExceedRate(c) \/ RecordViolation(c)
             \/ Ban(c) \/ Close(c)
      PROVE  Goal
  <2>1. UNCHANGED <<ticketVars, slotVars>>
      BY ZenonT(30), <1>8 DEF Arrive, RefuseScheme, Load, Swap, CheckBan, NoTicket, Upgrade,
                  ExceedRate, RecordViolation, Ban, Close
  <2>2. PICK p \in Place : /\ GoTo(c, p)
                           /\ p \in {"open", "violation", "ban", "closing"} <=> Holding(c)
                           /\ p \notin {"slot", "gone", "upgrade"}
      BY ZenonT(30), <1>8 DEF Arrive, RefuseScheme, Load, Swap, Admit, CheckBan, NoTicket, Upgrade,
                  ExceedRate, RecordViolation, Ban, Close, Holding, Place
  <2>3. pc'[c] = p
      BY ZenonT(30), <1>1, <2>2, MoveConnected
  <2>4. Holding(c)' = Holding(c) /\ (Passed(c)' => Passed(c))
      BY <2>2, <2>3 DEF Holding, Passed
  <2> QED BY Zenon, <2>1, <2>2, <2>4, QuietStep
<1>9. ASSUME NEW c \in Conn, NEW t \in Ticket, PresentTicket(c, t) PROVE Goal
  <2>1. CASE Acceptable(t)
    <3>1. /\ tickets' = [tickets EXCEPT ![t].consumed = TRUE]
          /\ holder' = Put(holder, t, c) /\ GoTo(c, "slot") /\ pc[c] = "ticket"
          /\ UNCHANGED slotVars
        BY <1>9, <2>1 DEF PresentTicket
    <3>2. t \in DOMAIN tickets /\ t \notin DOMAIN holder
        BY <2>1 DEF Acceptable, Books, AcceptedIsConsumed
    <3>3. /\ holder'[t] = c /\ t \in DOMAIN holder'
          /\ \A u \in DOMAIN holder : u \in DOMAIN holder' /\ holder'[u] = holder[u]
          /\ DOMAIN holder' = DOMAIN holder \cup {t}
        BY <3>1, <3>2 DEF Put
    <3>4. /\ DOMAIN tickets' = DOMAIN tickets
          /\ tickets'[t].consumed
          /\ \A u \in DOMAIN tickets \ {t} : tickets'[u] = tickets[u]
      <4>1. tickets[t] \in [expires : 0..(MaxClock + TicketTtl), consumed : BOOLEAN]
          BY <1>1, <3>2 DEF Typed, TypeOK
      <4>2. tickets'[t] = [tickets[t] EXCEPT !.consumed = TRUE]
          BY <3>1, <3>2
      <4>3. tickets'[t].consumed
          BY ZenonT(30), <4>1, <4>2
      <4> QED BY ZenonT(30), <3>1, <3>2, <4>3
    <3>5. AcceptedIsConsumed'
        BY <3>3, <3>4 DEF Books, AcceptedIsConsumed
    <3>6. /\ pc'[c] = "slot"
          /\ \A d \in Conn \ {c} : Passed(d)' = Passed(d)
        BY <1>1, <3>1, MoveConnected
    <3>7. TicketPerConnection'
      <4>1. ASSUME NEW d \in Conn, Passed(d)'
            PROVE  \E u \in DOMAIN holder' : holder'[u] = d
        <5>1. CASE d = c
            BY <3>3, <5>1
        <5>2. CASE d # c
          <6>1. Passed(d)
              BY Zenon, <3>6, <4>1, <5>2
          <6>2. PICK u \in DOMAIN holder : holder[u] = d
              BY <6>1 DEF Books, TicketPerConnection, Passed
          <6> QED BY <3>3, <6>2
        <5> QED BY <5>1, <5>2
      <4> QED BY <4>1 DEF TicketPerConnection, Passed
    <3>8. Holding(c)' = Holding(c)
        BY <3>1, <3>6 DEF Holding
    <3>9. \A ip \in Ip : Connected(ip)' = Connected(ip)
        BY <1>1, <3>1, <3>8, MoveConnected
    <3>10. SlotsAccounted'
        BY <3>1, <3>9 DEF Books, SlotsAccounted, slotVars
    <3> QED BY <3>5, <3>7, <3>10
  <2>2. CASE ~Acceptable(t)
    <3>1. /\ GoTo(c, "refused") /\ pc[c] = "ticket" /\ "refused" \in Place
          /\ UNCHANGED <<ticketVars, slotVars>>
        BY Zenon, <1>9, <2>2 DEF PresentTicket, Place, ticketVars
    <3>2. pc'[c] = "refused"
        BY Zenon, <1>1, <3>1, MoveConnected
    <3>3. Holding(c)' = Holding(c) /\ (Passed(c)' => Passed(c))
        BY <3>1, <3>2 DEF Holding, Passed
    <3> QED BY <3>1, <3>3, QuietStep
  <2> QED BY <2>1, <2>2
<1>10. ASSUME NEW c \in Conn, TakeSlot(c) \/ UpgradeFails(c) \/ DropGuard(c) PROVE Goal
  <2> DEFINE ip == IpOf[c]
             used == Cardinality(Connected(ip))
  <2>1. UNCHANGED ticketVars
      BY <1>10 DEF TakeSlot, UpgradeFails, DropGuard
  <2>2. AcceptedIsConsumed' /\ holder' = holder
      BY Zenon, <2>1 DEF Books, AcceptedIsConsumed, ticketVars
  <2>3. PICK p : GoTo(c, p) /\ Passed(c)
      BY Zenon, <1>10 DEF TakeSlot, UpgradeFails, DropGuard, Passed, Holding
  <2>4. TicketPerConnection'
    <3>1. \A d \in Conn : Passed(d)' => Passed(d)
        BY <1>1, <2>3, MoveConnected
    <3> QED BY ZenonT(30), <2>2, <3>1 DEF Books, TicketPerConnection, Passed
  <2> SUFFICES SlotsAccounted'
      BY <2>2, <2>4
  <2>5. /\ ip \in Ip /\ count \in [Ip -> 0..MaxPerIp] /\ abandoned \in [Ip -> Nat]
        /\ \A a \in Ip : count[a] = Cardinality(Connected(a)) + abandoned[a]
      BY Zenon, <1>1, ConfigAssumption DEF Typed, TypeOK, Books, SlotsAccounted
  <2>6. /\ IsFiniteSet(Connected(ip)) /\ used \in Nat
        /\ count[ip] \in Nat /\ abandoned[ip] \in Nat /\ count[ip] = used + abandoned[ip]
    <3>1. IsFiniteSet(Connected(ip)) /\ used \in Nat
        BY <2>5, ConnectedFinite
    <3> QED BY <2>5, <3>1, Bounds
  <2>7. CASE TakeSlot(c)
    <3>1. CASE count[ip] < MaxPerIp
      <4>1. count' = [count EXCEPT ![ip] = @ + 1] /\ abandoned' = abandoned
            /\ GoTo(c, "upgrade") /\ pc[c] = "slot"
          BY Zenon, <2>7, <3>1 DEF TakeSlot
      <4>2. ~Holding(c) /\ Holding(c)'
        <5>1. pc'[c] = "upgrade"
            BY ZenonT(30), <1>1, <4>1, MoveConnected
        <5> QED BY Zenon, <4>1, <5>1 DEF Holding
      <4>3. \A a \in Ip : Connected(a)' = IF a = ip THEN Connected(a) \cup {c} ELSE Connected(a)
          BY Zenon, <1>1, <4>1, <4>2, MoveConnected
      <4>4. c \notin Connected(ip)
          BY <4>2 DEF Connected
      <4>5. Cardinality(Connected(ip) \cup {c}) = used + 1
          BY Zenon, <2>6, <4>4, FS_AddElement
      <4>6. count'[ip] = count[ip] + 1 /\ \A a \in Ip \ {ip} : count'[a] = count[a]
          BY <2>5, <4>1
      <4>7. Cardinality(Connected(ip)') = used + 1
          BY ZenonT(30), <2>5, <4>3, <4>5
      <4>8. count'[ip] = Cardinality(Connected(ip)') + abandoned'[ip]
        <5>1. abandoned'[ip] = abandoned[ip]
            BY Zenon, <4>1
        <5>2. count'[ip] = (used + 1) + abandoned'[ip]
          <6> HIDE DEF used, ip
          <6> QED BY SMTT(30), <2>6, <4>6, <5>1
        <5> QED BY Zenon, <4>7, <5>2
      <4> QED BY <2>5, <4>1, <4>3, <4>6, <4>8 DEF SlotsAccounted
    <3>2. CASE ~(count[ip] < MaxPerIp)
      <4>1. GoTo(c, "refused") /\ pc[c] = "slot" /\ UNCHANGED slotVars
          BY ZenonT(30), <2>7, <3>2 DEF TakeSlot, slotVars
      <4>2. Holding(c)' = Holding(c)
        <5>1. pc'[c] = "refused"
            BY Zenon, <1>1, <4>1, MoveConnected
        <5> QED BY SMTT(30), <4>1, <5>1 DEF Holding
      <4>3. \A a \in Ip : Connected(a)' = Connected(a)
          BY Zenon, <1>1, <4>1, <4>2, MoveConnected
      <4> QED BY Zenon, <2>5, <4>1, <4>3 DEF SlotsAccounted, slotVars
    <3> QED BY ZenonT(30), <3>1, <3>2
  <2>8. CASE UpgradeFails(c) \/ DropGuard(c)
    <3>1. GoTo(c, "gone") /\ Holding(c)
        BY <2>8 DEF UpgradeFails, DropGuard, Holding
    <3>2. ~Holding(c)'
      <4>1. pc'[c] = "gone"
          BY Zenon, <1>1, <3>1, MoveConnected
      <4> QED BY Zenon, <4>1 DEF Holding
    <3>3. \A a \in Ip : Connected(a)' = IF a = ip THEN Connected(a) \ {c} ELSE Connected(a)
        BY Zenon, <1>1, <3>1, <3>2, MoveConnected
    <3>4. c \in Connected(ip)
        BY <3>1 DEF Connected
    <3>5. Cardinality(Connected(ip) \ {c}) = used - 1
        BY Zenon, <2>6, <3>4, FS_RemoveElement
    <3>6. Cardinality(Connected(ip)') = used - 1
        BY Zenon, <2>5, <3>3, <3>5
    <3>7. used >= 1
      <4>1. Connected(ip) # {}
          BY Zenon, <3>4
      <4>2. used # 0
          BY Zenon, <2>6, <4>1, FS_EmptySet
      <4> QED BY <2>6, <4>2
    <3> HIDE DEF used
    <3>8. /\ count'[ip] = used - 1 + abandoned'[ip]
          /\ \A a \in Ip \ {ip} : count'[a] = count[a] /\ abandoned'[a] = abandoned[a]
      <4>1. CASE UpgradeFails(c)
        <5>1. count' = count /\ abandoned' = [abandoned EXCEPT ![ip] = @ + 1]
            BY ZenonT(30), <4>1 DEF UpgradeFails
        <5> QED BY SMTT(30), <2>5, <2>6, <5>1
      <4>2. CASE DropGuard(c)
        <5>1. abandoned' = abandoned
              /\ count' = [count EXCEPT ![ip] = IF @ <= 1 THEN 0 ELSE @ - 1]
            BY Zenon, <4>2 DEF DropGuard
        <5>2. count'[ip] = count[ip] - 1
            BY <2>5, <2>6, <3>7, <5>1
        <5> QED BY SMTT(30), <2>5, <2>6, <5>1, <5>2
      <4> QED BY ZenonT(30), <2>8, <4>1, <4>2
    <3> QED BY ZenonT(30), <2>5, <3>3, <3>6, <3>8 DEF SlotsAccounted
  <2> QED BY ZenonT(30), <1>10, <2>7, <2>8
<1> QED BY <1>4, <1>5, <1>6, <1>7, <1>8, <1>9, <1>10 DEF Next

\* Nobody is connected at first.
LEMMA BooksInitially == Init => Books
<1> SUFFICES ASSUME Init PROVE Books
    OBVIOUS
<1>1. DOMAIN holder = {}
    BY DEF Init
<1>2. \A c \in Conn : pc[c] = "new"
    BY DEF Init
<1>3. \A ip \in Ip : Connected(ip) = {}
    BY <1>2 DEF Connected, Holding
<1>4. \A ip \in Ip : count[ip] = 0 /\ abandoned[ip] = 0
    BY Zenon DEF Init
<1>5. SlotsAccounted
    BY <1>3, <1>4, FS_EmptySet DEF SlotsAccounted
<1>6. AcceptedIsConsumed /\ TicketPerConnection
    BY <1>1, <1>2 DEF AcceptedIsConsumed, TicketPerConnection, Holding
<1> QED BY Zenon, <1>5, <1>6, TypedInitially DEF Books

\* For any number of requests, addresses and tickets and any cap: the count of an
\* address is its connections plus its abandoned upgrades, and every connection
\* was admitted on a ticket of its own.
THEOREM AdmissionAlwaysAccounted == Spec => []AdmissionInv
<1>1. Books => AdmissionInv
    BY DEF Books, Typed, AdmissionInv
<1> QED BY <1>1, BooksInitially, BooksInductive, PTL DEF Spec

(***************************************************************************)
(*                                                                         *)
(* The media server.                                                       *)
(*                                                                         *)
(***************************************************************************)

(***************************************************************************)
(* Tasks are counted right: one that comes finds room below the limit, and *)
(* one that moves on or ends was counted where it was.                     *)
(***************************************************************************)

ColdsOK == cold \in [ColdPlaces -> Nat] /\ Colds <= MaxCold
HooksOK == hooks \in [HookPlaces -> Nat] /\ Hooks <= MaxTasks
StopsOK == stops \in [StopPlaces -> Nat] /\ Stops <= MaxTasks

\* A cold start comes, moves on or ends.
LEMMA ColdMoves ==
    ASSUME ColdsOK, NEW a \in ColdPlaces \cup {"none"}, NEW b \in ColdPlaces \cup {"none"},
           a = "none" => Colds < MaxCold, a # "none" => cold[a] > 0, a # b,
           cold' = MoveTask(cold, a, b)
    PROVE  ColdsOK'
<1>1. /\ DOMAIN cold = ColdPlaces
      /\ cold["describe"] \in Nat /\ cold["start"] \in Nat /\ cold["fail"] \in Nat
    BY DEF ColdsOK, ColdPlaces
<1>2. \A p \in ColdPlaces : cold'[p] = IF p = a THEN cold[p] - 1
                                       ELSE IF p = b THEN cold[p] + 1 ELSE cold[p]
    BY Zenon, <1>1 DEF MoveTask
<1>3. \A p \in ColdPlaces : cold'[p] \in Nat
    BY <1>1, <1>2 DEF ColdPlaces
<1>4. cold' \in [ColdPlaces -> Nat]
    BY Zenon, <1>1, <1>3 DEF MoveTask
<1>5. Colds' <= MaxCold
    BY <1>1, <1>2, BoundsAssumption DEF ColdPlaces, Colds, ColdsOK
<1> QED BY Zenon, <1>4, <1>5 DEF ColdsOK

\* A last-room hook comes, moves on or ends.
LEMMA HookMoves ==
    ASSUME HooksOK, NEW a \in HookPlaces \cup {"none"}, NEW b \in HookPlaces \cup {"none"},
           a = "none" => Hooks < MaxTasks, a # "none" => hooks[a] > 0, a # b,
           hooks' = MoveTask(hooks, a, b)
    PROVE  HooksOK' /\ (b # "none" => ~NobodyWillLook')
<1>1. /\ DOMAIN hooks = HookPlaces
      /\ hooks["read"] \in Nat /\ hooks["count"] \in Nat /\ hooks["store"] \in Nat
    BY DEF HooksOK, HookPlaces
<1>2. \A p \in HookPlaces : hooks'[p] = IF p = a THEN hooks[p] - 1
                                        ELSE IF p = b THEN hooks[p] + 1 ELSE hooks[p]
    BY <1>1 DEF MoveTask
<1>3. \A p \in HookPlaces : hooks'[p] \in Nat
    BY <1>1, <1>2 DEF HookPlaces
<1>4. hooks' \in [HookPlaces -> Nat]
    BY Zenon, <1>1, <1>3 DEF MoveTask
<1>5. Hooks' <= MaxTasks
    BY <1>1, <1>2, BoundsAssumption DEF HookPlaces, Hooks, HooksOK
<1>6. ASSUME b # "none" PROVE ~NobodyWillLook'
  <2>1. b \in HookPlaces /\ hooks'[b] = hooks[b] + 1
      BY Zenon, <1>2, <1>6
  <2>2. hooks'[b] # 0
      BY SMTT(30), <2>1, <1>1 DEF HookPlaces
  <2> QED BY <2>1, <2>2 DEF NobodyWillLook, None
<1> QED BY <1>4, <1>5, <1>6 DEF HooksOK

\* A stop task comes, moves on or ends.
LEMMA StopMoves ==
    ASSUME StopsOK, NEW a \in StopPlaces \cup {"none"}, NEW b \in StopPlaces \cup {"none"},
           a = "none" => Stops < MaxTasks, a # "none" => stops[a] > 0, a # b,
           stops' = MoveTask(stops, a, b)
    PROVE  StopsOK'
<1>1. DOMAIN stops = StopPlaces /\ stops["call"] \in Nat /\ stops["mark"] \in Nat
    BY DEF StopsOK, StopPlaces
<1>2. \A p \in StopPlaces : stops'[p] = IF p = a THEN stops[p] - 1
                                        ELSE IF p = b THEN stops[p] + 1 ELSE stops[p]
    BY <1>1 DEF MoveTask
<1>3. \A p \in StopPlaces : stops'[p] \in Nat
    BY <1>1, <1>2 DEF StopPlaces
<1>4. stops' \in [StopPlaces -> Nat]
    BY <1>1, <1>3 DEF MoveTask
<1>5. Stops' <= MaxTasks
    BY <1>1, <1>2, BoundsAssumption DEF StopPlaces, Stops, StopsOK
<1> QED BY <1>4, <1>5 DEF StopsOK

LEMMA NoTasks ==
    ASSUME NEW P
    PROVE  None(P) \in [P -> Nat] /\ \A p \in P : None(P)[p] = 0
BY DEF None

(***************************************************************************)
(* The invariant.  A status other than Starting has no cold start to       *)
(* answer for, and a stop is decided on only when no room is left.         *)
(***************************************************************************)

Scalars ==
    /\ ec2 \in BOOLEAN /\ late \in BOOLEAN /\ sfuUp \in BOOLEAN
    /\ pending \in BOOLEAN /\ missed \in BOOLEAN
    /\ health \in {"available", "unavailable", "starting"}
    /\ inst \in InstStates
    /\ mon \in {"idle", "available", "unavailable"}
    /\ joining \in 0 .. MaxRooms /\ rooms \in 0 .. MaxRooms
    /\ sched \in {"sleep", "count", "store", "call", "mark"}

Episode == spawned = IF health = "starting" THEN 1 ELSE 0

LifeInv ==
    /\ Scalars /\ Episode /\ DeferralNotForgotten
    /\ ColdsOK /\ HooksOK /\ StopsOK
    /\ old = 0

LEMMA LifeInvGives == LifeInv => SfuInv
<1> SUFFICES ASSUME LifeInv PROVE SfuInv
    OBVIOUS
<1>1. cold \in [ColdPlaces -> 0 .. MaxCold]
    BY BoundsAssumption DEF LifeInv, ColdsOK, Colds, ColdPlaces
<1>2. hooks \in [HookPlaces -> 0 .. MaxTasks]
    BY BoundsAssumption DEF LifeInv, HooksOK, Hooks, HookPlaces
<1>3. stops \in [StopPlaces -> 0 .. MaxTasks]
    BY BoundsAssumption DEF LifeInv, StopsOK, Stops, StopPlaces
<1>4. spawned \in 0 .. 2 /\ old \in 0 .. MaxRooms
    BY BoundsAssumption DEF LifeInv, Episode
<1> QED BY <1>1, <1>2, <1>3, <1>4 DEF SfuInv, SfuTypeOK, OneColdStart, LifeInv, Scalars, Episode

LEMMA EmptyCounts ==
    /\ cold = None(ColdPlaces) => ColdsOK
    /\ hooks = None(HookPlaces) => HooksOK
    /\ stops = None(StopPlaces) => StopsOK
BY NoTasks, BoundsAssumption
   DEF ColdPlaces, HookPlaces, StopPlaces, ColdsOK, HooksOK, StopsOK, Colds, Hooks, Stops

LEMMA LifeInvInitially == SfuInit => LifeInv
<1> SUFFICES ASSUME SfuInit PROVE LifeInv
    OBVIOUS
<1>1. Scalars
  <2>1. inst \in InstStates /\ health \in {"available", "unavailable", "starting"}
      BY DEF SfuInit, Probe, InstStates
  <2>2. joining \in 0 .. MaxRooms /\ rooms \in 0 .. MaxRooms
      BY BoundsAssumption DEF SfuInit
  <2> QED BY Zenon, <2>1, <2>2 DEF SfuInit, Scalars
<1>2. Episode /\ DeferralNotForgotten /\ old = 0
    BY DEF SfuInit, Episode, DeferralNotForgotten, Probe
<1>3. ColdsOK /\ HooksOK /\ StopsOK
    BY EmptyCounts DEF SfuInit
<1> QED BY <1>1, <1>2, <1>3 DEF LifeInv

LEMMA NextKeepsLifeInv ==
    ASSUME LifeInv, [SfuNext]_sfuVars
    PROVE  LifeInv'
<1> USE DEF LifeInv
<1>1. /\ UNCHANGED cold => ColdsOK'
      /\ UNCHANGED hooks => HooksOK'
      /\ UNCHANGED stops => StopsOK'
    BY DEF ColdsOK, HooksOK, StopsOK, Colds, Hooks, Stops
<1>2. UNCHANGED <<pending, rooms, hooks, missed>> => DeferralNotForgotten'
    BY DEF DeferralNotForgotten, NobodyWillLook
<1>3. UNCHANGED <<health, spawned>> => Episode'
    BY DEF Episode
<1>4. \A h \in {"available", "unavailable"} :
        SetHealth(h) => Episode' /\ health' \in {"available", "unavailable"} /\ late' = FALSE
    BY Zenon DEF SetHealth, Episode
<1>5. CASE StartAges
    BY Zenon, <1>1, <1>2, <1>3, <1>5
       DEF StartAges, Scalars, outsideVars, roomVars, taskVars, historyVars
<1>6. CASE MonitorAsk
    BY ZenonT(30), <1>1, <1>2, <1>3, <1>6
       DEF MonitorAsk, Probe, Scalars, controlVars, outsideVars, roomVars, historyVars
<1>7. CASE MonitorWrite
  <2>1. Episode' /\ health' \in {"available", "unavailable", "starting"} /\ late' \in BOOLEAN
      BY ZenonT(30), <1>3, <1>4, <1>7 DEF MonitorWrite, Scalars
  <2> QED BY <1>1, <1>2, <1>7, <2>1 DEF MonitorWrite, Scalars, outsideVars, roomVars
<1>8. CASE JoinPasses
  <2>1. joining' \in 0 .. MaxRooms
      BY <1>8, BoundsAssumption DEF JoinPasses, Scalars
  <2> QED BY ZenonT(30), <1>1, <1>2, <1>3, <1>8, <2>1
          DEF JoinPasses, Scalars, controlVars, outsideVars, taskVars, historyVars
<1>9. CASE ColdStart
  <2>1. ColdsOK'
      BY <1>9, ColdMoves DEF ColdStart, ColdPlaces
  <2>2. Episode' /\ health' = "starting" /\ late' = FALSE
      BY <1>9 DEF ColdStart, Episode
  <2> QED BY ZenonT(30), <1>1, <1>2, <1>9, <2>1, <2>2 DEF ColdStart, Scalars, outsideVars, roomVars
<1>10. CASE ColdDescribe
  <2>1. \E b \in ColdPlaces \cup {"none"} :
          b # "describe" /\ cold["describe"] > 0 /\ cold' = MoveTask(cold, "describe", b)
      BY <1>10 DEF ColdDescribe, ColdPlaces
  <2>2. ColdsOK'
      BY Zenon, <2>1, ColdMoves DEF ColdPlaces
  <2> QED BY <1>1, <1>2, <1>3, <1>10, <2>2
          DEF ColdDescribe, Scalars, controlVars, outsideVars, roomVars, historyVars
<1>11. CASE ColdStartInstance
  <2>1. \E b \in ColdPlaces \cup {"none"} :
          b # "start" /\ cold["start"] > 0 /\ cold' = MoveTask(cold, "start", b)
      BY <1>11 DEF ColdStartInstance, ColdPlaces
  <2>2. ColdsOK'
      BY Zenon, <2>1, ColdMoves DEF ColdPlaces
  <2>3. inst' \in InstStates
      BY <1>11 DEF ColdStartInstance, Scalars, InstStates
  <2> QED BY ZenonT(30), <1>1, <1>2, <1>3, <1>11, <2>2, <2>3
          DEF ColdStartInstance, Scalars, controlVars, roomVars, historyVars
<1>12. CASE ColdFail
  <2>1. ColdsOK'
      BY <1>12, ColdMoves DEF ColdFail, ColdPlaces
  <2> QED BY ZenonT(30), <1>1, <1>2, <1>4, <1>12, <2>1 DEF ColdFail, Scalars, outsideVars, roomVars
<1>13. CASE OpenRoom
  <2>1. rooms' # 0 /\ rooms' \in 0 .. MaxRooms /\ joining' \in 0 .. MaxRooms
      BY SMTT(30), <1>13, BoundsAssumption DEF OpenRoom, Scalars
  <2> QED BY ZenonT(30), <1>1, <1>3, <1>13, <2>1
          DEF OpenRoom, Scalars, DeferralNotForgotten, controlVars, outsideVars, taskVars
<1>14. CASE JoinFails
  <2>1. joining' \in 0 .. MaxRooms
      BY <1>14, BoundsAssumption DEF JoinFails, Scalars
  <2> QED BY ZenonT(30), <1>1, <1>2, <1>3, <1>14, <2>1
          DEF JoinFails, Scalars, controlVars, outsideVars, taskVars, historyVars
<1>15. CASE CloseRoom
  <2>1. HooksOK' /\ ~NobodyWillLook'
      BY SMTT(30), <1>15, HookMoves DEF CloseRoom, HookPlaces
  <2>2. rooms' \in 0 .. MaxRooms /\ old' = 0
      BY SMTT(30), <1>15, BoundsAssumption DEF CloseRoom, RemoveRoom, Scalars
  <2> QED BY ZenonT(30), <1>1, <1>3, <1>15, <2>1, <2>2
          DEF CloseRoom, Scalars, DeferralNotForgotten, controlVars, outsideVars, taskVars
<1>16. CASE DropRoom
  <2>1. rooms' \in 0 .. MaxRooms /\ old' = 0 /\ (rooms' = 0 => rooms = 1)
      BY <1>16, BoundsAssumption DEF DropRoom, RemoveRoom, Scalars
  <2>2. missed' \in BOOLEAN
      BY <1>16 DEF DropRoom, Scalars
  <2>3. ASSUME pending', rooms' = 0, NobodyWillLook' PROVE missed'
    <3>1. pending /\ NobodyWillLook
        BY Zenon, <1>16, <2>3 DEF DropRoom, NobodyWillLook, controlVars
    <3> QED BY Zenon, <1>16, <2>1, <2>3, <3>1 DEF DropRoom
  <2> QED BY ZenonT(30), <1>1, <1>3, <1>16, <2>1, <2>2, <2>3
          DEF DropRoom, Scalars, DeferralNotForgotten, controlVars, outsideVars, taskVars
<1>17. CASE LateCleanup
  <2>1. HooksOK' /\ ~NobodyWillLook'
      BY SMTT(30), <1>17, HookMoves DEF LateCleanup, HookPlaces
  <2> QED BY ZenonT(30), <1>1, <1>3, <1>17, <2>1
          DEF LateCleanup, Scalars, DeferralNotForgotten, controlVars, outsideVars, taskVars,
              historyVars
<1>18. CASE HookRead
  <2> DEFINE b == IF pending THEN "count" ELSE "none"
  <2>1. hooks["read"] > 0 /\ hooks' = MoveTask(hooks, "read", b)
      BY <1>18 DEF HookRead
  <2>2. b \in HookPlaces \cup {"none"} /\ b # "read"
      BY DEF HookPlaces
  <2>3. HooksOK' /\ (b # "none" => ~NobodyWillLook')
      BY Zenon, <2>1, <2>2, HookMoves DEF HookPlaces
  <2>4. DeferralNotForgotten'
      BY Zenon, <1>18, <2>3 DEF HookRead, DeferralNotForgotten, controlVars
  <2> QED BY ZenonT(30), <1>1, <1>3, <1>18, <2>3, <2>4
          DEF HookRead, Scalars, controlVars, outsideVars, taskVars, historyVars
<1>19. CASE HookCount
  <2>1. CASE rooms = 0
    <3>1. HooksOK' /\ ~NobodyWillLook'
        BY SMTT(30), <1>19, <2>1, HookMoves DEF HookCount, HookPlaces
    <3> QED BY ZenonT(30), <1>1, <1>3, <1>19, <2>1, <3>1
            DEF HookCount, Scalars, DeferralNotForgotten, controlVars, outsideVars, taskVars
  <2>2. CASE rooms # 0
    <3>1. HooksOK'
        BY <1>19, <2>2, HookMoves DEF HookCount, HookPlaces
    <3> QED BY ZenonT(30), <1>1, <1>3, <1>19, <2>2, <3>1
            DEF HookCount, Scalars, DeferralNotForgotten, controlVars, outsideVars, taskVars
  <2> QED BY Zenon, <2>1, <2>2
<1>20. CASE HookStore
  <2>1. HooksOK'
      BY Zenon, <1>20, HookMoves DEF HookStore, HookPlaces
  <2>2. StopsOK'
      BY Zenon, <1>20, StopMoves DEF HookStore, StopPlaces
  <2> QED BY ZenonT(30), <1>1, <1>3, <1>20, <2>1, <2>2
          DEF HookStore, Scalars, DeferralNotForgotten, outsideVars, historyVars
<1>21. CASE SchedulerWakes
    BY Zenon, <1>1, <1>2, <1>3, <1>21
       DEF SchedulerWakes, Scalars, controlVars, outsideVars, roomVars, historyVars
<1>22. CASE SchedulerCounts
    BY ZenonT(30), <1>1, <1>2, <1>3, <1>22
       DEF SchedulerCounts, Scalars, controlVars, outsideVars, roomVars
<1>23. CASE SchedulerDefers
  <2>1. DeferralNotForgotten' /\ missed' \in BOOLEAN
      BY Zenon, <1>23 DEF SchedulerDefers, DeferralNotForgotten, NobodyWillLook, Scalars, roomVars
  <2> QED BY <1>1, <1>3, <1>23, <2>1 DEF SchedulerDefers, Scalars, outsideVars, roomVars
<1>24. ASSUME NEW ok \in BOOLEAN, SchedulerStops(ok) PROVE LifeInv'
    BY ZenonT(30), <1>1, <1>2, <1>3, <1>24
       DEF SchedulerStops, StopInstance, InstStates, Scalars, controlVars, roomVars, historyVars
<1>25. ASSUME NEW ok \in BOOLEAN, TaskStops(ok) PROVE LifeInv'
  <2> DEFINE b == IF ok THEN "mark" ELSE "none"
  <2>1. stops["call"] > 0 /\ stops' = MoveTask(stops, "call", b)
      BY <1>25 DEF TaskStops
  <2>2. b \in StopPlaces \cup {"none"} /\ b # "call"
      BY DEF StopPlaces
  <2>3. StopsOK'
      BY <2>1, <2>2, StopMoves DEF StopPlaces
  <2> QED BY ZenonT(30), <1>1, <1>2, <1>3, <1>25, <2>3
          DEF TaskStops, StopInstance, InstStates, Scalars, controlVars, roomVars, historyVars
<1>26. CASE SchedulerMarks
    BY Zenon, <1>1, <1>2, <1>4, <1>26 DEF SchedulerMarks, Scalars, outsideVars, roomVars
<1>27. CASE TaskMarks
  <2>1. StopsOK'
      BY ZenonT(30), <1>27, StopMoves DEF TaskMarks, StopPlaces
  <2> QED BY ZenonT(30), <1>1, <1>2, <1>4, <1>27, <2>1 DEF TaskMarks, Scalars, outsideVars, roomVars
<1>28. CASE InstanceBoots \/ InstanceStops \/ SfuChanges
  <2>1. /\ UNCHANGED <<controlVars, roomVars, taskVars, historyVars>>
        /\ inst' \in InstStates /\ sfuUp' \in BOOLEAN
      BY Zenon, <1>28 DEF InstanceBoots, InstanceStops, SfuChanges, InstStates, Scalars
  <2> QED BY ZenonT(30), <1>1, <1>2, <1>3, <2>1 DEF Scalars, controlVars, roomVars, taskVars, historyVars
<1>29. CASE Restart
  <2>1. ColdsOK' /\ HooksOK' /\ StopsOK'
    <3>1. ColdsOK'
        BY SMTT(30), <1>29, NoTasks, BoundsAssumption DEF Restart, ColdPlaces, ColdsOK, Colds
    <3>2. HooksOK'
        BY SMTT(30), <1>29, NoTasks, BoundsAssumption DEF Restart, HookPlaces, HooksOK, Hooks
    <3>3. StopsOK'
        BY SMTT(30), <1>29, NoTasks, BoundsAssumption DEF Restart, StopPlaces, StopsOK, Stops
    <3> QED BY ZenonT(30), <3>1, <3>2, <3>3
  <2>2. Episode' /\ health' \in {"available", "unavailable"} /\ late' = FALSE
      BY <1>4, <1>29 DEF Restart, Probe
  <2>3. Scalars'
    <3>1. joining' \in 0 .. MaxRooms /\ rooms' \in 0 .. MaxRooms
        BY <1>29, BoundsAssumption DEF Restart
    <3>2. /\ pending' = FALSE /\ missed' = FALSE /\ mon' = "idle" /\ sched' = "sleep"
          /\ ec2' = ec2 /\ inst' = inst /\ sfuUp' = sfuUp
        BY <1>29 DEF Restart, outsideVars
    <3> QED BY ZenonT(30), <1>1, <2>2, <3>1, <3>2 DEF Scalars
  <2>4. DeferralNotForgotten' /\ old' = 0
      BY ZenonT(30), <1>29 DEF Restart, DeferralNotForgotten
  <2> QED BY <2>1, <2>2, <2>3, <2>4
<1>30. CASE UNCHANGED sfuVars
    BY ZenonT(30), <1>1, <1>2, <1>3, <1>30
       DEF sfuVars, Scalars, controlVars, outsideVars, roomVars, taskVars, historyVars
<1> QED BY ZenonT(30), <1>5, <1>6, <1>7, <1>8, <1>9, <1>10, <1>11, <1>12, <1>13, <1>14, <1>15, <1>16, <1>17,
           <1>18, <1>19, <1>20, <1>21, <1>22, <1>23, <1>24, <1>25, <1>26, <1>27, <1>28, <1>29,
           <1>30 DEF SfuNext

LEMMA LifeInvAlways == SfuSpec => []LifeInv
    BY LifeInvInitially, NextKeepsLifeInv, PTL DEF SfuSpec

\* In every reachable state one cold start was spawned for a Starting status,
\* and a pending shutdown that nobody will look at again was counted as missed,
\* however joins, closes, the monitor, the scheduler and restarts interleave.
THEOREM LifecycleAlwaysConsistent == SfuSpec => []SfuInv
    BY LifeInvAlways, LifeInvGives, PTL

\* A stop that AWS accepts finds only rooms that opened after it was decided on.
THEOREM StopsSpareOldRooms == SfuSpec => StopSparesOldRooms
<1>1. LifeInv /\ [SfuNext]_sfuVars => [inst = "running" /\ inst' = "stopping" => old = 0]_sfuVars
    BY DEF LifeInv
<1> QED BY <1>1, LifeInvAlways, PTL DEF SfuSpec, StopSparesOldRooms

=============================================================================
