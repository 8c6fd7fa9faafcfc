------------------------------- MODULE Limits -------------------------------
(***************************************************************************)
(* Who is calling, and may they (routes.rs caller_of, limits.rs).  Every   *)
(* caller has a budget of its own, by key or by address, and all share     *)
(* one; a budget is kept as the time at which it is full again, which is   *)
(* how the library behind `check` keeps it.                                *)
(*                                                                         *)
(* A minute is Minute ticks.  Every handler asks first, so a request here  *)
(* is any of them.  The names of the specification begin with Limits, for  *)
(* modules that extend Keys as well.                                       *)
(***************************************************************************)
EXTENDS Integers, Sequences, FiniteSets

CONSTANTS
    Hosts,        \* who sends requests, an end site each
    AddressesOf,  \* for each host, the addresses it may send them from
    Gateway,      \* the host in front, when there is a proxy
    KeyIds,       \* the ids of usable keys
    Minute, AnonPerMinute, KeyedPerMinute, GlobalPerMinute,
    LastTick      \* bound on the clock

Quotas == {AnonPerMinute, KeyedPerMinute, GlobalPerMinute}

ASSUME LimitsAssumption ==
    /\ Minute \in Nat \ {0} /\ LastTick \in Nat
    /\ Quotas \subseteq Nat \ {0}
    /\ \A n \in Quotas : Minute % n = 0

VARIABLES
    clock,
    fullAt,       \* when the budget of a caller is full again; 0 for one not kept
    globalFullAt,
    trustProxy,   \* the deployment's setting
    asked,        \* ghost: who passed its own limit, and when, within the last minute
    served,       \* ghost: when requests were let through, within the last minute
    answer        \* ghost: the last answer, and to whom

limitsVars == <<clock, fullAt, globalFullAt, trustProxy, asked, served, answer>>

None == "none"
NoKey == "no key"
Unusable == "an expired key"
NoAddress == [kind |-> None]  \* text that is no address

\* IPv6 by its /64 and what is left of it; IPv4, as such or inside IPv6.
Nets == {ip.net : ip \in UNION {AddressesOf[h] : h \in Hosts}}
Address == [kind : {"v4", "mapped"}, net : Nets] \cup [kind : {"v6"}, net : Nets, low : Nat]

Site(ip) == <<IF ip.kind = "v6" THEN "v6" ELSE "v4", ip.net>>

ASSUME SitesAssumption ==
    /\ KeyIds \cap (Hosts \cup {NoKey, Unusable}) = {} /\ Gateway \in Hosts
    /\ \A h \in Hosts : AddressesOf[h] # {} /\ AddressesOf[h] \subseteq Address
    /\ \A g, h \in Hosts : \A a \in AddressesOf[g], b \in AddressesOf[h] :
          Site(a) = Site(b) <=> g = h

-----------------------------------------------------------------------------
(* Who is calling *)

\* Mutant: every address is a caller.
BucketIpEach(ip) == ip

\* One end site, one bucket: IPv6 by the /64, and IPv4 however it is written.
BucketIp(ip) ==
    CASE ip.kind = "v4" -> ip
      [] ip.kind = "mapped" -> [kind |-> "v4", net |-> ip.net]
      [] ip.kind = "v6" -> [ip EXCEPT !.low = 0]

\* The first entry of X-Forwarded-For, when there is a proxy to be believed.
Forwarded(header) == IF trustProxy /\ header # <<>> THEN header[1] ELSE NoAddress

\* Mutant: behind a proxy everybody is the proxy.
CallerOfPeer(key, header, peer) ==
    IF key \in KeyIds THEN <<"key", key>> ELSE <<"anonymous", BucketIp(peer)>>

\* By key, or by the address forwarded, or by the peer's when there is none.
CallerOf(key, header, peer) ==
    IF key \in KeyIds THEN <<"key", key>>
    ELSE <<"anonymous", BucketIp(IF Forwarded(header) # NoAddress THEN Forwarded(header) ELSE peer)>>

PerMinute(caller) == IF caller[1] = "key" THEN KeyedPerMinute ELSE AnonPerMinute

Addresses == UNION {AddressesOf[h] : h \in Hosts}
Callers == {<<"key", k>> : k \in KeyIds} \cup {<<"anonymous", ip>> : ip \in Addresses \cup {BucketIp(a) : a \in Addresses}}

-----------------------------------------------------------------------------
(* The library: n to a minute, n at once (external) *)

Later(a, b) == IF a > b THEN a ELSE b

\* How long a budget of n takes to fill by one.
Cell(n) == Minute \div n

\* A budget of n is spent when it needs more than what n - 1 cells take to fill.
Spent(full, n) == full - clock > (n - 1) * Cell(n)

\* One cell taken.
Take(full, n) == Later(full, clock) + Cell(n)

-----------------------------------------------------------------------------

LimitsInit ==
    /\ clock = 0
    /\ fullAt = [c \in Callers |-> 0]
    /\ globalFullAt = 0
    /\ trustProxy \in BOOLEAN
    /\ asked = [w \in Hosts \cup KeyIds |-> <<>>]
    /\ served = <<>>
    /\ answer = <<None, None>>

\* Mutant: the shared budget is asked first.
DecideGlobalFirst(c) ==
    IF Spent(globalFullAt, GlobalPerMinute) THEN <<"at capacity", FALSE, FALSE>>
    ELSE IF Spent(fullAt[c], PerMinute(c)) THEN <<"too many", FALSE, TRUE>>
    ELSE <<"allow", TRUE, TRUE>>

\* Mutant: a request refused at capacity takes a cell all the same.
DecideEager(c) ==
    IF Spent(fullAt[c], PerMinute(c)) THEN <<"too many", FALSE, FALSE>>
    ELSE IF Spent(globalFullAt, GlobalPerMinute) THEN <<"at capacity", TRUE, TRUE>>
    ELSE <<"allow", TRUE, TRUE>>

\* The answer, and which budgets a cell is taken from.
Decide(c) ==
    IF Spent(fullAt[c], PerMinute(c)) THEN <<"too many", FALSE, FALSE>>
    ELSE IF Spent(globalFullAt, GlobalPerMinute) THEN <<"at capacity", TRUE, FALSE>>
    ELSE <<"allow", TRUE, TRUE>>

\* check() for a request of a host, or of whoever holds a key.
Check(who, caller) ==
    LET decision == Decide(caller)
    IN  /\ fullAt' = IF decision[2] THEN [fullAt EXCEPT ![caller] = Take(@, PerMinute(caller))] ELSE fullAt
        /\ globalFullAt' = IF decision[3] THEN Take(globalFullAt, GlobalPerMinute) ELSE globalFullAt
        /\ asked' = IF decision[2] THEN [asked EXCEPT ![who] = Append(@, clock)] ELSE asked
        /\ served' = IF decision[1] = "allow" THEN Append(served, clock) ELSE served
        /\ answer' = <<decision[1], who>>
        /\ UNCHANGED <<clock, trustProxy>>

\* A header that is missing, cannot be read, or starts with one of the addresses,
\* which a further proxy may have put its own behind.
Headers(ips) == {<<>>, <<NoAddress>>} \cup {<<ip>> : ip \in ips} \cup (ips \X AddressesOf[Gateway])

\* A host calls with a key, an unusable one or none.  Without a proxy it comes from
\* its own address, whatever header it writes.
RequestDirect(h, key) ==
    /\ ~trustProxy
    /\ \E ip \in AddressesOf[h], header \in Headers(Addresses) :
          Check(IF key \in KeyIds THEN key ELSE h, CallerOf(key, header, ip))

\* Behind one it comes from the proxy, which puts the host first in the header (as
\* README.md:159 asks of it; external).  A request on which that fails is the
\* proxy's own.
RequestForwarded(h, key) ==
    /\ trustProxy
    /\ \E peer \in AddressesOf[Gateway], header \in Headers(AddressesOf[h]) :
          LET host == IF Forwarded(header) = NoAddress THEN Gateway ELSE h
          IN  Check(IF key \in KeyIds THEN key ELSE host, CallerOf(key, header, peer))

\* Budgets that are full are not kept.
Pruned == [c \in Callers |-> IF fullAt[c] <= clock THEN 0 ELSE fullAt[c]]

Prune ==
    /\ fullAt' = Pruned
    /\ UNCHANGED <<clock, globalFullAt, trustProxy, asked, served, answer>>

\* What is left of a sequence of times, in order, after one of them.
After(times, t) == SubSeq(times, Cardinality({i \in DOMAIN times : times[i] <= t}) + 1, Len(times))

\* The clock (external); the ghosts keep the last minute.
ClockTick ==
    /\ clock < LastTick
    /\ clock' = clock + 1
    /\ asked' = [w \in DOMAIN asked |-> After(asked[w], clock + 1 - Minute)]
    /\ served' = After(served, clock + 1 - Minute)
    /\ answer' = <<None, None>>
    /\ UNCHANGED <<fullAt, globalFullAt, trustProxy>>

LimitsNext ==
    \/ \E h \in Hosts \ {Gateway}, key \in KeyIds \cup {NoKey, Unusable} :
          RequestDirect(h, key) \/ RequestForwarded(h, key)
    \/ Prune
    \/ ClockTick

LimitsSpec == LimitsInit /\ [][LimitsNext]_limitsVars

-----------------------------------------------------------------------------
(* Properties *)

Budget(who) == IF who \in KeyIds THEN KeyedPerMinute ELSE AnonPerMinute

LimitsTypeOK ==
    /\ clock \in 0 .. LastTick
    /\ \A c \in Callers : fullAt[c] \in 0 .. clock + Minute
    /\ globalFullAt \in 0 .. clock + Minute
    /\ answer[1] \in {None, "allow", "too many", "at capacity"}

\* No host, by whatever address it calls or claims to be, and no key is let past
\* its own limit more often within a minute than a full burst and what is
\* filled up meanwhile.
MinuteBound == \A w \in DOMAIN asked : Len(asked[w]) <= 2 * Budget(w) - 1

\* "One noisy address does not affect anyone else": whoever is told to slow down
\* has had its budget within the last minute.
DenialIsEarned ==
    answer[1] = "too many" => Len(asked[answer[2]]) >= Budget(answer[2])

\* Whoever is told the service is at capacity is told so because it is: the
\* shared budget went to requests that were let through.
CapacityIsReal == answer[1] = "at capacity" => Len(served) >= GlobalPerMinute
=============================================================================
