----------------------------- MODULE LaneLease -----------------------------
(***************************************************************************)
(* What the pool of bootstrap lanes promises, with every call atomic.      *)
(*                                                                         *)
(* A lane is an account whose transactions apply in sequence order.  A     *)
(* quote reserves the lane and the next number on it; nobody else is given *)
(* the lane until the reservation is released by its number, runs past     *)
(* its deadline, or is forgotten in a restart (leases live in memory only).*)
(***************************************************************************)
EXTENDS Naturals

CONSTANTS
    Lane,      \* the lanes: the sponsor, or the configured channel accounts
    Ttl,       \* how long a lease lasts, in clock ticks (TX_TIMEOUT_SECS)
    NoLease    \* None in Option<Lease>

Lease == [sequence : Nat, expires_at : Nat]

ASSUME TtlAssumption == Ttl \in Nat \ {0}
ASSUME NoLeaseAssumption == NoLease \notin Lease

VARIABLES
    clock,     \* the time
    chain,     \* chain[l]: the sequence number of l's account on the ledger
    lease      \* lease[l]: the lease on l, or NoLease

leaseVars == <<clock, chain, lease>>

LeaseTypeOK ==
    /\ clock \in Nat
    /\ chain \in [Lane -> Nat]
    /\ lease \in [Lane -> Lease \cup {NoLease}]

LiveAt(slot, now) == slot # NoLease /\ slot.expires_at > now

LeaseInit ==
    /\ clock = 0
    /\ chain = [l \in Lane |-> 0]
    /\ lease = [l \in Lane |-> NoLease]

Tick ==
    /\ clock' = clock + 1
    /\ UNCHANGED <<chain, lease>>

\* A transaction of lane l's account applies on the ledger.
Consume(l) ==
    /\ chain' = [chain EXCEPT ![l] = @ + 1]
    /\ UNCHANGED <<clock, lease>>

\* Lane l is handed out with number s until e.  The number is the successor of
\* one the ledger has shown (Horizon may answer from before the last ledger),
\* and the lease is counted from a reading of the clock that is not in the
\* future.
Grant(l, s, e) ==
    /\ ~LiveAt(lease[l], clock)
    /\ s \in 1 .. chain[l] + 1
    /\ e \in Ttl .. clock + Ttl
    /\ lease' = [lease EXCEPT ![l] = [sequence |-> s, expires_at |-> e]]
    /\ UNCHANGED <<clock, chain>>

Release(l, s) ==
    /\ lease[l] # NoLease /\ lease[l].sequence = s
    /\ lease' = [lease EXCEPT ![l] = NoLease]
    /\ UNCHANGED <<clock, chain>>

Forget ==
    /\ lease' = [l \in Lane |-> NoLease]
    /\ UNCHANGED <<clock, chain>>

LeaseNext ==
    \/ Tick
    \/ Forget
    \/ \E l \in Lane :
        \/ Consume(l)
        \/ \E s \in 1 .. chain[l] + 1, e \in Ttl .. clock + Ttl : Grant(l, s, e)
        \/ lease[l] # NoLease /\ Release(l, lease[l].sequence)

LeaseSpec == LeaseInit /\ [][LeaseNext]_leaseVars

-----------------------------------------------------------------------------
(* Properties *)

\* A lane nobody gives back comes back by itself: every lease ends within Ttl of
\* any moment, and none is for a number further ahead than the lane's next.
LeaseEnds ==
    \A l \in Lane : lease[l] # NoLease =>
        lease[l].expires_at <= clock + Ttl /\ lease[l].sequence <= chain[l] + 1
=============================================================================
