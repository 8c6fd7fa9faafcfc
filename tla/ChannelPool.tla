---------------------------- MODULE ChannelPool ----------------------------
(***************************************************************************)
(* ChannelPool of crates/api/src/channels.rs, await by await.              *)
(*                                                                         *)
(* Every lane has a tokio Mutex around an Option<Lease>.  lease() reads    *)
(* the clock once, then walks the lanes in Vec order: it waits for the     *)
(* lane's lock, passes over a live lease, and otherwise asks Horizon for   *)
(* the account WITHOUT letting go of the lock.  release() waits for the    *)
(* same lock and clears the lease only if the number is still the one it   *)
(* was given.  A step below runs from one await to the next.               *)
(*                                                                         *)
(* A quote request (an element of Quote) makes one lease call; the sealed  *)
(* quote it returns outlives the process, so its number can be released    *)
(* any number of times, late, or after a restart.                          *)
(***************************************************************************)
EXTENDS Naturals

CONSTANTS
    NumLanes,  \* lanes.len(): 1 when only the sponsor is configured
    Quote,     \* the quote requests of a behaviour, one lease call each
    Ttl,       \* the lease's length in clock ticks
    NoLease,   \* None in Option<Lease>
    NoQuote,   \* nobody holds a lane's lock
    MaxClock,  \* bound: the clock stops here
    MaxSeq     \* bound: an account's number on the ledger stops here

Lane == 1 .. NumLanes
Lease == [sequence : Nat, expires_at : Nat]
Granted == [lane : Lane, sequence : Nat, expires_at : Nat, max_time : Nat]

ASSUME NumLanesAssumption == NumLanes \in Nat \ {0}
ASSUME TtlAssumption == Ttl \in Nat \ {0}
ASSUME NoLeaseAssumption == NoLease \notin Lease /\ NoLease \notin Granted
ASSUME NoQuoteAssumption == NoQuote \notin Quote
ASSUME BoundsAssumption == MaxClock \in Nat /\ MaxSeq \in Nat

VARIABLES
    clock,     \* Instant::now()
    chain,     \* chain[l]: the sequence number of lane l's account (external)
    slot,      \* slot[l]: what lane l's mutex protects
    lock,      \* lock[l]: the call that holds lane l's mutex, or NoQuote
    pc,        \* pc[q]: where q's lease call stands
    now,       \* now[q]: the clock as q's call read it
    at,        \* at[q]: the lane of the loop's current turn
    read,      \* read[q]: the number Horizon answered q's call with
    got,       \* got[q]: what q's call returned, as sealed in its quote
    releasing, \* quotes for which a release() waits on the lane's lock
    held       \* history: quotes whose lease nobody has released or forgotten

vars == <<clock, chain, slot, lock, pc, now, at, read, got, releasing, held>>

InFlight == {"locking", "reading", "answered"}
Finished == {"leased", "busy", "failed", "dropped"}

TypeOK ==
    /\ clock \in Nat
    /\ chain \in [Lane -> Nat]
    /\ slot \in [Lane -> Lease \cup {NoLease}]
    /\ lock \in [Lane -> Quote \cup {NoQuote}]
    /\ pc \in [Quote -> {"new"} \cup InFlight \cup Finished]
    /\ now \in [Quote -> Nat]
    /\ at \in [Quote -> 1 .. NumLanes + 1]
    /\ read \in [Quote -> Nat]
    /\ got \in [Quote -> Granted \cup {NoLease}]
    /\ releasing \in SUBSET Quote
    /\ held \in SUBSET Quote

Init ==
    /\ clock = 0
    /\ chain = [l \in Lane |-> 0]
    /\ slot = [l \in Lane |-> NoLease]
    /\ lock = [l \in Lane |-> NoQuote]
    /\ pc = [q \in Quote |-> "new"]
    /\ now = [q \in Quote |-> 0]
    /\ at = [q \in Quote |-> 1]
    /\ read = [q \in Quote |-> 0]
    /\ got = [q \in Quote |-> NoLease]
    /\ releasing = {}
    /\ held = {}

-----------------------------------------------------------------------------
(* lease() *)

\* Mutant: a lease that is never treated as free.
LiveAtSticky(s, t) == s # NoLease

\* slot.as_ref().is_some_and(|l| l.expires_at > now)
LiveAt(s, t) == s # NoLease /\ s.expires_at > t

\* Mutants: the account's own number, and the one before it.
NextSequenceUsed(q) == read[q]
NextSequenceBack(q) == read[q] - 1

\* The number a quote is given: the one after the account's.
NextSequence(q) == read[q] + 1

\* The call reads the clock before it waits for anything.
StartLease(q) ==
    /\ pc[q] = "new"
    /\ pc' = [pc EXCEPT ![q] = "locking"]
    /\ now' = [now EXCEPT ![q] = clock]
    /\ UNCHANGED <<clock, chain, slot, lock, at, read, got, releasing, held>>

\* The lock arrives and the lane is leased: the guard is dropped, the loop
\* goes on.
PassLane(q) ==
    /\ pc[q] = "locking" /\ at[q] \in Lane
    /\ lock[at[q]] = NoQuote
    /\ LiveAt(slot[at[q]], now[q])
    /\ at' = [at EXCEPT ![q] = @ + 1]
    /\ UNCHANGED <<clock, chain, slot, lock, pc, now, read, got, releasing, held>>

\* Mutant: the guard is dropped before Horizon is asked.
TakeLaneUnlocked(q) ==
    /\ pc[q] = "locking" /\ at[q] \in Lane
    /\ lock[at[q]] = NoQuote
    /\ ~LiveAt(slot[at[q]], now[q])
    /\ pc' = [pc EXCEPT ![q] = "reading"]
    /\ UNCHANGED <<clock, chain, slot, lock, now, at, read, got, releasing, held>>

\* The lock arrives and the lane is free: Horizon is asked with the lock held.
TakeLane(q) ==
    /\ pc[q] = "locking" /\ at[q] \in Lane
    /\ lock[at[q]] = NoQuote
    /\ ~LiveAt(slot[at[q]], now[q])
    /\ lock' = [lock EXCEPT ![at[q]] = q]
    /\ pc' = [pc EXCEPT ![q] = "reading"]
    /\ UNCHANGED <<clock, chain, slot, now, at, read, got, releasing, held>>

\* Horizon reads the account; its answer is still on its way.
ReadAccount(q) ==
    /\ pc[q] = "reading"
    /\ read' = [read EXCEPT ![q] = chain[at[q]]]
    /\ pc' = [pc EXCEPT ![q] = "answered"]
    /\ UNCHANGED <<clock, chain, slot, lock, now, at, got, releasing, held>>

\* The answer arrives: the slot is written, the lock dropped, the call returns;
\* quote() then reads the clock again for the quote's time bound.
GrantLane(q) ==
    /\ pc[q] = "answered"
    /\ LET l == at[q]
           e == now[q] + Ttl
       IN  /\ slot' = [slot EXCEPT ![l] = [sequence |-> NextSequence(q), expires_at |-> e]]
           /\ lock' = [lock EXCEPT ![l] = NoQuote]
           /\ got' = [got EXCEPT ![q] =
                  [lane |-> l, sequence |-> NextSequence(q), expires_at |-> e,
                   max_time |-> clock + Ttl]]
    /\ pc' = [pc EXCEPT ![q] = "leased"]
    /\ held' = held \cup {q}
    /\ UNCHANGED <<clock, chain, now, at, read, releasing>>

\* Mutant: the guard outlives a failed call.
ReadFailsLocked(q) ==
    /\ pc[q] \in {"reading", "answered"}
    /\ pc' = [pc EXCEPT ![q] = "failed"]
    /\ UNCHANGED <<clock, chain, slot, lock, now, at, read, got, releasing, held>>

\* Horizon fails, knows no such account or sends no number: the whole call
\* fails on this lane, whatever the later lanes could have offered.
ReadFails(q) ==
    /\ pc[q] \in {"reading", "answered"}
    /\ lock' = [lock EXCEPT ![at[q]] = NoQuote]
    /\ pc' = [pc EXCEPT ![q] = "failed"]
    /\ UNCHANGED <<clock, chain, slot, now, at, read, got, releasing, held>>

AllBusy(q) ==
    /\ pc[q] = "locking" /\ at[q] = NumLanes + 1
    /\ pc' = [pc EXCEPT ![q] = "busy"]
    /\ UNCHANGED <<clock, chain, slot, lock, now, at, read, got, releasing, held>>

\* The client goes away and its handler is dropped at an await: a guard the
\* call holds goes with it.
DropLease(q) ==
    /\ pc[q] \in InFlight
    /\ lock' = [l \in Lane |-> IF lock[l] = q THEN NoQuote ELSE lock[l]]
    /\ pc' = [pc EXCEPT ![q] = "dropped"]
    /\ UNCHANGED <<clock, chain, slot, now, at, read, got, releasing, held>>

-----------------------------------------------------------------------------
(* release(address, sequence), called with what is written in quote q *)

StartRelease(q) ==
    /\ pc[q] = "leased"
    /\ q \notin releasing
    /\ releasing' = releasing \cup {q}
    /\ UNCHANGED <<clock, chain, slot, lock, pc, now, at, read, got, held>>

\* Mutant: a release frees whatever lease it finds.
MatchesAny(q) == slot[got[q].lane] # NoLease

\* slot.as_ref().is_some_and(|l| l.sequence == sequence)
Matches(q) ==
    /\ slot[got[q].lane] # NoLease
    /\ slot[got[q].lane].sequence = got[q].sequence

SameNumber(q) ==
    {p \in held : got[p].lane = got[q].lane /\ got[p].sequence = got[q].sequence}

ReleaseLane(q) ==
    /\ q \in releasing
    /\ lock[got[q].lane] = NoQuote
    /\ Matches(q)
    /\ slot' = [slot EXCEPT ![got[q].lane] = NoLease]
    /\ held' = held \ SameNumber(q)
    /\ releasing' = releasing \ {q}
    /\ UNCHANGED <<clock, chain, lock, pc, now, at, read, got>>

\* The lane is free or leased under another number: left alone.
ReleaseNothing(q) ==
    /\ q \in releasing
    /\ lock[got[q].lane] = NoQuote
    /\ ~Matches(q)
    /\ releasing' = releasing \ {q}
    /\ UNCHANGED <<clock, chain, slot, lock, pc, now, at, read, got, held>>

DropRelease(q) ==
    /\ q \in releasing
    /\ releasing' = releasing \ {q}
    /\ UNCHANGED <<clock, chain, slot, lock, pc, now, at, read, got, held>>

-----------------------------------------------------------------------------
(* Around the pool *)

Tick ==
    /\ clock < MaxClock
    /\ clock' = clock + 1
    /\ UNCHANGED <<chain, slot, lock, pc, now, at, read, got, releasing, held>>

\* A transaction of the lane's account applies on the ledger.
Consume(l) ==
    /\ chain[l] < MaxSeq
    /\ chain' = [chain EXCEPT ![l] = @ + 1]
    /\ UNCHANGED <<clock, slot, lock, pc, now, at, read, got, releasing, held>>

\* The process restarts: ChannelPool::new, and no call survives.
Restart ==
    /\ slot' = [l \in Lane |-> NoLease]
    /\ lock' = [l \in Lane |-> NoQuote]
    /\ pc' = [q \in Quote |-> IF pc[q] \in InFlight THEN "dropped" ELSE pc[q]]
    /\ releasing' = {}
    /\ held' = {}
    /\ UNCHANGED <<clock, chain, now, at, read, got>>

LeaseCall(q) ==
    \/ StartLease(q)
    \/ PassLane(q)
    \/ TakeLane(q)
    \/ ReadAccount(q)
    \/ GrantLane(q)
    \/ ReadFails(q)
    \/ AllBusy(q)
    \/ DropLease(q)

ReleaseCall(q) ==
    \/ StartRelease(q)
    \/ ReleaseLane(q)
    \/ ReleaseNothing(q)
    \/ DropRelease(q)

Next ==
    \/ \E q \in Quote : LeaseCall(q) \/ ReleaseCall(q)
    \/ \E l \in Lane : Consume(l)
    \/ Tick
    \/ Restart

Spec == Init /\ [][Next]_vars

\* A tokio Mutex hands the lock over in FIFO order, so a call that waits gets
\* it even though others keep asking (strong fairness of the steps that need
\* the lock).  Every Horizon request ends: reqwest is built with a timeout.
\* Nothing obliges a client to call, to stay, or to submit.
CallFairness(q) ==
    /\ SF_vars(PassLane(q) \/ TakeLane(q))
    /\ WF_vars(ReadAccount(q))
    /\ WF_vars(GrantLane(q) \/ ReadFails(q))
    /\ WF_vars(AllBusy(q))
    /\ SF_vars(ReleaseLane(q) \/ ReleaseNothing(q))

FairSpec == Spec /\ \A q \in Quote : CallFairness(q)

-----------------------------------------------------------------------------
(* Properties *)

LiveGrant(q) == q \in held /\ got[q].expires_at > clock

\* Two quotes never hold the same lane at once: while a lease is neither
\* released, forgotten nor past its deadline, nobody else is handed the lane,
\* however the calls interleave around the lock and the Horizon request made
\* under it ("two concurrent quotes cannot be handed the same one").
OneHolderPerLane ==
    \A p, q \in Quote :
        LiveGrant(p) /\ LiveGrant(q) /\ got[p].lane = got[q].lane => p = q

\* A caller told that every lane is busy was told so because, on every lane,
\* some other quote's lease ran past the moment the call began: an abandoned
\* lane blocks nobody once its deadline has passed.
BusyMeansLeased ==
    \A q \in Quote : pc[q] = "busy" =>
        \A l \in Lane : \E p \in Quote \ {q} :
            /\ got[p] # NoLease
            /\ got[p].lane = l
            /\ got[p].expires_at > now[q]

\* The check that a lane is free is still true when its result is used: from
\* the moment the call passes the check until it writes the lease, the lane
\* stays free, although a Horizon request lies in between.
CheckedLaneStaysFree ==
    \A q \in Quote : pc[q] \in {"reading", "answered"} =>
        ~LiveAt(slot[at[q]], now[q])

\* Every call is answered, or its client has gone: a lock that is held across a
\* slow, failing or abandoned Horizon request strands neither a quote nor a
\* submit behind it.
CallsAnswered ==
    \A q \in Quote :
        /\ pc[q] = "locking" ~> pc[q] \in Finished
        /\ q \in releasing ~> q \notin releasing

-----------------------------------------------------------------------------
(* What the properties rest on: the inductive invariant of ChannelPoolProofs *)

\* A call in the middle of its Horizon request is at a lane and holds its lock.
LockHeld ==
    \A q \in Quote : pc[q] \in {"reading", "answered"} =>
        at[q] \in Lane /\ lock[at[q]] = q

\* A call's reading of the clock, and the number it was answered with, can be
\* old but never ahead of the real ones.
ReadingsArePast ==
    \A q \in Quote :
        /\ now[q] <= clock
        /\ pc[q] = "answered" => read[q] <= chain[at[q]]

\* Releases and standing leases belong to quotes that were handed out.
LeasedIsGranted ==
    /\ \A q \in Quote : pc[q] = "leased" => got[q] \in Granted
    /\ \A q \in releasing \cup held : pc[q] = "leased"

\* A standing lease that is not past its deadline is what the slot says.
LiveGrantInSlot ==
    \A q \in Quote : LiveGrant(q) =>
        slot[got[q].lane] = [sequence |-> got[q].sequence, expires_at |-> got[q].expires_at]

\* Whatever a slot holds was handed to some quote.
SlotWasGranted ==
    \A l \in Lane : slot[l] # NoLease =>
        \E p \in Quote :
            /\ pc[p] = "leased"
            /\ got[p].lane = l
            /\ got[p].expires_at = slot[l].expires_at

\* Lane l was leased to p past the moment q's call began.
Blocked(q, l, p) ==
    pc[p] = "leased" /\ got[p].lane = l /\ got[p].expires_at > now[q]

\* A call has passed over nothing but such lanes.
PassedIsBlocked ==
    \A q \in Quote :
        /\ pc[q] = "new" => at[q] = 1
        /\ pc[q] = "busy" => at[q] = NumLanes + 1
        /\ \A l \in Lane : l < at[q] => \E p \in Quote : Blocked(q, l, p)

IInv ==
    /\ TypeOK
    /\ LockHeld
    /\ ReadingsArePast
    /\ LeasedIsGranted
    /\ CheckedLaneStaysFree
    /\ LiveGrantInSlot
    /\ OneHolderPerLane
    /\ SlotWasGranted
    /\ PassedIsBlocked

\* The pool, lock by lock, does what the atomic leases of LaneLease do.
Leases == INSTANCE LaneLease WITH lease <- slot
ImplementsLaneLease == Leases!LeaseSpec
=============================================================================
