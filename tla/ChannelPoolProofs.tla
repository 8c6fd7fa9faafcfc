-------------------------- MODULE ChannelPoolProofs --------------------------
(***************************************************************************)
(* Proofs about ChannelPool, for any lanes, quotes, lease length and bound. *)
(*                                                                         *)
(* IInv is inductive: one lemma per action shows that the action keeps it. *)
(* What makes it so is LockHeld (a call between its check and its write    *)
(* still holds the lane's lock, so nobody else writes the slot) and        *)
(* LiveGrantInSlot (a standing lease is what the slot says, so the check   *)
(* sees it).  The theorems about the pool's properties follow from IInv.   *)
(***************************************************************************)
EXTENDS ChannelPool, TLAPS

USE NumLanesAssumption, TtlAssumption, NoLeaseAssumption, NoQuoteAssumption
    DEF Lane, Lease, Granted, InFlight, Finished

\* A call that reads the clock has passed no lane yet, so nothing depends on it.
LEMMA StartLeaseKeeps ==
  ASSUME IInv, NEW q \in Quote, StartLease(q)
  PROVE  IInv'
<1>1. TypeOK'
  BY DEF IInv, StartLease, TypeOK
<1>2. LockHeld' /\ ReadingsArePast' /\ LeasedIsGranted' /\ CheckedLaneStaysFree'
  BY <1>1 DEF IInv, StartLease, LockHeld, ReadingsArePast, LeasedIsGranted,
     CheckedLaneStaysFree, LiveAt, TypeOK
<1>3. LiveGrantInSlot' /\ OneHolderPerLane'
  BY <1>1 DEF IInv, StartLease, LiveGrantInSlot, OneHolderPerLane, LiveGrant, LeasedIsGranted, TypeOK
<1>4. SlotWasGranted'
  BY <1>1 DEF IInv, StartLease, SlotWasGranted, TypeOK
<1>5. PassedIsBlocked'
  \* q itself has passed nothing yet; nobody else's reading of the clock moved
  <2>1. ASSUME NEW r \in Quote, NEW l \in Lane, l < at'[r]
        PROVE  \E p \in Quote : Blocked(r, l, p)'
    <3>1. r # q
      BY <2>1 DEF IInv, StartLease, PassedIsBlocked, TypeOK
    <3>2. PICK p \in Quote : Blocked(r, l, p)
      BY <2>1 DEF IInv, StartLease, PassedIsBlocked, TypeOK
    <3>3. Blocked(r, l, p)'
      BY <3>1, <3>2 DEF IInv, StartLease, Blocked, TypeOK
    <3> QED BY <3>3
  <2> QED BY <2>1 DEF IInv, StartLease, PassedIsBlocked, TypeOK
<1> QED BY <1>1, <1>2, <1>3, <1>4, <1>5 DEF IInv

\* Passing over a lane: its slot holds somebody's lease, live at the call's reading.
LEMMA PassLaneKeeps ==
  ASSUME IInv, NEW q \in Quote, PassLane(q)
  PROVE  IInv'
<1>1. TypeOK'
  <2>1. at' \in [Quote -> 1 .. NumLanes + 1]
    BY DEF IInv, PassLane, TypeOK
  <2> QED BY <2>1 DEF IInv, PassLane, TypeOK
<1>2. LockHeld' /\ CheckedLaneStaysFree'
  BY DEF IInv, PassLane, LockHeld, CheckedLaneStaysFree, LiveAt, TypeOK
<1>3. ReadingsArePast' /\ LeasedIsGranted'
  BY DEF IInv, PassLane, ReadingsArePast, LeasedIsGranted, TypeOK
<1>4. LiveGrantInSlot' /\ OneHolderPerLane'
  BY <1>1 DEF IInv, PassLane, LiveGrantInSlot, OneHolderPerLane, LiveGrant, LeasedIsGranted, TypeOK
<1>5. SlotWasGranted'
  BY <1>1 DEF IInv, PassLane, SlotWasGranted, TypeOK
<1>6. PassedIsBlocked'
  <2>1. ASSUME NEW r \in Quote, NEW l \in Lane, l < at'[r]
        PROVE  \E p \in Quote : Blocked(r, l, p)'
    <3>1. \E p \in Quote : Blocked(r, l, p)
      <4>1. CASE l < at[r]
        BY <4>1 DEF IInv, PassedIsBlocked
      <4>2. CASE r = q /\ l = at[q]
        \* the lane passed just now: the slot's lease is some quote's
        <5>1. PICK p \in Quote : pc[p] = "leased" /\ got[p].lane = l
                                 /\ got[p].expires_at = slot[l].expires_at
          BY <4>2 DEF IInv, PassLane, LiveAt, SlotWasGranted
        <5> QED BY <4>2, <5>1 DEF PassLane, LiveAt, Blocked
      <4> QED BY <2>1, <4>1, <4>2 DEF IInv, PassLane, TypeOK
    <3> QED BY <3>1 DEF PassLane, Blocked
  <2> QED BY <2>1 DEF IInv, PassLane, PassedIsBlocked, TypeOK
<1> QED BY <1>1, <1>2, <1>3, <1>4, <1>5, <1>6 DEF IInv

\* Taking a lane puts its lock in the hands of a call that has just seen it free.
LEMMA TakeLaneKeeps ==
  ASSUME IInv, NEW q \in Quote, TakeLane(q)
  PROVE  IInv'
<1>1. TypeOK'
  BY DEF IInv, TakeLane, TypeOK
<1>2. LockHeld' /\ ReadingsArePast' /\ LeasedIsGranted' /\ CheckedLaneStaysFree'
  BY <1>1 DEF IInv, TakeLane, LockHeld, ReadingsArePast, LeasedIsGranted,
     CheckedLaneStaysFree, LiveAt, TypeOK
<1>3. LiveGrantInSlot' /\ OneHolderPerLane'
  BY <1>1 DEF IInv, TakeLane, LiveGrantInSlot, OneHolderPerLane, LiveGrant, LeasedIsGranted, TypeOK
<1>4. SlotWasGranted'
  BY <1>1 DEF IInv, TakeLane, SlotWasGranted, TypeOK
<1>5. PassedIsBlocked'
  BY <1>1 DEF IInv, TakeLane, PassedIsBlocked, Blocked, TypeOK
<1> QED BY <1>1, <1>2, <1>3, <1>4, <1>5 DEF IInv

\* Horizon's answer is a past number of the account; the slot is not touched.
LEMMA ReadAccountKeeps ==
  ASSUME IInv, NEW q \in Quote, ReadAccount(q)
  PROVE  IInv'
<1>1. TypeOK'
  <2>1. chain[at[q]] \in Nat
    BY DEF IInv, ReadAccount, LockHeld, TypeOK
  <2> QED BY <2>1 DEF IInv, ReadAccount, TypeOK
<1>2. LockHeld' /\ ReadingsArePast' /\ LeasedIsGranted' /\ CheckedLaneStaysFree'
  BY <1>1 DEF IInv, ReadAccount, LockHeld, ReadingsArePast, LeasedIsGranted,
     CheckedLaneStaysFree, LiveAt, TypeOK
<1>3. LiveGrantInSlot' /\ OneHolderPerLane'
  BY <1>1 DEF IInv, ReadAccount, LiveGrantInSlot, OneHolderPerLane, LiveGrant, LeasedIsGranted, TypeOK
<1>4. SlotWasGranted'
  BY <1>1 DEF IInv, ReadAccount, SlotWasGranted, TypeOK
<1>5. PassedIsBlocked'
  BY <1>1 DEF IInv, ReadAccount, PassedIsBlocked, Blocked, TypeOK
<1> QED BY <1>1, <1>2, <1>3, <1>4, <1>5 DEF IInv

\* Writing the lease: the slot was free, so no standing lease is overwritten.
LEMMA GrantLaneKeeps ==
  ASSUME IInv, NEW q \in Quote, GrantLane(q)
  PROVE  IInv'
<1> DEFINE l == at[q]
           e == now[q] + Ttl
<1>1. /\ l \in Lane /\ lock[l] = q /\ pc[q] = "answered"
      /\ NextSequence(q) \in Nat /\ e \in Nat /\ clock + Ttl \in Nat /\ now[q] <= clock
  BY DEF IInv, GrantLane, LockHeld, ReadingsArePast, NextSequence, TypeOK
<1>2. /\ slot' = [slot EXCEPT ![l] = [sequence |-> NextSequence(q), expires_at |-> e]]
      /\ lock' = [lock EXCEPT ![l] = NoQuote]
      /\ got' = [got EXCEPT ![q] =
             [lane |-> l, sequence |-> NextSequence(q), expires_at |-> e,
              max_time |-> clock + Ttl]]
      /\ pc' = [pc EXCEPT ![q] = "leased"]
      /\ held' = held \cup {q}
      /\ UNCHANGED <<clock, chain, now, at, read, releasing>>
  BY DEF GrantLane
<1> HIDE DEF l, e
<1>3. TypeOK'
  BY <1>1, <1>2 DEF IInv, TypeOK
<1>4. LockHeld' /\ CheckedLaneStaysFree'
  \* nobody else is between check and grant on this lane: q had its lock
  <2>1. \A r \in Quote \ {q} : pc[r] \in {"reading", "answered"} => at[r] # l
    BY <1>1 DEF IInv, LockHeld
  <2> QED BY <1>1, <1>2, <2>1 DEF IInv, LockHeld, CheckedLaneStaysFree, LiveAt, TypeOK
<1>5. ReadingsArePast'
  BY <1>1, <1>2 DEF IInv, ReadingsArePast, TypeOK
<1>6. LeasedIsGranted'
  BY <1>1, <1>2 DEF IInv, LeasedIsGranted, TypeOK
<1>7. \A r \in Quote \ {q} : LiveGrant(r) => got[r].lane # l
  \* the slot was free as of now[q], so it is free now
  <2>1. ~LiveAt(slot[l], now[q])
    BY <1>1 DEF IInv, CheckedLaneStaysFree, l
  <2>2. ASSUME NEW r \in Quote, LiveGrant(r), got[r].lane = l
        PROVE  LiveAt(slot[l], now[q])
    <3>1. slot[l] = [sequence |-> got[r].sequence, expires_at |-> got[r].expires_at]
      BY <2>2 DEF IInv, LiveGrantInSlot
    <3>2. got[r] \in Granted
      BY <2>2 DEF IInv, LiveGrant, LeasedIsGranted
    <3>3. slot[l] \in Lease /\ slot[l].expires_at > clock
      BY <2>2, <3>1, <3>2 DEF LiveGrant
    <3>4. clock \in Nat /\ now[q] \in Nat
      BY DEF IInv, TypeOK
    <3> QED BY <1>1, <3>3, <3>4 DEF LiveAt
  <2> QED BY <2>1, <2>2
<1>8. \A r \in Quote \ {q} : LiveGrant(r)' <=> LiveGrant(r)
  BY <1>2 DEF IInv, LiveGrant, TypeOK
<1>9. \A r \in Quote \ {q} : got'[r] = got[r]
  BY <1>2 DEF IInv, TypeOK
<1>10. /\ got'[q] = [lane |-> l, sequence |-> NextSequence(q), expires_at |-> e,
                     max_time |-> clock + Ttl]
       /\ slot'[l] = [sequence |-> NextSequence(q), expires_at |-> e]
       /\ \A m \in Lane \ {l} : slot'[m] = slot[m]
  BY <1>1, <1>2 DEF IInv, TypeOK
<1>11. LiveGrantInSlot'
  <2>1. ASSUME NEW r \in Quote, LiveGrant(r)'
        PROVE  slot'[got'[r].lane] =
                 [sequence |-> got'[r].sequence, expires_at |-> got'[r].expires_at]
    <3>1. CASE r = q BY <3>1, <1>10
    <3>2. CASE r # q
      <4>1. LiveGrant(r) /\ got'[r] = got[r] /\ got[r].lane # l
        BY <2>1, <3>2, <1>7, <1>8, <1>9
      <4>2. got[r].lane \in Lane
        BY <4>1 DEF IInv, LiveGrant, LeasedIsGranted
      <4> QED BY <4>1, <4>2, <1>10 DEF IInv, LiveGrantInSlot
    <3> QED BY <3>1, <3>2
  <2> QED BY <2>1 DEF LiveGrantInSlot
<1>12. OneHolderPerLane'
  BY <1>7, <1>8, <1>9, <1>10 DEF IInv, OneHolderPerLane
<1>13. SlotWasGranted'
  <2>1. ASSUME NEW m \in Lane, slot'[m] # NoLease
        PROVE  \E p \in Quote : /\ pc'[p] = "leased"
                                /\ got'[p].lane = m
                                /\ got'[p].expires_at = slot'[m].expires_at
    <3>1. CASE m = l
      BY <3>1, <1>2, <1>10 DEF IInv, TypeOK
    <3>2. CASE m # l
      <4>1. PICK p \in Quote : /\ pc[p] = "leased"
                               /\ got[p].lane = m
                               /\ got[p].expires_at = slot[m].expires_at
        BY <2>1, <3>2, <1>10 DEF IInv, SlotWasGranted
      <4>2. p # q
        BY <4>1, <1>1
      <4> QED BY <4>1, <4>2, <3>2, <1>2, <1>9, <1>10 DEF IInv, TypeOK
    <3> QED BY <3>1, <3>2
  <2> QED BY <2>1 DEF SlotWasGranted
<1>14. PassedIsBlocked'
  <2>1. ASSUME NEW r \in Quote, NEW m \in Lane, m < at'[r]
        PROVE  \E p \in Quote : Blocked(r, m, p)'
    <3>1. PICK p \in Quote : Blocked(r, m, p)
      BY <2>1, <1>2 DEF IInv, PassedIsBlocked
    <3>2. p # q
      BY <3>1, <1>1 DEF Blocked
    <3> QED BY <3>1, <3>2, <1>2, <1>9 DEF IInv, Blocked, TypeOK
  <2> QED BY <2>1, <1>2 DEF IInv, PassedIsBlocked, TypeOK
<1> QED BY <1>3, <1>4, <1>5, <1>6, <1>11, <1>12, <1>13, <1>14 DEF IInv

\* A failed call gives its lock back and writes nothing.
LEMMA ReadFailsKeeps ==
  ASSUME IInv, NEW q \in Quote, ReadFails(q)
  PROVE  IInv'
<1>1. TypeOK'
  BY DEF IInv, ReadFails, TypeOK
<1>2. LockHeld' /\ ReadingsArePast' /\ LeasedIsGranted' /\ CheckedLaneStaysFree'
  BY <1>1 DEF IInv, ReadFails, LockHeld, ReadingsArePast, LeasedIsGranted,
     CheckedLaneStaysFree, LiveAt, TypeOK
<1>3. LiveGrantInSlot' /\ OneHolderPerLane'
  BY <1>1 DEF IInv, ReadFails, LiveGrantInSlot, OneHolderPerLane, LiveGrant, LeasedIsGranted, TypeOK
<1>4. SlotWasGranted'
  BY <1>1 DEF IInv, ReadFails, SlotWasGranted, TypeOK
<1>5. PassedIsBlocked'
  BY <1>1 DEF IInv, ReadFails, PassedIsBlocked, Blocked, TypeOK
<1> QED BY <1>1, <1>2, <1>3, <1>4, <1>5 DEF IInv

\* A call that has passed every lane is answered busy.
LEMMA AllBusyKeeps ==
  ASSUME IInv, NEW q \in Quote, AllBusy(q)
  PROVE  IInv'
<1>1. TypeOK'
  BY DEF IInv, AllBusy, TypeOK
<1>2. LockHeld' /\ ReadingsArePast' /\ LeasedIsGranted' /\ CheckedLaneStaysFree'
  BY <1>1 DEF IInv, AllBusy, LockHeld, ReadingsArePast, LeasedIsGranted,
     CheckedLaneStaysFree, LiveAt, TypeOK
<1>3. LiveGrantInSlot' /\ OneHolderPerLane'
  BY <1>1 DEF IInv, AllBusy, LiveGrantInSlot, OneHolderPerLane, LiveGrant, LeasedIsGranted, TypeOK
<1>4. SlotWasGranted'
  BY <1>1 DEF IInv, AllBusy, SlotWasGranted, TypeOK
<1>5. PassedIsBlocked'
  BY <1>1 DEF IInv, AllBusy, PassedIsBlocked, Blocked, TypeOK
<1> QED BY <1>1, <1>2, <1>3, <1>4, <1>5 DEF IInv

\* A dropped call gives up whatever lock it held and writes nothing.
LEMMA DropLeaseKeeps ==
  ASSUME IInv, NEW q \in Quote, DropLease(q)
  PROVE  IInv'
<1>1. TypeOK'
  BY DEF IInv, DropLease, TypeOK
<1>2. LockHeld' /\ ReadingsArePast' /\ LeasedIsGranted' /\ CheckedLaneStaysFree'
  BY <1>1 DEF IInv, DropLease, LockHeld, ReadingsArePast, LeasedIsGranted,
     CheckedLaneStaysFree, LiveAt, TypeOK
<1>3. LiveGrantInSlot' /\ OneHolderPerLane'
  BY <1>1 DEF IInv, DropLease, LiveGrantInSlot, OneHolderPerLane, LiveGrant, LeasedIsGranted, TypeOK
<1>4. SlotWasGranted'
  BY <1>1 DEF IInv, DropLease, SlotWasGranted, TypeOK
<1>5. PassedIsBlocked'
  <2>1. ASSUME NEW r \in Quote, NEW l \in Lane, l < at'[r]
        PROVE  \E p \in Quote : Blocked(r, l, p)'
    <3>1. PICK p \in Quote : Blocked(r, l, p)
      BY <2>1 DEF IInv, DropLease, PassedIsBlocked
    <3> QED BY <3>1 DEF IInv, DropLease, Blocked, InFlight, TypeOK
  <2> QED BY <2>1 DEF IInv, DropLease, PassedIsBlocked, TypeOK
<1> QED BY <1>1, <1>2, <1>3, <1>4, <1>5 DEF IInv

\* A release is begun only by a quote that was handed a lane.
LEMMA StartReleaseKeeps ==
  ASSUME IInv, NEW q \in Quote, StartRelease(q)
  PROVE  IInv'
<1>1. TypeOK'
  BY DEF IInv, StartRelease, TypeOK
<1>2. LockHeld' /\ ReadingsArePast' /\ LeasedIsGranted' /\ CheckedLaneStaysFree'
  BY <1>1 DEF IInv, StartRelease, LockHeld, ReadingsArePast, LeasedIsGranted,
     CheckedLaneStaysFree, LiveAt, TypeOK
<1>3. LiveGrantInSlot' /\ OneHolderPerLane'
  BY <1>1 DEF IInv, StartRelease, LiveGrantInSlot, OneHolderPerLane, LiveGrant, LeasedIsGranted, TypeOK
<1>4. SlotWasGranted'
  BY <1>1 DEF IInv, StartRelease, SlotWasGranted, TypeOK
<1>5. PassedIsBlocked'
  BY <1>1 DEF IInv, StartRelease, PassedIsBlocked, Blocked, TypeOK
<1> QED BY <1>1, <1>2, <1>3, <1>4, <1>5 DEF IInv

\* Clearing a slot ends every lease with that lane and number, and no other.
LEMMA ReleaseLaneKeeps ==
  ASSUME IInv, NEW q \in Quote, ReleaseLane(q)
  PROVE  IInv'
<1>1. TypeOK'
  BY DEF IInv, ReleaseLane, TypeOK
<1>2. LockHeld' /\ ReadingsArePast' /\ LeasedIsGranted' /\ CheckedLaneStaysFree'
  BY <1>1 DEF IInv, ReleaseLane, LockHeld, ReadingsArePast, LeasedIsGranted,
     CheckedLaneStaysFree, LiveAt, TypeOK
<1>3. LiveGrantInSlot' /\ OneHolderPerLane'
  \* a lease that stands after the release is on another lane
  <2>1. got[q] \in Granted
    BY DEF IInv, ReleaseLane, LeasedIsGranted
  <2>2. ASSUME NEW r \in Quote, LiveGrant(r)'
        PROVE  LiveGrant(r) /\ got[r] \in Granted /\ got[r].lane # got[q].lane
    <3>1. LiveGrant(r) /\ got[r] \in Granted /\ r \notin SameNumber(q)
      BY <2>2 DEF IInv, ReleaseLane, LiveGrant, LeasedIsGranted
    <3>2. slot[got[r].lane] = [sequence |-> got[r].sequence, expires_at |-> got[r].expires_at]
      BY <3>1 DEF IInv, LiveGrantInSlot
    <3>3. slot[got[r].lane].sequence = got[r].sequence
      BY <3>2
    <3> QED BY <3>1, <3>3 DEF ReleaseLane, Matches, SameNumber, LiveGrant
  <2>3. LiveGrantInSlot'
    BY <2>1, <2>2 DEF IInv, ReleaseLane, LiveGrantInSlot, TypeOK
  <2>4. OneHolderPerLane'
    BY <2>2 DEF IInv, ReleaseLane, OneHolderPerLane
  <2> QED BY <2>3, <2>4
<1>4. SlotWasGranted'
  <2>1. ASSUME NEW l \in Lane, slot'[l] # NoLease
        PROVE  \E p \in Quote : /\ pc'[p] = "leased"
                                /\ got'[p].lane = l
                                /\ got'[p].expires_at = slot'[l].expires_at
    <3>1. slot'[l] = slot[l] /\ slot[l] # NoLease
      BY <2>1 DEF IInv, ReleaseLane, TypeOK
    <3> QED BY <3>1 DEF IInv, ReleaseLane, SlotWasGranted
  <2> QED BY <2>1 DEF SlotWasGranted
<1>5. PassedIsBlocked'
  BY <1>1 DEF IInv, ReleaseLane, PassedIsBlocked, Blocked, TypeOK
<1> QED BY <1>1, <1>2, <1>3, <1>4, <1>5 DEF IInv

\* A release that finds another number leaves the slot alone.
LEMMA ReleaseNothingKeeps ==
  ASSUME IInv, NEW q \in Quote, ReleaseNothing(q)
  PROVE  IInv'
<1>1. TypeOK'
  BY DEF IInv, ReleaseNothing, TypeOK
<1>2. LockHeld' /\ ReadingsArePast' /\ LeasedIsGranted' /\ CheckedLaneStaysFree'
  BY <1>1 DEF IInv, ReleaseNothing, LockHeld, ReadingsArePast, LeasedIsGranted,
     CheckedLaneStaysFree, LiveAt, TypeOK
<1>3. LiveGrantInSlot' /\ OneHolderPerLane'
  BY <1>1 DEF IInv, ReleaseNothing, LiveGrantInSlot, OneHolderPerLane, LiveGrant, LeasedIsGranted, TypeOK
<1>4. SlotWasGranted'
  BY <1>1 DEF IInv, ReleaseNothing, SlotWasGranted, TypeOK
<1>5. PassedIsBlocked'
  BY <1>1 DEF IInv, ReleaseNothing, PassedIsBlocked, Blocked, TypeOK
<1> QED BY <1>1, <1>2, <1>3, <1>4, <1>5 DEF IInv

\* A dropped release leaves the slot alone.
LEMMA DropReleaseKeeps ==
  ASSUME IInv, NEW q \in Quote, DropRelease(q)
  PROVE  IInv'
<1>1. TypeOK'
  BY DEF IInv, DropRelease, TypeOK
<1>2. LockHeld' /\ ReadingsArePast' /\ LeasedIsGranted' /\ CheckedLaneStaysFree'
  BY <1>1 DEF IInv, DropRelease, LockHeld, ReadingsArePast, LeasedIsGranted,
     CheckedLaneStaysFree, LiveAt, TypeOK
<1>3. LiveGrantInSlot' /\ OneHolderPerLane'
  BY <1>1 DEF IInv, DropRelease, LiveGrantInSlot, OneHolderPerLane, LiveGrant, LeasedIsGranted, TypeOK
<1>4. SlotWasGranted'
  BY <1>1 DEF IInv, DropRelease, SlotWasGranted, TypeOK
<1>5. PassedIsBlocked'
  BY <1>1 DEF IInv, DropRelease, PassedIsBlocked, Blocked, TypeOK
<1> QED BY <1>1, <1>2, <1>3, <1>4, <1>5 DEF IInv

\* The account's number only grows: what was read stays a past number.
LEMMA ConsumeKeeps ==
  ASSUME IInv, NEW l \in Lane, Consume(l)
  PROVE  IInv'
<1>1. TypeOK'
  <2>1. chain' \in [Lane -> Nat]
    BY DEF IInv, Consume, TypeOK
  <2> QED BY <2>1 DEF IInv, Consume, TypeOK
<1>2. LockHeld' /\ ReadingsArePast' /\ LeasedIsGranted' /\ CheckedLaneStaysFree'
  BY <1>1 DEF IInv, Consume, LockHeld, ReadingsArePast, LeasedIsGranted,
     CheckedLaneStaysFree, LiveAt, TypeOK
<1>3. LiveGrantInSlot' /\ OneHolderPerLane'
  BY <1>1 DEF IInv, Consume, LiveGrantInSlot, OneHolderPerLane, LiveGrant, LeasedIsGranted, TypeOK
<1>4. SlotWasGranted'
  BY <1>1 DEF IInv, Consume, SlotWasGranted, TypeOK
<1>5. PassedIsBlocked'
  BY <1>1 DEF IInv, Consume, PassedIsBlocked, Blocked, TypeOK
<1> QED BY <1>1, <1>2, <1>3, <1>4, <1>5 DEF IInv

\* Time only ends leases and only moves ahead of the calls' readings.
LEMMA TickKeeps ==
  ASSUME IInv, Tick
  PROVE  IInv'
<1>1. TypeOK'
  <2>1. clock' \in Nat
    BY DEF IInv, Tick, TypeOK
  <2> QED BY <2>1 DEF IInv, Tick, TypeOK
<1>2. LockHeld' /\ ReadingsArePast' /\ LeasedIsGranted' /\ CheckedLaneStaysFree'
  BY <1>1 DEF IInv, Tick, LockHeld, ReadingsArePast, LeasedIsGranted,
     CheckedLaneStaysFree, LiveAt, TypeOK
<1>3. LiveGrantInSlot' /\ OneHolderPerLane'
  <2>1. ASSUME NEW r \in Quote, LiveGrant(r)' PROVE LiveGrant(r)
    <3>1. r \in held /\ got[r].expires_at > clock + 1 /\ got[r] \in Granted
      BY <2>1 DEF IInv, Tick, LiveGrant, LeasedIsGranted
    <3> QED BY <3>1 DEF IInv, LiveGrant, TypeOK
  <2> QED BY <2>1 DEF IInv, Tick, LiveGrantInSlot, OneHolderPerLane
<1>4. SlotWasGranted'
  BY <1>1 DEF IInv, Tick, SlotWasGranted, TypeOK
<1>5. PassedIsBlocked'
  BY <1>1 DEF IInv, Tick, PassedIsBlocked, Blocked, TypeOK
<1> QED BY <1>1, <1>2, <1>3, <1>4, <1>5 DEF IInv

\* A restart leaves no lock, no call and no standing lease.
LEMMA RestartKeeps ==
  ASSUME IInv, Restart
  PROVE  IInv'
<1>1. TypeOK'
  BY DEF IInv, Restart, TypeOK
<1>2. LockHeld' /\ ReadingsArePast' /\ LeasedIsGranted' /\ CheckedLaneStaysFree'
  BY <1>1 DEF IInv, Restart, LockHeld, ReadingsArePast, LeasedIsGranted,
     CheckedLaneStaysFree, LiveAt, TypeOK
<1>3. LiveGrantInSlot' /\ OneHolderPerLane'
  BY <1>1 DEF IInv, Restart, LiveGrantInSlot, OneHolderPerLane, LiveGrant, LeasedIsGranted, TypeOK
<1>4. SlotWasGranted'
  BY <1>1 DEF IInv, Restart, SlotWasGranted, TypeOK
<1>5. PassedIsBlocked'
  <2>1. ASSUME NEW r \in Quote, NEW l \in Lane, l < at'[r]
        PROVE  \E p \in Quote : Blocked(r, l, p)'
    <3>1. PICK p \in Quote : Blocked(r, l, p)
      BY <2>1 DEF IInv, Restart, PassedIsBlocked
    <3> QED BY <3>1 DEF IInv, Restart, Blocked, InFlight, TypeOK
  <2> QED BY <2>1 DEF IInv, Restart, PassedIsBlocked, TypeOK
<1> QED BY <1>1, <1>2, <1>3, <1>4, <1>5 DEF IInv

\* Nothing changes, nothing breaks.
LEMMA StutterKeeps ==
  ASSUME IInv, UNCHANGED vars
  PROVE  IInv'
<1>1. TypeOK' /\ LockHeld' /\ ReadingsArePast' /\ LeasedIsGranted' /\ CheckedLaneStaysFree'
  BY DEF vars, IInv, TypeOK, LockHeld, ReadingsArePast, LeasedIsGranted, CheckedLaneStaysFree, LiveAt
<1>2. LiveGrantInSlot' /\ OneHolderPerLane'
  BY DEF vars, IInv, LiveGrantInSlot, OneHolderPerLane, LiveGrant
<1>3. SlotWasGranted' /\ PassedIsBlocked'
  BY DEF vars, IInv, SlotWasGranted, PassedIsBlocked, Blocked
<1> QED BY <1>1, <1>2, <1>3 DEF IInv

\* The invariant holds at the start.
LEMMA InitEstablishes == Init => IInv
BY DEF Init, IInv, TypeOK, LockHeld, ReadingsArePast, LeasedIsGranted, CheckedLaneStaysFree,
   LiveAt, LiveGrantInSlot, OneHolderPerLane, LiveGrant, SlotWasGranted, PassedIsBlocked, Blocked

\* Every step of the pool keeps the invariant.
LEMMA NextKeeps == IInv /\ [Next]_vars => IInv'
<1> SUFFICES ASSUME IInv, [Next]_vars PROVE IInv'
  OBVIOUS
<1>1. ASSUME NEW q \in Quote, LeaseCall(q) PROVE IInv'
  BY <1>1, StartLeaseKeeps, PassLaneKeeps, TakeLaneKeeps, ReadAccountKeeps,
     GrantLaneKeeps, ReadFailsKeeps, AllBusyKeeps, DropLeaseKeeps DEF LeaseCall
<1>2. ASSUME NEW q \in Quote, ReleaseCall(q) PROVE IInv'
  BY <1>2, StartReleaseKeeps, ReleaseLaneKeeps, ReleaseNothingKeeps, DropReleaseKeeps
     DEF ReleaseCall
<1>3. ASSUME NEW l \in Lane, Consume(l) PROVE IInv'
  BY <1>3, ConsumeKeeps
<1>4. CASE Tick BY <1>4, TickKeeps
<1>5. CASE Restart BY <1>5, RestartKeeps
<1>6. CASE UNCHANGED vars BY <1>6, StutterKeeps
<1> QED BY <1>1, <1>2, <1>3, <1>4, <1>5, <1>6 DEF Next

(***************************************************************************)
(* Every step keeps the inductive invariant.  OneHolderPerLane alone is    *)
(* not inductive: that a lane is granted only when it is free follows from *)
(* what the call found before its Horizon request (CheckedLaneStaysFree),  *)
(* which stays true because it still holds the lock (LockHeld).            *)
(***************************************************************************)
THEOREM InductiveInvariant == Spec => []IInv
BY InitEstablishes, NextKeeps, PTL DEF Spec

(* Every variable keeps its type. *)
THEOREM TypeCorrect == Spec => []TypeOK
<1>1. IInv => TypeOK
  BY DEF IInv
<1> QED BY <1>1, InductiveInvariant, PTL

(* However many quotes race for however many lanes, a lane is never handed  *)
(* out while an earlier lease on it stands: lease() of channels.rs.         *)
THEOREM NoDoubleHolder == Spec => []OneHolderPerLane
<1>1. IInv => OneHolderPerLane
  BY DEF IInv
<1> QED BY <1>1, InductiveInvariant, PTL

(* The answer of the check survives the Horizon request made under the lock. *)
THEOREM CheckSurvivesAwait == Spec => []CheckedLaneStaysFree
<1>1. IInv => CheckedLaneStaysFree
  BY DEF IInv
<1> QED BY <1>1, InductiveInvariant, PTL

(* bootstrap_busy is answered only if every lane was leased past the moment  *)
(* the call began, by a quote other than the caller's own.                   *)
THEOREM BusyIsHonest == Spec => []BusyMeansLeased
<1>1. IInv => BusyMeansLeased
  <2> SUFFICES ASSUME IInv, NEW q \in Quote, pc[q] = "busy", NEW l \in Lane
               PROVE  \E p \in Quote \ {q} :
                         got[p] # NoLease /\ got[p].lane = l /\ got[p].expires_at > now[q]
    BY DEF BusyMeansLeased
  <2>1. PICK p \in Quote : Blocked(q, l, p)
    BY DEF IInv, PassedIsBlocked
  <2>2. p # q /\ got[p] \in Granted
    BY <2>1 DEF IInv, Blocked, LeasedIsGranted
  <2> QED BY <2>1, <2>2 DEF Blocked
<1> QED BY <1>1, InductiveInvariant, PTL

(***************************************************************************)
(* The pool implements the atomic leases of LaneLease: seen from outside,  *)
(* only GrantLane, ReleaseLane and Restart change a lease, and each does   *)
(* what the abstract action allows.                                        *)
(***************************************************************************)
LEMMA StepImplements ==
  ASSUME IInv, [Next]_vars
  PROVE  [Leases!LeaseNext]_(Leases!leaseVars)
<1>1. ASSUME NEW q \in Quote, GrantLane(q) PROVE Leases!LeaseNext
  <2> DEFINE l == at[q]
             s == read[q] + 1
             e == now[q] + Ttl
  <2>1. /\ l \in Lane /\ s \in 1 .. chain[l] + 1 /\ e \in Ttl .. clock + Ttl
        /\ now[q] \in Nat /\ clock \in Nat /\ now[q] <= clock
    BY <1>1 DEF IInv, GrantLane, LockHeld, ReadingsArePast, TypeOK
  <2>2. ~Leases!LiveAt(slot[l], clock)
    <3>1. ~LiveAt(slot[l], now[q]) /\ slot[l] \in Lease \cup {NoLease}
      BY <1>1, <2>1 DEF IInv, GrantLane, CheckedLaneStaysFree, TypeOK
    <3> QED BY <2>1, <3>1 DEF LiveAt, Leases!LiveAt
  <2>3. Leases!Grant(l, s, e)
    BY <1>1, <2>1, <2>2 DEF GrantLane, NextSequence, Leases!Grant
  <2> QED BY <2>1, <2>3 DEF Leases!LeaseNext
<1>2. ASSUME NEW q \in Quote, ReleaseLane(q) PROVE Leases!LeaseNext
  <2>1. got[q].lane \in Lane
    BY <1>2 DEF IInv, ReleaseLane, LeasedIsGranted
  <2>2. slot[got[q].lane] # NoLease
        /\ Leases!Release(got[q].lane, slot[got[q].lane].sequence)
    BY <1>2 DEF ReleaseLane, Matches, Leases!Release
  <2> QED BY <2>1, <2>2 DEF Leases!LeaseNext
<1>3. ASSUME NEW q \in Quote, LeaseCall(q), ~GrantLane(q)
      PROVE  UNCHANGED Leases!leaseVars
  BY <1>3 DEF LeaseCall, StartLease, PassLane, TakeLane, ReadAccount, ReadFails, AllBusy,
     DropLease, Leases!leaseVars
<1>4. ASSUME NEW q \in Quote, ReleaseCall(q), ~ReleaseLane(q)
      PROVE  UNCHANGED Leases!leaseVars
  BY <1>4 DEF ReleaseCall, StartRelease, ReleaseNothing, DropRelease, Leases!leaseVars
<1>5. ASSUME NEW l \in Lane, Consume(l) PROVE Leases!LeaseNext
  BY <1>5 DEF Consume, Leases!Consume, Leases!LeaseNext
<1>6. CASE Tick
  BY <1>6 DEF Tick, Leases!Tick, Leases!LeaseNext
<1>7. CASE Restart
  BY <1>7 DEF Restart, Leases!Forget, Leases!LeaseNext
<1>8. CASE UNCHANGED vars
  BY <1>8 DEF vars, Leases!leaseVars
<1> QED BY <1>1, <1>2, <1>3, <1>4, <1>5, <1>6, <1>7, <1>8 DEF Next

(* A caller of the pool may rely on LaneLease and forget the locks.          *)
THEOREM PoolImplementsLaneLease == Spec => ImplementsLaneLease
<1>1. Init => Leases!LeaseInit
  BY DEF Init, Leases!LeaseInit
<1> QED
  BY <1>1, StepImplements, InductiveInvariant, PTL
  DEF Spec, ImplementsLaneLease, Leases!LeaseSpec

\* LaneLease keeps its types and its promise that leases end.
LEMMA AtomicLeasesEnd == Leases!LeaseSpec => [](Leases!LeaseTypeOK /\ Leases!LeaseEnds)
<1> USE DEF Leases!LeaseTypeOK, Leases!LeaseEnds, Leases!Lease
<1>1. Leases!LeaseInit => Leases!LeaseTypeOK /\ Leases!LeaseEnds
  BY DEF Leases!LeaseInit
<1>2. ASSUME Leases!LeaseTypeOK, Leases!LeaseEnds, [Leases!LeaseNext]_(Leases!leaseVars)
      PROVE  Leases!LeaseTypeOK' /\ Leases!LeaseEnds'
  <2> USE <1>2
  <2>1. CASE Leases!Tick
    BY <2>1 DEF Leases!Tick
  <2>2. CASE Leases!Forget
    BY <2>2 DEF Leases!Forget
  <2>3. ASSUME NEW l \in Lane, Leases!Consume(l) PROVE Leases!LeaseTypeOK' /\ Leases!LeaseEnds'
    BY <2>3 DEF Leases!Consume
  <2>4. ASSUME NEW l \in Lane, NEW n \in 1 .. chain[l] + 1, NEW e \in Ttl .. clock + Ttl,
               Leases!Grant(l, n, e)
        PROVE  Leases!LeaseTypeOK' /\ Leases!LeaseEnds'
    <3>1. n \in Nat /\ e \in Nat /\ n <= chain[l] + 1 /\ e <= clock + Ttl
      OBVIOUS
    <3> QED BY <2>4, <3>1 DEF Leases!Grant
  <2>5. ASSUME NEW l \in Lane, Leases!Release(l, slot[l].sequence)
        PROVE  Leases!LeaseTypeOK' /\ Leases!LeaseEnds'
    BY <2>5 DEF Leases!Release
  <2>6. CASE UNCHANGED Leases!leaseVars
    BY <2>6 DEF Leases!leaseVars
  <2> QED BY <2>1, <2>2, <2>3, <2>4, <2>5, <2>6 DEF Leases!LeaseNext
<1> QED BY <1>1, <1>2, PTL DEF Leases!LeaseSpec

\* However calls are dropped between two awaits, and whatever they have read:
\* a lane comes back within one lease, with no release at all ("an expired lease is
\* treated as free", channels.rs:72).
THEOREM SlotsComeBack == Spec => []Leases!LeaseEnds
BY PoolImplementsLaneLease, AtomicLeasesEnd, PTL DEF ImplementsLaneLease
=============================================================================
