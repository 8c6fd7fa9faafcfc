--------------------------- MODULE BootstrapProofs ---------------------------
(***************************************************************************)
(* Proofs about Bootstrap, for any lanes, quotes, submits, deadlines and   *)
(* bounds.                                                                 *)
(*                                                                         *)
(* What is wanted speaks of leases, quotes and submits at once; IInv adds  *)
(* what ties them: the lease on a lane is what the latest quote given the  *)
(* lane says (OwnerSays), a submit carries a sealed quote, and it is on    *)
(* its way to the next look only with what the last one saw (Checked).     *)
(***************************************************************************)
EXTENDS Bootstrap, TLAPS

-----------------------------------------------------------------------------
(* The inductive invariant *)

SealedSays == \A q \in Quote : Sealed(q) => doc[q] \in Doc

\* A submit has a sealed quote from its start on, and before it nothing.
Carried ==
    \A s \in Submit :
        /\ spc[s] # "new" => of[s] \in Quote /\ Sealed(of[s])
        /\ spc[s] = "new" => answer[s] = "none" /\ net[s] = "unsent"

\* A lease is the one its lane's latest quote was given.
OwnerSays ==
    \A l \in Lane : lease[l] # NoLease =>
        /\ owner[l] \in Quote /\ Sealed(owner[l])
        /\ doc[owner[l]].lane = l
        /\ doc[owner[l]].sequence = lease[l].sequence
        /\ doc[owner[l]].lease_until = lease[l].expires_at

\* Only what ends a quote brings a submit to the release; a wrong signature is
\* found on a quote that is in time.
AnswersFollow ==
    \A s \in Submit :
        /\ spc[s] = "release" => answer[s] \in LaneUseless
        /\ answer[s] = "mismatch" => ~Expired(s)

\* Balances do not come back: one that is there at the check was there before.
Checked ==
    \A s \in Submit :
        /\ spc[s] = "claims" /\ of[s] \in open => s \in hopeful
        /\ spc[s] \in {"path", "float"} => s \in hopeful
        /\ spc[s] = "float" => ~Expired(s)

IInv ==
    /\ TypeOK
    /\ SealedSays
    /\ Carried
    /\ OwnerSays
    /\ AnswersFollow
    /\ Checked
    /\ SpentLaneFreed
    /\ LaneKept
    /\ NoHopelessTransaction

-----------------------------------------------------------------------------
(* The pool's own facts *)

\* What a step of the pool can do to the leases keeps them leases.
LEMMA LeaseStepTyped ==
  ASSUME LeaseTypeOK, [LeaseNext]_leaseVars PROVE LeaseTypeOK'
<1> USE DEF LeaseTypeOK
<1>1. CASE Tick
  BY <1>1 DEF Tick
<1>2. CASE Forget
  BY <1>2 DEF Forget
<1>3. ASSUME NEW l \in Lane, Consume(l) PROVE LeaseTypeOK'
  BY <1>3 DEF Consume
<1>4. ASSUME NEW l \in Lane, NEW n \in 1 .. chain[l] + 1, NEW e \in Ttl .. clock + Ttl, Grant(l, n, e)
      PROVE  LeaseTypeOK'
  <2>1. n \in Nat /\ e \in Nat
    BY TtlAssumption
  <2> QED BY <1>4, <2>1 DEF Grant, Lease
<1>5. ASSUME NEW l \in Lane, Release(l, lease[l].sequence) PROVE LeaseTypeOK'
  BY <1>5 DEF Release
<1>6. CASE UNCHANGED leaseVars
  BY <1>6 DEF leaseVars
<1> QED BY <1>1, <1>2, <1>3, <1>4, <1>5, <1>6 DEF LeaseNext

\* Type correctness of the pool.
THEOREM PoolTyped == LeaseSpec => []LeaseTypeOK
<1>1. LeaseInit => LeaseTypeOK
  BY DEF LeaseInit, LeaseTypeOK
<1>2. LeaseTypeOK /\ [LeaseNext]_leaseVars => LeaseTypeOK'
  BY LeaseStepTyped
<1> QED BY <1>1, <1>2, PTL DEF LeaseSpec

\* Leases end, whatever the pool is asked for.
LEMMA LeasesEnd == LeaseSpec => []LeaseEnds
<1>1. LeaseInit => LeaseEnds
  BY DEF LeaseInit, LeaseEnds
<1>2. ASSUME LeaseTypeOK, LeaseEnds, [LeaseNext]_leaseVars PROVE LeaseEnds'
  <2> USE <1>2 DEF LeaseTypeOK, LeaseEnds, Lease
  <2>1. CASE Tick
    BY <2>1, TtlAssumption DEF Tick
  <2>2. CASE Forget
    BY <2>2 DEF Forget
  <2>3. ASSUME NEW l \in Lane, Consume(l) PROVE LeaseEnds'
    BY <2>3 DEF Consume
  <2>4. ASSUME NEW l \in Lane, NEW n \in 1 .. chain[l] + 1, NEW e \in Ttl .. clock + Ttl, Grant(l, n, e)
        PROVE  LeaseEnds'
    BY <2>4, TtlAssumption DEF Grant
  <2>5. ASSUME NEW l \in Lane, Release(l, lease[l].sequence) PROVE LeaseEnds'
    BY <2>5 DEF Release
  <2>6. CASE UNCHANGED leaseVars
    BY <2>6 DEF leaseVars
  <2> QED BY <2>1, <2>2, <2>3, <2>4, <2>5, <2>6 DEF LeaseNext
<1> QED BY <1>1, <1>2, PoolTyped, PTL DEF LeaseSpec

-----------------------------------------------------------------------------
(* The requests *)

LEMMA InitInvariant == Init => IInv
<1> SUFFICES ASSUME Init PROVE IInv
  OBVIOUS
<1>1. TypeOK
  BY DEF Init, LeaseInit, TypeOK, LeaseTypeOK
<1>2. SealedSays /\ Carried /\ OwnerSays /\ AnswersFollow /\ Checked
  BY DEF Init, LeaseInit, SealedSays, Sealed, Carried, OwnerSays, AnswersFollow, Checked
<1>3. SpentLaneFreed /\ LaneKept /\ NoHopelessTransaction
  BY DEF Init, SpentLaneFreed, LaneKept, Sealed, NoHopelessTransaction
<1> QED BY <1>1, <1>2, <1>3 DEF IInv

\* A quote that is priced or refused says nothing yet that a lease or a submit
\* could depend on.
LEMMA UnsealedKeeps ==
  ASSUME IInv, NEW q \in Quote, PriceQuote(q) \/ RefuseQuote(q)
  PROVE  IInv'
<1>1. ~Sealed(q) /\ ~Sealed(q)'
  BY DEF IInv, TypeOK, PriceQuote, RefuseQuote, Sealed
<1>2. \A p \in Quote : Sealed(p)' <=> Sealed(p)
  BY <1>1 DEF IInv, TypeOK, PriceQuote, RefuseQuote, Sealed
<1>3. \A p \in Quote : Sealed(p) => doc'[p] = doc[p]
  BY <1>1 DEF IInv, TypeOK, PriceQuote, RefuseQuote
<1>4. UNCHANGED <<leaseVars, submitVars, net, ledger, historyVars, open>>
  BY DEF PriceQuote, RefuseQuote
<1>5. TypeOK'
  <2>1. qpc' \in [Quote -> {"new", "priced", "sealed", "refused"}]
    BY DEF IInv, TypeOK, PriceQuote, RefuseQuote
  <2>2. ExpiryLedger \in Nat
    BY BoundsAssumption DEF IInv, TypeOK, ExpiryLedger
  <2>3. doc' \in [Quote -> Doc \cup [expires_at_ledger : Nat]]
    BY <2>2 DEF IInv, TypeOK, PriceQuote, RefuseQuote
  <2> QED BY <1>4, <2>1, <2>3
          DEF IInv, TypeOK, LeaseTypeOK, leaseVars, submitVars, historyVars
<1>6. SealedSays'
  BY <1>2, <1>3 DEF IInv, SealedSays
<1>7. Carried'
  BY <1>2, <1>4 DEF IInv, Carried, submitVars
<1>8. OwnerSays'
  BY <1>2, <1>3, <1>4 DEF IInv, OwnerSays, leaseVars, historyVars
<1>9. \A s \in Submit : spc[s] # "new" => doc'[of'[s]] = doc[of[s]] /\ (Expired(s)' <=> Expired(s))
  BY <1>3, <1>4 DEF IInv, Carried, Expired, submitVars
<1>10. AnswersFollow' /\ Checked'
  BY <1>4, <1>9 DEF IInv, Carried, AnswersFollow, Checked, submitVars, historyVars
<1>11. SpentLaneFreed'
  BY <1>4, <1>9 DEF IInv, SpentLaneFreed, Holds, submitVars, leaseVars, historyVars
<1>12. LaneKept'
  BY <1>2, <1>3, <1>4, <1>7
     DEF IInv, Carried, LaneKept, Holds, SameNumber, submitVars, leaseVars, historyVars
<1>13. NoHopelessTransaction'
  BY <1>4, <1>9 DEF IInv, Carried, NoHopelessTransaction, submitVars, historyVars
<1> QED BY <1>5, <1>6, <1>7, <1>8, <1>10, <1>11, <1>12, <1>13 DEF IInv

\* A lane is granted, so nobody's lease on it still ran: whoever was counting on
\* the lane until now no longer may, and every other lane is as it was.
LEMMA SealKeeps ==
  ASSUME IInv, NEW q \in Quote, SealQuote(q)
  PROVE  IInv'
<1> DEFINE Sealing(l, n, e) ==
             /\ Grant(l, n, e)
             /\ doc' = [doc EXCEPT ![q] =
                    [lane |-> l, sequence |-> n, lease_until |-> e, max_time |-> clock + Ttl,
                     expires_at_ledger |-> @.expires_at_ledger]]
             /\ owner' = [owner EXCEPT ![l] = q]
<1>0. PICK l \in Lane : \E n \in 1 .. chain[l] + 1, e \in Ttl .. clock + Ttl : Sealing(l, n, e)
  BY DEF SealQuote
<1>1. PICK n \in 1 .. chain[l] + 1, e \in Ttl .. clock + Ttl : Sealing(l, n, e)
  BY <1>0
<1>2. /\ ~Sealed(q) /\ qpc' = [qpc EXCEPT ![q] = "sealed"]
      /\ UNCHANGED <<ledger, open, submitVars, net, forgotten, hopeful, clock, chain>>
      /\ lease' = [lease EXCEPT ![l] = [sequence |-> n, expires_at |-> e]]
      /\ lease[l] # NoLease => lease[l].expires_at <= clock
  <2>1. lease[l] # NoLease => lease[l].expires_at \in Nat /\ clock \in Nat
    BY DEF IInv, TypeOK, LeaseTypeOK, Lease
  <2>2. qpc[q] = "priced" /\ qpc' = [qpc EXCEPT ![q] = "sealed"]
    BY DEF SealQuote
  <2>3. UNCHANGED <<ledger, open, submitVars, net, forgotten, hopeful>>
    BY DEF SealQuote
  <2>4. Grant(l, n, e)
    BY <1>1
  <2> QED BY <2>1, <2>2, <2>3, <2>4 DEF Sealed, Grant, LiveAt
<1>3. n \in Nat /\ e \in Nat /\ clock + Ttl \in Nat
  BY TtlAssumption DEF IInv, TypeOK, LeaseTypeOK
<1>4. doc'[q] \in Doc /\ doc'[q].lane = l /\ doc'[q].sequence = n /\ doc'[q].lease_until = e
  <2>1. doc[q].expires_at_ledger \in Nat
    BY DEF IInv, TypeOK, Doc
  <2> QED BY <1>1, <1>3, <2>1 DEF IInv, TypeOK, Doc
<1>5. \A p \in Quote : p # q => doc'[p] = doc[p] /\ (Sealed(p)' <=> Sealed(p))
  BY <1>1, <1>2 DEF IInv, TypeOK, Sealed
<1>6. \A p \in Quote : Sealed(p) => p # q
  BY <1>2
<1>7. /\ lease'[l] = [sequence |-> n, expires_at |-> e] /\ owner'[l] = q
      /\ \A m \in Lane : m # l => lease'[m] = lease[m] /\ owner'[m] = owner[m]
  BY <1>1, <1>2 DEF IInv, TypeOK, LeaseTypeOK
<1>8. lease'[l] # NoLease
  BY <1>3, <1>7, NoLeaseAssumption DEF Lease
<1>9. TypeOK'
  <2>1. lease' \in [Lane -> Lease \cup {NoLease}]
    BY <1>2, <1>3 DEF IInv, TypeOK, LeaseTypeOK, Lease
  <2>2. doc' \in [Quote -> Doc \cup [expires_at_ledger : Nat]]
    BY <1>1, <1>4 DEF IInv, TypeOK
  <2>3. owner' \in [Lane -> Quote \cup {NoQuote}]
    BY <1>1 DEF IInv, TypeOK
  <2>4. qpc' \in [Quote -> {"new", "priced", "sealed", "refused"}]
    BY <1>2 DEF IInv, TypeOK
  <2> QED BY <1>2, <2>1, <2>2, <2>3, <2>4 DEF IInv, TypeOK, LeaseTypeOK, submitVars
<1>10. Sealed(q)'
  BY <1>2 DEF IInv, TypeOK, Sealed
<1>11. SealedSays'
  BY <1>4, <1>5 DEF IInv, SealedSays
<1>12. Carried'
  BY <1>2, <1>5, <1>6 DEF IInv, Carried, submitVars
<1>13. OwnerSays'
  <2> SUFFICES ASSUME NEW m \in Lane, lease'[m] # NoLease
               PROVE  /\ owner'[m] \in Quote /\ Sealed(owner[m])'
                      /\ doc'[owner'[m]].lane = m
                      /\ doc'[owner'[m]].sequence = lease'[m].sequence
                      /\ doc'[owner'[m]].lease_until = lease'[m].expires_at
    BY DEF OwnerSays
  <2>1. CASE m = l
    BY <1>4, <1>7, <1>10, <2>1
  <2>2. CASE m # l
    BY <1>5, <1>6, <1>7, <2>2 DEF IInv, OwnerSays
  <2> QED BY <2>1, <2>2
<1>14. \A s \in Submit : spc[s] # "new" =>
           of[s] # q /\ doc'[of'[s]] = doc[of[s]] /\ (Expired(s)' <=> Expired(s))
  BY <1>2, <1>5, <1>6 DEF IInv, Carried, Expired, submitVars
<1>15. AnswersFollow' /\ Checked'
  BY <1>2, <1>14 DEF IInv, Carried, AnswersFollow, Checked, submitVars
<1>16. NoHopelessTransaction'
  BY <1>2, <1>14 DEF IInv, Carried, NoHopelessTransaction, submitVars
<1>17. ASSUME NEW p \in Quote, Sealed(p)
       PROVE  /\ Holds(p)' => Holds(p)
              /\ doc[p].lease_until > clock /\ Holds(p) => Holds(p)'
  <2>1. p # q /\ doc'[p] = doc[p] /\ doc[p].lane \in Lane
    BY <1>5, <1>6, <1>17 DEF IInv, SealedSays, Doc
  <2>2. CASE doc[p].lane # l
    BY <1>7, <2>1, <2>2 DEF Holds
  <2>3. CASE doc[p].lane = l
    <3>1. ~Holds(p)'
      BY <1>7, <2>1, <2>3 DEF Holds
    <3>2. Holds(p) => doc[p].lease_until = lease[l].expires_at /\ lease[l] # NoLease
      BY <2>3 DEF IInv, OwnerSays, Holds
    <3>3. clock \in Nat /\ doc[p].lease_until \in Nat
      BY <1>17 DEF IInv, TypeOK, LeaseTypeOK, SealedSays, Doc
    <3> QED BY <1>2, <3>1, <3>2, <3>3
  <2> QED BY <2>2, <2>3
<1>18. SpentLaneFreed'
  <2> SUFFICES ASSUME NEW s \in Submit, spc'[s] = "done",
                      answer'[s] \in LaneUseless \/ (answer'[s] = "mismatch" /\ Expired(s)')
               PROVE  ~Holds(of[s])'
    BY DEF SpentLaneFreed
  <2>1. of[s] \in Quote /\ Sealed(of[s]) /\ of'[s] = of[s] /\ ~Holds(of[s])
    BY <1>2, <1>14 DEF IInv, Carried, SpentLaneFreed, submitVars
  <2> QED BY <1>17, <2>1
<1>19. LaneKept'
  <2> SUFFICES ASSUME NEW p \in Quote, Sealed(p)', p \notin forgotten', doc'[p].lease_until > clock'
               PROVE  \/ Holds(p)'
                      \/ \E s \in Submit : /\ spc'[s] = "done" /\ answer'[s] \in LaneUseless
                                           /\ SameNumber(of[s], p)'
    BY DEF LaneKept
  <2>1. CASE p = q
    BY <1>4, <1>7, <1>8, <2>1 DEF Holds
  <2>2. CASE p # q
    <3>1. Sealed(p) /\ p \notin forgotten /\ doc[p].lease_until > clock /\ doc'[p] = doc[p]
      BY <1>2, <1>5, <2>2
    <3>2. CASE Holds(p)
      BY <1>17, <3>1, <3>2
    <3>3. CASE ~Holds(p)
      <4>1. PICK s \in Submit : /\ spc[s] = "done" /\ answer[s] \in LaneUseless
                                /\ SameNumber(of[s], p)
        BY <3>1, <3>3 DEF IInv, LaneKept
      <4> QED BY <1>2, <1>14, <3>1, <4>1 DEF SameNumber, submitVars
    <3> QED BY <3>2, <3>3
  <2> QED BY <2>1, <2>2
<1> QED BY <1>9, <1>11, <1>12, <1>13, <1>15, <1>16, <1>18, <1>19 DEF IInv

\* A submit goes on to its next step, or ends, with its quote, the leases and
\* the balances left alone: what it may do next is what the last look allows.
LEMMA HandlerKeeps ==
  ASSUME IInv, NEW s \in Submit, spc[s] \in InHandler,
         NEW step \in (InHandler \cup {"done", "dropped"}) \ {"claims"},
         NEW a \in {"none", "submitted", "horizon"} \cup Refusals,
         spc' = [spc EXCEPT ![s] = step],
         answer' = [answer EXCEPT ![s] = a],
         net' = net \/ (spc[s] = "float" /\ net' = [net EXCEPT ![s] = "pending"]),
         UNCHANGED <<leaseVars, ledger, open, qpc, doc, request, historyVars>>,
         step = "release" => a \in LaneUseless,
         step = "done" => a \notin LaneUseless,
         a = "mismatch" => ~Expired(s),
         step \in {"path", "float"} => s \in hopeful,
         step = "float" => ~Expired(s)
  PROVE  IInv'
<1> USE DEF leaseVars, request, historyVars
<1>1. TypeOK'
  <2>1. /\ spc' \in [Submit -> {"new", "done", "dropped"} \cup InHandler]
        /\ answer' \in [Submit -> {"none", "submitted", "horizon"} \cup Refusals]
        /\ net' \in [Submit -> {"unsent", "pending", "applied", "failed", "rejected"}]
    BY DEF IInv, TypeOK
  <2> QED BY <2>1 DEF IInv, TypeOK, LeaseTypeOK
<1>2. /\ spc'[s] = step /\ answer'[s] = a
      /\ \A t \in Submit : t # s => spc'[t] = spc[t] /\ answer'[t] = answer[t] /\ net'[t] = net[t]
  BY DEF IInv, TypeOK
<1>3. \A t \in Submit : Expired(t)' <=> Expired(t)
  BY DEF Expired
<1>4. \A q \in Quote : (Sealed(q)' <=> Sealed(q))
  BY DEF Sealed
<1>5. \A q : (Holds(q)' <=> Holds(q))
  BY DEF Holds
<1>6. SealedSays'
  BY <1>4 DEF IInv, SealedSays
<1>7. OwnerSays'
  BY <1>4 DEF IInv, OwnerSays
<1>8. step # "new" /\ spc[s] # "new" /\ step # "claims"
  BY DEF InHandler
<1>9. Carried'
  BY <1>2, <1>4, <1>8 DEF IInv, Carried
<1>10. AnswersFollow'
  BY <1>2, <1>3 DEF IInv, AnswersFollow
<1>11. Checked'
  BY <1>2, <1>3, <1>8 DEF IInv, Checked
<1>12. SpentLaneFreed'
  BY <1>2, <1>3, <1>5 DEF IInv, SpentLaneFreed
<1>13. LaneKept'
  <2>1. \A t \in Submit : spc[t] = "done" => t # s
    BY DEF InHandler
  <2> QED BY <1>2, <1>4, <1>5, <2>1 DEF IInv, LaneKept, SameNumber
<1>14. NoHopelessTransaction'
  <2> SUFFICES ASSUME NEW t \in Submit, net'[t] # "unsent"
               PROVE  t \in hopeful /\ seen[t] <= doc[of[t]].expires_at_ledger
    BY DEF NoHopelessTransaction
  <2>1. CASE net[t] # "unsent"
    BY <2>1 DEF IInv, NoHopelessTransaction
  <2>2. CASE net[t] = "unsent"
    <3>1. t = s /\ spc[s] = "float"
      BY <1>2, <2>2
    <3>2. s \in hopeful /\ ~Expired(s) /\ of[s] \in Quote
      BY <3>1 DEF IInv, Checked, Carried
    <3>3. seen[s] \in Nat /\ doc[of[s]].expires_at_ledger \in Nat
      BY <3>2 DEF IInv, TypeOK, Doc
    <3> QED BY <3>1, <3>2, <3>3 DEF Expired
  <2> QED BY <2>1, <2>2
<1> QED BY <1>1, <1>6, <1>7, <1>9, <1>10, <1>11, <1>12, <1>13, <1>14 DEF IInv

\* The steps of submit() between the opening of the quote and the release.
LEMMA HandlerStepKeeps ==
  ASSUME IInv, NEW s \in Submit,
         \/ CheckClaims(s) \/ CheckPathAndXdr(s) \/ CheckFloatAndSend(s)
         \/ Answer(s) \/ FailSubmit(s) \/ DropSubmit(s)
  PROVE  IInv'
<1> USE DEF Goto, request, historyVars
<1>1. ASSUME NEW step, Continue(s, step)
      PROVE  spc' = [spc EXCEPT ![s] = step] /\ answer' = [answer EXCEPT ![s] = answer[s]]
  BY <1>1 DEF Continue, IInv, TypeOK
<1>2. ASSUME NEW a \in Refusals \cup {"horizon"}, Refuse(s, a)
      PROVE  /\ answer' = [answer EXCEPT ![s] = a]
             /\ \E step \in {"release", "done"} :
                   /\ spc' = [spc EXCEPT ![s] = step]
                   /\ step = "release" => a \in LaneUseless
                   /\ step = "done" => a \notin LaneUseless
  BY <1>2 DEF Refuse, LaneSpent, LaneUseless, Refusals
<1>3. /\ answer[s] \in {"none", "submitted", "horizon"} \cup Refusals
      /\ answer[s] = "mismatch" => ~Expired(s)
  BY DEF IInv, TypeOK, AnswersFollow
<1>4. CASE CheckClaims(s)
  <2>1. CASE ClaimsHold(s)
    <3>1. s \in hopeful
      BY <1>4, <2>1 DEF CheckClaims, ClaimsHold, IInv, Checked
    <3>2. Continue(s, "path")
      BY <1>4, <2>1 DEF CheckClaims
    <3> QED BY <1>1, <1>3, <1>4, <3>1, <3>2, HandlerKeeps DEF CheckClaims, InHandler
  <2>2. CASE ~ClaimsHold(s)
    <3>1. Refuse(s, "unclaimable")
      BY <1>4, <2>2 DEF CheckClaims
    <3> QED BY <1>2, <1>4, <3>1, HandlerKeeps DEF CheckClaims, InHandler, Refusals
  <2> QED BY <2>1, <2>2
<1>5. CASE CheckPathAndXdr(s)
  <2>1. CASE Refuse(s, "path_moved")
    BY <1>2, <1>5, <2>1, HandlerKeeps DEF CheckPathAndXdr, InHandler, Refusals
  <2>2. CASE Expired(s) /\ Refuse(s, "quote_expired")
    BY <1>2, <1>5, <2>2, HandlerKeeps DEF CheckPathAndXdr, InHandler, Refusals
  <2>3. CASE ~Expired(s) /\ Refuse(s, "mismatch")
    BY <1>2, <1>5, <2>3, HandlerKeeps DEF CheckPathAndXdr, InHandler, Refusals
  <2>4. CASE ~Expired(s) /\ Continue(s, "float")
    <3>1. s \in hopeful
      BY <1>5 DEF CheckPathAndXdr, IInv, Checked
    <3> QED BY <1>1, <1>3, <1>5, <2>4, <3>1, HandlerKeeps DEF CheckPathAndXdr, InHandler
  <2>5. CheckSignedInner(s) =>
            \/ Expired(s) /\ Refuse(s, "quote_expired")
            \/ ~Expired(s) /\ Refuse(s, "mismatch")
            \/ ~Expired(s) /\ Continue(s, "float")
    BY DEF CheckSignedInner
  <2> QED BY <1>5, <2>1, <2>2, <2>3, <2>4, <2>5 DEF CheckPathAndXdr
<1>6. CASE CheckFloatAndSend(s)
  <2>1. CASE Refuse(s, "sponsor_float") /\ UNCHANGED net
    BY <1>2, <1>6, <2>1, HandlerKeeps DEF CheckFloatAndSend, InHandler, Refusals
  <2>2. CASE Continue(s, "sent") /\ net' = [net EXCEPT ![s] = "pending"]
    <3>1. /\ spc[s] = "float"
          /\ UNCHANGED <<leaseVars, ledger, open, qpc, doc, request, historyVars>>
      BY <1>6 DEF CheckFloatAndSend
    <3>2. spc' = [spc EXCEPT ![s] = "sent"] /\ answer' = [answer EXCEPT ![s] = answer[s]]
      BY <1>1, <2>2
    <3>3. /\ spc[s] \in InHandler
          /\ "sent" \in (InHandler \cup {"done", "dropped"}) \ {"claims"}
      BY <3>1 DEF InHandler
    <3> HIDE DEF Goto, request, historyVars
    <3> QED BY <1>3, <2>2, <3>1, <3>2, <3>3, HandlerKeeps
  <2> QED BY <1>6, <2>1, <2>2 DEF CheckFloatAndSend
<1>7. CASE Answer(s)
  BY <1>7, HandlerKeeps DEF Answer, InHandler, LaneUseless
<1>8. CASE FailSubmit(s)
  BY <1>2, <1>8, HandlerKeeps DEF FailSubmit, InHandler
<1>9. CASE DropSubmit(s)
  BY <1>1, <1>3, <1>9, HandlerKeeps DEF DropSubmit, InHandler
<1> QED BY <1>4, <1>5, <1>6, <1>7, <1>8, <1>9

\* A submit arrives with a sealed quote.
LEMMA StartKeeps ==
  ASSUME IInv, NEW s \in Submit, NEW q \in Quote, StartSubmit(s, q)
  PROVE  IInv'
<1>1. /\ spc[s] = "new" /\ Sealed(q)
      /\ answer[s] = "none" /\ net[s] = "unsent"
  BY DEF StartSubmit, Sealed, IInv, Carried
<1>2. /\ spc' = [spc EXCEPT ![s] = "claims"] /\ of' = [of EXCEPT ![s] = q]
      /\ seen' = [seen EXCEPT ![s] = ledger]
      /\ hopeful' = IF q \in open THEN hopeful \cup {s} ELSE hopeful
      /\ UNCHANGED <<leaseVars, ledger, open, qpc, doc, answer, net, owner, forgotten>>
  BY DEF StartSubmit, Goto
<1>3. PICK m \in BOOLEAN : matches' = [matches EXCEPT ![s] = m]
  BY DEF StartSubmit
<1> USE DEF leaseVars
<1>4. TypeOK'
  <2>1. /\ spc' \in [Submit -> {"new", "done", "dropped"} \cup InHandler]
        /\ of' \in [Submit -> Quote \cup {NoQuote}] /\ seen' \in [Submit -> Nat]
    BY <1>2 DEF IInv, TypeOK, InHandler
  <2>2. matches' \in [Submit -> BOOLEAN] /\ hopeful' \in SUBSET Submit
    BY <1>2, <1>3 DEF IInv, TypeOK
  <2> QED BY <1>2, <2>1, <2>2 DEF IInv, TypeOK, LeaseTypeOK
<1>5. /\ spc'[s] = "claims" /\ of'[s] = q
      /\ \A t \in Submit : t # s => spc'[t] = spc[t] /\ of'[t] = of[t] /\ seen'[t] = seen[t]
  BY <1>2 DEF IInv, TypeOK
<1>6. \A t \in Submit : t # s => (Expired(t)' <=> Expired(t))
  BY <1>2, <1>5 DEF Expired
<1>7. (\A p \in Quote : Sealed(p)' <=> Sealed(p)) /\ (\A p : Holds(p)' <=> Holds(p))
  BY <1>2 DEF Sealed, Holds
<1>8. SealedSays' /\ OwnerSays'
  BY <1>2, <1>7 DEF IInv, SealedSays, OwnerSays
<1>9. Carried'
  BY <1>1, <1>2, <1>5, <1>7 DEF IInv, Carried
<1>10. AnswersFollow' /\ Checked'
  BY <1>1, <1>2, <1>5, <1>6 DEF IInv, AnswersFollow, Checked
<1>11. SpentLaneFreed'
  BY <1>2, <1>5, <1>6, <1>7 DEF IInv, SpentLaneFreed
<1>12. LaneKept'
  <2>1. \A t \in Submit : spc[t] = "done" => t # s
    BY <1>1
  <2> QED BY <1>2, <1>5, <1>7, <2>1 DEF IInv, LaneKept, SameNumber
<1>13. NoHopelessTransaction'
  BY <1>1, <1>2, <1>5 DEF IInv, NoHopelessTransaction
<1> QED BY <1>4, <1>8, <1>9, <1>10, <1>11, <1>12, <1>13 DEF IInv

\* The lane is given back.  If the lease on it is of this number, it goes, and
\* whoever had it has its number from a submit that ended; if it is not, the
\* quote has no lease any more.
LEMMA ReleaseKeeps ==
  ASSUME IInv, NEW s \in Submit, ReleaseBootstrap(s)
  PROVE  IInv'
<1> DEFINE d == doc[of[s]]
<1>1. /\ spc[s] = "release" /\ spc' = [spc EXCEPT ![s] = "done"]
      /\ UNCHANGED <<ledger, open, qpc, doc, of, matches, seen, answer, net,
                     owner, forgotten, hopeful>>
  BY DEF ReleaseBootstrap, Continue, Goto, request, historyVars
<1>2. /\ of[s] \in Quote /\ Sealed(of[s]) /\ d \in Doc /\ d.lane \in Lane
      /\ answer[s] \in LaneUseless
  BY <1>1 DEF IInv, Carried, SealedSays, AnswersFollow, Doc
<1>3. \/ /\ lease[d.lane] # NoLease /\ lease[d.lane].sequence = d.sequence
         /\ lease' = [lease EXCEPT ![d.lane] = NoLease]
         /\ UNCHANGED <<clock, chain>>
      \/ /\ lease[d.lane] = NoLease \/ lease[d.lane].sequence # d.sequence
         /\ UNCHANGED <<clock, chain, lease>>
  BY DEF ReleaseBootstrap, FreeLane, Release, leaseVars
<1> HIDE DEF d
<1>4. clock' = clock /\ chain' = chain
  BY <1>3
<1>5. \A l \in Lane : lease'[l] # NoLease => lease'[l] = lease[l]
  BY <1>2, <1>3 DEF IInv, TypeOK, LeaseTypeOK
<1>6. \A q \in Quote : Sealed(q) => doc[q].lane \in Lane
  BY DEF IInv, SealedSays, Doc
<1>7. TypeOK'
  <2>1. lease' \in [Lane -> Lease \cup {NoLease}]
    BY <1>2, <1>3 DEF IInv, TypeOK, LeaseTypeOK
  <2>2. spc' \in [Submit -> {"new", "done", "dropped"} \cup InHandler]
    BY <1>1 DEF IInv, TypeOK
  <2> QED BY <1>1, <1>4, <2>1, <2>2 DEF IInv, TypeOK, LeaseTypeOK
<1>8. spc'[s] = "done" /\ \A t \in Submit : t # s => spc'[t] = spc[t]
  BY <1>1 DEF IInv, TypeOK
<1>9. (\A t : Expired(t)' <=> Expired(t)) /\ (\A q \in Quote : Sealed(q)' <=> Sealed(q))
  BY <1>1 DEF Expired, Sealed
<1>10. \A q \in Quote : Sealed(q) /\ Holds(q)' => Holds(q)
  BY <1>1, <1>5, <1>6 DEF Holds
<1>11. ~Holds(of[s])'
  <2>1. CASE lease[d.lane] # NoLease /\ lease[d.lane].sequence = d.sequence
    <3>1. lease'[d.lane] = NoLease
      BY <1>2, <1>3, <2>1 DEF IInv, TypeOK, LeaseTypeOK
    <3> QED BY <1>1, <3>1 DEF Holds, d
  <2>2. CASE lease[d.lane] = NoLease
    <3>1. lease'[d.lane] = NoLease
      BY <1>2, <1>5, <2>2
    <3> QED BY <1>1, <3>1 DEF Holds, d
  <2>3. CASE lease[d.lane] # NoLease /\ lease[d.lane].sequence # d.sequence
    <3>1. owner[d.lane] # of[s]
      BY <1>2, <2>3 DEF IInv, OwnerSays, d
    <3> QED BY <1>1, <3>1 DEF Holds, d
  <2> QED BY <2>1, <2>2, <2>3
<1>12. SealedSays' /\ Carried'
  BY <1>1, <1>8, <1>9 DEF IInv, SealedSays, Carried
<1>13. OwnerSays'
  BY <1>1, <1>5, <1>9 DEF IInv, OwnerSays
<1>14. AnswersFollow' /\ Checked'
  BY <1>1, <1>8, <1>9 DEF IInv, AnswersFollow, Checked
<1>15. SpentLaneFreed'
  <2> SUFFICES ASSUME NEW t \in Submit, spc'[t] = "done",
                      answer[t] \in LaneUseless \/ (answer[t] = "mismatch" /\ Expired(t))
               PROVE  ~Holds(of[t])'
    BY <1>1, <1>9 DEF SpentLaneFreed
  <2>1. CASE t = s
    BY <1>11, <2>1
  <2>2. CASE t # s
    <3>1. spc[t] = "done" /\ of[t] \in Quote /\ Sealed(of[t]) /\ ~Holds(of[t])
      BY <1>8, <2>2 DEF IInv, SpentLaneFreed, Carried
    <3>2. of'[t] = of[t]
      BY <1>1
    <3> QED BY <1>10, <3>1, <3>2
  <2> QED BY <2>1, <2>2
<1>16. LaneKept'
  <2> SUFFICES ASSUME NEW q \in Quote, Sealed(q), q \notin forgotten, doc[q].lease_until > clock
               PROVE  \/ Holds(q)'
                      \/ \E t \in Submit : /\ spc'[t] = "done" /\ answer[t] \in LaneUseless
                                           /\ SameNumber(of[t], q)
    BY <1>1, <1>4, <1>9 DEF LaneKept, SameNumber
  <2>1. CASE Holds(q) /\ ~Holds(q)'
    <3>1. /\ doc[q].lane = d.lane /\ lease[d.lane] # NoLease
          /\ owner[d.lane] = q /\ lease[d.lane].sequence = d.sequence
      BY <1>1, <1>3, <1>6, <2>1 DEF Holds, IInv, TypeOK, LeaseTypeOK
    <3>2. SameNumber(of[s], q)
      BY <1>2, <3>1 DEF SameNumber, IInv, OwnerSays, d
    <3> QED BY <1>2, <1>8, <3>2
  <2>2. CASE ~Holds(q)
    <3>1. PICK t \in Submit : /\ spc[t] = "done" /\ answer[t] \in LaneUseless
                              /\ SameNumber(of[t], q)
      BY <2>2 DEF IInv, LaneKept
    <3> QED BY <1>8, <3>1
  <2> QED BY <2>1, <2>2
<1>17. NoHopelessTransaction'
  BY <1>1 DEF IInv, NoHopelessTransaction
<1> QED BY <1>7, <1>12, <1>13, <1>14, <1>15, <1>16, <1>17 DEF IInv

\* What happens outside the handlers: time passes, ledgers close, transactions
\* apply or are rejected, balances go.  None of it gives a lease, takes one
\* away or brings a balance back.
LEMMA OutsideKeeps ==
  ASSUME IInv, UNCHANGED <<lease, handlerVars, historyVars>>,
         clock' \in Nat, clock' >= clock, chain' \in [Lane -> Nat], ledger' \in Nat,
         open' \subseteq open,
         net' \in [Submit -> {"unsent", "pending", "applied", "failed", "rejected"}],
         \A s \in Submit : net'[s] = "unsent" <=> net[s] = "unsent"
  PROVE  IInv'
<1> USE DEF handlerVars, submitVars, historyVars
<1>1. TypeOK'
  BY DEF IInv, TypeOK, LeaseTypeOK
<1>2. SealedSays' /\ Carried' /\ OwnerSays'
  BY DEF IInv, SealedSays, Carried, OwnerSays, Sealed
<1>3. AnswersFollow' /\ Checked'
  BY DEF IInv, AnswersFollow, Checked, Expired
<1>4. SpentLaneFreed'
  BY DEF IInv, SpentLaneFreed, Holds, Expired
<1>5. LaneKept'
  <2> SUFFICES ASSUME NEW q \in Quote, Sealed(q), q \notin forgotten, doc[q].lease_until > clock'
               PROVE  \/ Holds(q)
                      \/ \E s \in Submit : /\ spc[s] = "done" /\ answer[s] \in LaneUseless
                                           /\ SameNumber(of[s], q)
    BY DEF LaneKept, Sealed, Holds, SameNumber
  <2>1. clock \in Nat /\ doc[q].lease_until \in Nat
    BY DEF IInv, TypeOK, LeaseTypeOK, SealedSays, Doc
  <2>2. doc[q].lease_until > clock
    BY <2>1
  <2> QED BY <2>2 DEF IInv, LaneKept
<1>6. NoHopelessTransaction'
  BY DEF IInv, NoHopelessTransaction
<1> QED BY <1>1, <1>2, <1>3, <1>4, <1>5, <1>6 DEF IInv

\* The network's steps are such steps.
LEMMA NetworkKeeps ==
  ASSUME IInv,
         \/ \E s \in Submit : Apply(s) \/ Reject(s)
         \/ \E q \in Quote : ClaimedElsewhere(q)
         \/ CloseLedger \/ Pass \/ UNCHANGED vars
  PROVE  IInv'
<1> USE DEF leaseVars
<1>1. /\ clock \in Nat /\ chain \in [Lane -> Nat] /\ ledger \in Nat
      /\ net \in [Submit -> {"unsent", "pending", "applied", "failed", "rejected"}]
  BY DEF IInv, TypeOK, LeaseTypeOK
<1>2. clock >= clock
  BY <1>1
<1>3. ASSUME NEW s \in Submit, Apply(s) PROVE IInv'
  <2>1. /\ UNCHANGED <<lease, clock, ledger, handlerVars, historyVars>>
        /\ chain' \in [Lane -> Nat]
    <3>1. /\ UNCHANGED <<lease, clock, ledger, handlerVars, historyVars>>
          /\ chain' = [chain EXCEPT ![doc[of[s]].lane] = @ + 1]
      BY <1>3 DEF Apply, Consume
    <3>2. \A l \in Lane : chain[l] + 1 \in Nat
      BY <1>1
    <3>3. chain' \in [Lane -> Nat]
      BY <1>1, <3>1, <3>2
    <3> QED BY <3>1, <3>3
  <2>2. /\ open' \subseteq open /\ net[s] = "pending"
        /\ \E end \in {"applied", "failed"} : net' = [net EXCEPT ![s] = end]
    BY <1>3 DEF Apply
  <2>3. /\ net' \in [Submit -> {"unsent", "pending", "applied", "failed", "rejected"}]
        /\ \A t \in Submit : net'[t] = "unsent" <=> net[t] = "unsent"
    BY <1>1, <2>2
  <2> QED BY <1>1, <1>2, <2>1, <2>2, <2>3, OutsideKeeps
<1>4. ASSUME NEW s \in Submit, Reject(s) PROVE IInv'
  <2>1. /\ UNCHANGED <<leaseVars, open, ledger, handlerVars, historyVars>>
        /\ net[s] = "pending" /\ net' = [net EXCEPT ![s] = "rejected"]
    BY <1>4 DEF Reject
  <2>2. /\ net' \in [Submit -> {"unsent", "pending", "applied", "failed", "rejected"}]
        /\ \A t \in Submit : net'[t] = "unsent" <=> net[t] = "unsent"
    BY <1>1, <2>1
  <2> QED BY <1>1, <1>2, <2>1, <2>2, OutsideKeeps
<1>5. ASSUME NEW q \in Quote, ClaimedElsewhere(q) PROVE IInv'
  BY <1>1, <1>2, <1>5, OutsideKeeps DEF ClaimedElsewhere
<1>6. CASE CloseLedger
  BY <1>1, <1>2, <1>6, OutsideKeeps DEF CloseLedger
<1>7. CASE Pass
  BY <1>1, <1>7, OutsideKeeps DEF Pass, Tick
<1>8. CASE UNCHANGED vars
  BY <1>1, <1>2, <1>8, OutsideKeeps DEF vars
<1> QED BY <1>3, <1>4, <1>5, <1>6, <1>7, <1>8

\* After a restart no lane is leased and no quote sealed so far is promised one;
\* the submits that had ended keep their answers.
LEMMA RestartKeeps ==
  ASSUME IInv, Restart
  PROVE  IInv'
<1>1. /\ lease' = [l \in Lane |-> NoLease] /\ UNCHANGED <<clock, chain>>
      /\ qpc' = [q \in Quote |-> IF qpc[q] = "priced" THEN "refused" ELSE qpc[q]]
      /\ spc' = [s \in Submit |-> IF spc[s] \in InHandler THEN "dropped" ELSE spc[s]]
      /\ forgotten' = forgotten \cup {q \in Quote : qpc[q] = "sealed"}
      /\ UNCHANGED <<ledger, open, doc, of, matches, seen, answer, net, owner, hopeful>>
  BY DEF Restart, Forget, request
<1>2. \A q \in Quote : Sealed(q)' <=> Sealed(q)
  BY <1>1 DEF Sealed
<1>3. \A s \in Submit : /\ spc'[s] \notin InHandler
                        /\ spc'[s] = "new" <=> spc[s] = "new"
                        /\ spc'[s] = "done" <=> spc[s] = "done"
  BY <1>1 DEF InHandler
<1>4. \A s \in Submit : Expired(s)' <=> Expired(s)
  BY <1>1 DEF Expired
<1>5. TypeOK'
  <2>1. /\ qpc' \in [Quote -> {"new", "priced", "sealed", "refused"}]
        /\ spc' \in [Submit -> {"new", "done", "dropped"} \cup InHandler]
        /\ lease' \in [Lane -> Lease \cup {NoLease}]
        /\ forgotten' \in SUBSET Quote
    BY <1>1 DEF IInv, TypeOK
  <2> QED BY <1>1, <2>1 DEF IInv, TypeOK, LeaseTypeOK
<1>6. SealedSays' /\ Carried'
  BY <1>1, <1>2, <1>3 DEF IInv, SealedSays, Carried
<1>7. OwnerSays'
  BY <1>1 DEF OwnerSays
<1>8. AnswersFollow' /\ Checked'
  BY <1>1, <1>3, <1>4 DEF IInv, AnswersFollow, Checked, InHandler
<1>9. SpentLaneFreed'
  <2>1. \A q \in Quote : Sealed(q) => doc[q].lane \in Lane
    BY DEF IInv, SealedSays, Doc
  <2>2. \A s \in Submit : spc'[s] = "done" => of[s] \in Quote /\ Sealed(of[s])
    BY <1>3 DEF IInv, Carried
  <2> QED BY <1>1, <2>1, <2>2 DEF SpentLaneFreed, Holds
<1>10. LaneKept'
  BY <1>1, <1>2 DEF LaneKept, Sealed
<1>11. NoHopelessTransaction'
  BY <1>1 DEF IInv, NoHopelessTransaction
<1> QED BY <1>5, <1>6, <1>7, <1>8, <1>9, <1>10, <1>11 DEF IInv

LEMMA NextInvariant == IInv /\ [Next]_vars => IInv'
<1> SUFFICES ASSUME IInv, [Next]_vars PROVE IInv'
  OBVIOUS
<1>1. ASSUME NEW q \in Quote, QuoteStep(q) PROVE IInv'
  BY <1>1, UnsealedKeeps, SealKeeps DEF QuoteStep
<1>2. ASSUME NEW s \in Submit, SubmitStep(s) PROVE IInv'
  <2>1. ASSUME NEW q \in Quote, StartSubmit(s, q) PROVE IInv'
    BY <2>1, StartKeeps
  <2>2. CASE ReleaseBootstrap(s)
    BY <2>2, ReleaseKeeps
  <2>3. CASE \/ CheckClaims(s) \/ CheckPathAndXdr(s) \/ CheckFloatAndSend(s)
             \/ Answer(s) \/ FailSubmit(s) \/ DropSubmit(s)
    BY <2>3, HandlerStepKeeps
  <2> QED BY <1>2, <2>1, <2>2, <2>3 DEF SubmitStep
<1>3. CASE Restart
  BY <1>3, RestartKeeps
<1>4. CASE \/ \E s \in Submit : Apply(s) \/ Reject(s)
           \/ \E q \in Quote : ClaimedElsewhere(q)
           \/ CloseLedger \/ Pass \/ UNCHANGED vars
  BY <1>4, NetworkKeeps
<1> QED BY <1>1, <1>2, <1>3, <1>4 DEF Next, NetworkStep

\* What leases, quotes and submits hold to in every reachable state.
THEOREM BootstrapInvariant == Spec => []IInv
<1> QED BY InitInvariant, NextInvariant, PTL DEF Spec

\* Type correctness of the bootstrap path.
THEOREM BootstrapTyped == Spec => []TypeOK
<1>1. IInv => TypeOK
  BY DEF IInv
<1> QED BY <1>1, BootstrapInvariant, PTL

\* An answer that ends a quote for good leaves none of its leases behind,
\* whatever other submits of the quote do meanwhile (bootstrap_lane_spent).
THEOREM SpentLanesFreed == Spec => []SpentLaneFreed
<1>1. IInv => SpentLaneFreed
  BY DEF IInv
<1> QED BY <1>1, BootstrapInvariant, PTL

\* Within its deadline a quote has its lane unless a restart, or a submit of
\* the same number that ended, took it (the release in submit()).
THEOREM LanesKept == Spec => []LaneKept
<1>1. IInv => LaneKept
  BY DEF IInv
<1> QED BY <1>1, BootstrapInvariant, PTL

\* Nothing is sent that its own submit could have known to be lost
\* (ensure_claims and check_signed_inner come before submit_tx).
THEOREM NothingHopeless == Spec => []NoHopelessTransaction
<1>1. IInv => NoHopelessTransaction
  BY DEF IInv
<1> QED BY <1>1, BootstrapInvariant, PTL

-----------------------------------------------------------------------------
(* The handlers use the pool as it allows *)

\* Whatever the handlers, the network and restarts do, the leases see only
\* steps of the pool: what is proved of LaneLease holds of this path.
THEOREM PoolIsUsed == Spec => LeaseSpec
<1>1. Init => LeaseInit
  BY DEF Init
<1>2. IInv /\ [Next]_vars => [LeaseNext]_leaseVars
  <2> SUFFICES ASSUME IInv, [Next]_vars PROVE LeaseNext \/ UNCHANGED leaseVars
    OBVIOUS
  <2> USE DEF LeaseNext
  <2>1. ASSUME NEW q \in Quote, QuoteStep(q) \/ ClaimedElsewhere(q)
        PROVE  LeaseNext \/ UNCHANGED leaseVars
    <3>1. CASE SealQuote(q)
      BY <3>1 DEF SealQuote
    <3>2. CASE PriceQuote(q) \/ RefuseQuote(q) \/ ClaimedElsewhere(q)
      BY <3>2 DEF PriceQuote, RefuseQuote, ClaimedElsewhere
    <3> QED BY <2>1, <3>1, <3>2 DEF QuoteStep
  <2>2. ASSUME NEW s \in Submit, SubmitStep(s) \/ NetworkStep(s)
        PROVE  LeaseNext \/ UNCHANGED leaseVars
    <3>1. CASE ReleaseBootstrap(s)
      <4>1. doc[of[s]].lane \in Lane
        BY <3>1 DEF ReleaseBootstrap, IInv, Carried, SealedSays, Doc
      <4> QED BY <3>1, <4>1 DEF ReleaseBootstrap, FreeLane
    <3>2. CASE Apply(s)
      <4>1. spc[s] # "new"
        BY <3>2 DEF Apply, IInv, Carried
      <4>2. doc[of[s]].lane \in Lane
        BY <4>1 DEF IInv, Carried, SealedSays, Doc
      <4> QED BY <3>2, <4>2 DEF Apply
    <3>3. CASE SubmitStep(s) /\ ~ReleaseBootstrap(s)
      BY <3>3 DEF SubmitStep, StartSubmit, CheckClaims, CheckPathAndXdr, CheckFloatAndSend,
                  Answer, FailSubmit, DropSubmit
    <3>4. CASE Reject(s)
      BY <3>4 DEF Reject
    <3> QED BY <2>2, <3>1, <3>2, <3>3, <3>4 DEF NetworkStep
  <2>3. CASE CloseLedger \/ Pass \/ Restart
    BY <2>3 DEF CloseLedger, Pass, Restart
  <2>4. CASE UNCHANGED vars
    BY <2>4 DEF vars, leaseVars
  <2> QED BY <2>1, <2>2, <2>3, <2>4 DEF Next
<1> QED BY <1>1, <1>2, BootstrapInvariant, PTL DEF Spec, LeaseSpec

\* Whatever is dropped, sent late or never sent: a lane of the bootstrap path is
\* not withheld for longer than one lease from now (LeaseEnds of LaneLease).
THEOREM LanesComeBack == Spec => []LeaseEnds
BY PoolIsUsed, LeasesEnd, PTL
=============================================================================
