-------------------------- MODULE SponsorFloatProofs --------------------------
(***************************************************************************)
(* Proofs about SponsorFloat, for any quotes, submits, users, lanes and    *)
(* amounts.                                                                *)
(*                                                                         *)
(* IInv is inductive.  SettledIsBehind is why a quote settles once: a      *)
(* settled quote's number is not above its account's, and numbers never    *)
(* fall.  GatePassed and SeenStands are why one submit alone never finds   *)
(* the float short: what it was shown is still there, and it was enough.   *)
(***************************************************************************)
EXTENDS SponsorFloat, PricingProofs, FiniteSetTheorems

\* A submit carries a sealed quote from its start to its end, and a transaction
\* is on its way or done only once the handler has sent it.
Carried ==
    \A s \in Submit :
        /\ spc[s] # "new" => of[s] \in Quote /\ qpc[of[s]] = "sealed" /\ seen[s] \in BaseFees
        /\ net[s] # "unsent" <=> spc[s] \in {"sent", "submitted", "failed"}

\* A quote's charge is Charge of what it costs at the base fee it was made at.
PricedAsMade ==
    \A q \in Quote : qpc[q] # "new" =>
        doc[q].charge = Charge(NetworkFee(doc[q].base, Ops(doc[q].opens)), Reserve(doc[q].opens))

\* A settled quote's number is used.
SettledIsBehind ==
    \A q \in Quote : settled[q] # 0 =>
        qpc[q] = "sealed" /\ doc[q].sequence <= number[doc[q].source]

\* A transaction on the ledger settled its quote, alone.
LedgerSettles ==
    \A s, t \in Submit :
        /\ net[s] \in {"applied", "failed"} => settled[of[s]] = 1
        /\ net[s] \in {"applied", "failed"} /\ net[t] \in {"applied", "failed"} /\ of[s] = of[t] => s = t

\* What passed the gate was enough when it was read, and its fee is the envelope's.
GatePassed ==
    \A s \in Submit : net[s] = "pending" =>
        saw[s] >= Needed(of[s], seen[s]) /\ bid[s] = Bid(of[s], seen[s])

\* Until another submit spends, what was read is what there is.
SeenStands ==
    \A s \in Submit :
        (spc[s] = "gate" \/ net[s] = "pending") /\ s \notin disturbed => saw[s] = Spendable

\* Short of float is said of transactions that are over.
ShortIsOver == \A s \in short : net[s] \in {"failed", "rejected"}

\* The failures counted are the submits that ended in one.
FailuresAreThese == counts.failures = Cardinality({s \in Submit : spc[s] = "failed"})

\* Horizon says done of transactions that settled.
DoneIsSettled ==
    \A s \in Submit : spc[s] = "submitted" => settled[of[s]] = 1 /\ net[s] # "failed"

IInv ==
    /\ TypeOK
    /\ Carried
    /\ PricedAsMade
    /\ SettledIsBehind
    /\ LedgerSettles
    /\ GatePassed
    /\ SeenStands
    /\ ShortIsOver /\ ShortOnlyByOthers
    /\ FailuresAreThese
    /\ DoneIsSettled

-----------------------------------------------------------------------------
(* The amounts *)

LEMMA Amounts ==
  ASSUME NEW opens \in BOOLEAN
  PROVE  Ops(opens) \in Nat \ {0} /\ Reserve(opens) \in Nat
BY FloatAssumption DEF Ops, Reserve

LEMMA ChargeType ==
  ASSUME NEW b \in Nat, NEW opens \in BOOLEAN
  PROVE  /\ NetworkFee(b, Ops(opens)) \in Nat
         /\ Charge(NetworkFee(b, Ops(opens)), Reserve(opens)) \in Nat
         /\ Charge(NetworkFee(b, Ops(opens)), Reserve(opens)) >=
                NetworkFee(b, Ops(opens)) + Reserve(opens)
<1>1. NetworkFee(b, Ops(opens)) \in Nat
  BY Amounts DEF NetworkFee
<1> QED BY <1>1, Amounts, ChargeCovers

LEMMA RateOrder ==
  ASSUME NEW r \in Nat, NEW ops \in Nat, NEW b \in Nat, r <= b
  PROVE  r * ops \in Nat /\ b * (ops + 1) \in Nat /\ r * ops <= b * (ops + 1)
<1>1. r * ops <= b * ops /\ r * ops \in Nat /\ b * ops \in Nat
  OBVIOUS
<1>2. b * (ops + 1) = b * ops + b
  OBVIOUS
<1> QED BY <1>1, <1>2

\* A fee bump at a base fee that has not fallen offers the priced network fee.
LEMMA BumpAtNewRate ==
  ASSUME NEW r \in Nat, NEW ops \in Nat \ {0}, NEW b \in Nat, r <= b
  PROVE  FeeBump(r * ops, ops, b) = b * (ops + 1)
<1>1. CeilDiv(r * ops, ops) = r
  BY CeilDivExact
<1>2. r * ops <= b * ops /\ r * ops \in Nat /\ b * ops \in Nat
  OBVIOUS
<1>3. b * (ops + 1) = b * ops + b
  OBVIOUS
<1> QED BY <1>1, <1>2, <1>3 DEF FeeBump, AtLeast

LEMMA BidType ==
  ASSUME NEW q \in Quote, doc[q] \in Doc, NEW b \in BaseFees
  PROVE  Bid(q, b) \in Nat /\ Needed(q, b) \in Nat
<1>1. doc[q].opens \in BOOLEAN /\ doc[q].base \in Nat /\ b \in Nat
  BY FloatAssumption DEF Doc
<1>2. Ops(doc[q].opens) \in Nat \ {0} /\ Reserve(doc[q].opens) \in Nat
  BY <1>1, Amounts
<1>3. InnerFee(q) \in Nat
  BY <1>1, <1>2 DEF InnerFee
<1>4. FeeBump(InnerFee(q), Ops(doc[q].opens), b) \in Nat
  BY <1>1, <1>2, <1>3, FeeBumpAccepted
<1> QED BY <1>1, <1>2, <1>3, <1>4 DEF Bid, Needed

\* What the gate asks for covers the envelope's fee, unless the base fee fell.
LEMMA NeededCovers ==
  ASSUME NEW q \in Quote, doc[q] \in Doc, NEW b \in BaseFees, doc[q].base <= b
  PROVE  Reserve(doc[q].opens) + Bid(q, b) <= Needed(q, b)
<1> DEFINE r == doc[q].base
           ops == Ops(doc[q].opens)
<1>1. doc[q].opens \in BOOLEAN /\ r \in Nat /\ b \in Nat
  BY FloatAssumption DEF Doc
<1>2. ops \in Nat \ {0} /\ Reserve(doc[q].opens) \in Nat
  BY <1>1, Amounts
<1>3. FeeBump(r * ops, ops, b) = b * (ops + 1)
  BY <1>1, <1>2, BumpAtNewRate
<1>4. r * ops <= b * (ops + 1) /\ r * ops \in Nat /\ b * (ops + 1) \in Nat
  BY <1>1, <1>2, RateOrder
<1> QED BY <1>1, <1>2, <1>3, <1>4 DEF Bid, Needed, InnerFee

-----------------------------------------------------------------------------
(* The invariant *)

LEMMA InitKeeps == Init => IInv
<1> SUFFICES ASSUME Init PROVE IInv
  OBVIOUS
<1>1. TypeOK
  BY FloatAssumption DEF Init, TypeOK
<1>2. Cardinality({s \in Submit : spc[s] = "failed"}) = 0
  <2>1. {s \in Submit : spc[s] = "failed"} = {}
    BY DEF Init
  <2> QED BY <2>1, FS_EmptySet
<1> QED BY <1>1, <1>2 DEF Init, IInv, Carried, PricedAsMade, SettledIsBehind, LedgerSettles,
      GatePassed, SeenStands, ShortIsOver, ShortOnlyByOthers, FailuresAreThese, DoneIsSettled

LEMMA ReadAccountKeeps ==
  ASSUME IInv, NEW q \in Quote, ReadAccount(q)
  PROVE  IInv'
<1> USE DEF ReadAccount, accountVars, fundVars, submitVars, netVars, historyVars
<1>1. TypeOK'
  <2>1. PICK u \in User, opens \in BOOLEAN :
          doc' = [doc EXCEPT ![q] =
              [mode |-> IF u \in exists THEN "sponsored" ELSE "bootstrap",
               user |-> u, opens |-> opens, source |-> u,
               sequence |-> number[u] + 1,
               charge |-> Charge(NetworkFee(base, Ops(opens)), Reserve(opens)),
               base |-> base]]
    OBVIOUS
  <2>2. base \in Nat /\ Charge(NetworkFee(base, Ops(opens)), Reserve(opens)) \in Nat
    BY FloatAssumption, ChargeType DEF IInv, TypeOK
  <2>3. doc'[q] \in Doc
    BY <2>1, <2>2 DEF IInv, TypeOK, Doc, Account
  <2>4. \A p \in Quote : p # q => doc'[p] = doc[p]
    BY DEF IInv, TypeOK
  <2> QED BY <2>3, <2>4 DEF IInv, TypeOK
<1>2. PricedAsMade'
  BY DEF IInv, PricedAsMade, TypeOK
<1>3. \A s \in Submit : spc[s] # "new" => doc'[of[s]] = doc[of[s]] /\ of[s] # q
  BY DEF IInv, Carried, TypeOK
<1>4. Carried' /\ SettledIsBehind'
  BY <1>3 DEF IInv, Carried, SettledIsBehind, TypeOK
<1>5. LedgerSettles' /\ SeenStands' /\ ShortIsOver' /\ FailuresAreThese' /\ DoneIsSettled'
  BY DEF IInv, LedgerSettles, SeenStands, ShortIsOver, FailuresAreThese, DoneIsSettled, Spendable, Locked
<1>6. GatePassed'
  <2> SUFFICES ASSUME NEW s \in Submit, net[s] = "pending"
               PROVE  saw[s] >= Needed(of[s], seen[s])' /\ bid[s] = Bid(of[s], seen[s])'
    BY DEF GatePassed
  <2>1. doc'[of[s]] = doc[of[s]]
    BY <1>3 DEF IInv, Carried
  <2>2. saw[s] >= Needed(of[s], seen[s]) /\ bid[s] = Bid(of[s], seen[s])
    BY DEF IInv, GatePassed
  <2> QED BY <2>1, <2>2 DEF Needed, Bid, Bumped, InnerFee
<1>7. ShortOnlyByOthers'
  <2> SUFFICES ASSUME NEW s \in short PROVE s \in disturbed \/ seen[s] < doc'[of[s]].base
    BY DEF ShortOnlyByOthers
  <2>1. s \in Submit /\ spc[s] # "new"
    BY DEF IInv, TypeOK, ShortIsOver, Carried
  <2> QED BY <2>1, <1>3 DEF IInv, ShortOnlyByOthers
<1> QED BY <1>1, <1>2, <1>4, <1>5, <1>6, <1>7 DEF IInv

LEMMA SealQuoteKeeps ==
  ASSUME IInv, NEW q \in Quote, SealQuote(q)
  PROVE  IInv'
<1> USE DEF SealQuote, accountVars, fundVars, submitVars, netVars, historyVars
<1>1. /\ doc'[q] \in Doc
      /\ doc'[q].opens = doc[q].opens /\ doc'[q].base = doc[q].base /\ doc'[q].charge = doc[q].charge
      /\ \A p \in Quote : p # q => doc'[p] = doc[p]
      /\ DOMAIN doc' = Quote
  <2>1. doc[q] \in Doc /\ DOMAIN doc = Quote /\ number \in [Account -> Nat]
    BY DEF IInv, TypeOK
  <2>2. CASE doc[q].mode = "sponsored"
    BY <2>1, <2>2
  <2>3. CASE doc[q].mode # "sponsored"
    <3>1. PICK l \in Lane : \E n \in 1 .. number[l] + 1 :
               doc' = [doc EXCEPT ![q].source = l, ![q].sequence = n]
      BY <2>3
    <3>2. PICK n \in 1 .. number[l] + 1 :
               doc' = [doc EXCEPT ![q].source = l, ![q].sequence = n]
      BY <3>1
    <3>3. l \in Account /\ n \in Nat
      BY <2>1 DEF Account
    <3>4. doc'[q] = [doc[q] EXCEPT !.source = l, !.sequence = n]
      BY <2>1, <3>2
    <3>5. doc'[q] \in Doc
      BY <2>1, <3>3, <3>4 DEF Doc
    <3> QED BY <2>1, <3>2, <3>4, <3>5 DEF Doc
  <2> QED BY <2>2, <2>3
<1>2. TypeOK'
  BY <1>1 DEF IInv, TypeOK
<1>3. PricedAsMade'
  BY <1>1 DEF IInv, PricedAsMade, TypeOK
<1>4. \A s \in Submit : spc[s] # "new" => doc'[of[s]] = doc[of[s]] /\ of[s] # q
  BY <1>1 DEF IInv, Carried, TypeOK
<1>5. Carried' /\ SettledIsBehind'
  BY <1>1, <1>4 DEF IInv, Carried, SettledIsBehind, TypeOK
<1>6. LedgerSettles' /\ SeenStands' /\ ShortIsOver' /\ FailuresAreThese' /\ DoneIsSettled'
  BY DEF IInv, LedgerSettles, SeenStands, ShortIsOver, FailuresAreThese, DoneIsSettled, Spendable, Locked
<1>7. GatePassed' /\ ShortOnlyByOthers'
  BY <1>4 DEF IInv, Carried, GatePassed, ShortIsOver, ShortOnlyByOthers, Needed, Bid, Bumped, InnerFee, TypeOK
<1> QED BY <1>2, <1>3, <1>5, <1>6, <1>7 DEF IInv

\* A handler's step that ends in no failure keeps the count of failures.
LEMMA NoFailure ==
  ASSUME TypeOK, NEW s \in Submit, NEW step, spc[s] # "failed", step # "failed", Goto(s, step)
  PROVE  {t \in Submit : spc'[t] = "failed"} = {t \in Submit : spc[t] = "failed"}
BY DEF TypeOK, Goto

LEMMA StartSubmitKeeps ==
  ASSUME IInv, NEW s \in Submit, NEW q \in Quote, StartSubmit(s, q)
  PROVE  IInv'
<1> USE DEF StartSubmit, accountVars, fundVars, quoteVars, netVars, historyVars
<1>1. TypeOK'
  BY FloatAssumption DEF IInv, TypeOK, Goto, Waiting
<1>2. Carried'
  BY DEF IInv, Carried, TypeOK, Goto
<1>3. PricedAsMade' /\ SettledIsBehind' /\ ShortIsOver'
  BY DEF IInv, PricedAsMade, SettledIsBehind, ShortIsOver
<1>4. \A t \in Submit : net[t] # "unsent" => t # s
  BY DEF IInv, Carried
<1>5. \A t \in Submit : t # s => of'[t] = of[t] /\ seen'[t] = seen[t] /\ spc'[t] = spc[t]
  BY DEF IInv, TypeOK, Goto
<1>6. LedgerSettles'
  BY <1>4, <1>5 DEF IInv, LedgerSettles, TypeOK
<1>7. GatePassed' /\ ShortOnlyByOthers'
  BY <1>4, <1>5 DEF IInv, GatePassed, ShortIsOver, ShortOnlyByOthers, Needed, Bid, Bumped, InnerFee, TypeOK
<1>8. SeenStands'
  BY <1>4, <1>5 DEF IInv, SeenStands, Spendable, Locked, Goto, TypeOK
<1>9. DoneIsSettled'
  BY <1>5 DEF IInv, DoneIsSettled, Goto, TypeOK
<1>10. FailuresAreThese'
  <2>1. {t \in Submit : spc'[t] = "failed"} = {t \in Submit : spc[t] = "failed"}
    BY NoFailure DEF IInv
  <2> QED BY <2>1 DEF IInv, FailuresAreThese
<1> QED BY <1>1, <1>2, <1>3, <1>6, <1>7, <1>8, <1>9, <1>10 DEF IInv

LEMMA SpendableType == ASSUME TypeOK PROVE Spendable \in Int
<1>1. (2 + sponsoring) * BaseReserve \in Nat
  BY FloatAssumption DEF TypeOK
<1> QED BY <1>1 DEF TypeOK, Spendable, Locked

LEMMA ReadFundsKeeps ==
  ASSUME IInv, NEW s \in Submit, ReadFunds(s)
  PROVE  IInv'
<1> USE DEF ReadFunds, accountVars, fundVars, quoteVars, netVars
<1>1. TypeOK'
  <2>1. Spendable \in Int
    BY SpendableType DEF IInv
  <2> QED BY <2>1 DEF IInv, TypeOK, Goto, Waiting
<1>2. Carried'
  BY DEF IInv, Carried, TypeOK, Goto
<1>3. PricedAsMade' /\ SettledIsBehind' /\ ShortIsOver' /\ LedgerSettles'
  BY DEF IInv, PricedAsMade, SettledIsBehind, ShortIsOver, LedgerSettles
<1>4. \A t \in Submit : net[t] # "unsent" => t # s
  BY DEF IInv, Carried
<1>5. GatePassed' /\ ShortOnlyByOthers'
  BY <1>4 DEF IInv, GatePassed, ShortIsOver, ShortOnlyByOthers, Needed, Bid, Bumped, InnerFee, TypeOK
<1>6. SeenStands'
  BY <1>4 DEF IInv, SeenStands, Spendable, Locked, Goto, TypeOK
<1>7. DoneIsSettled'
  BY DEF IInv, DoneIsSettled, Goto, TypeOK
<1>8. FailuresAreThese'
  <2>1. {t \in Submit : spc'[t] = "failed"} = {t \in Submit : spc[t] = "failed"}
    BY NoFailure DEF IInv
  <2> QED BY <2>1 DEF IInv, FailuresAreThese
<1> QED BY <1>1, <1>2, <1>3, <1>5, <1>6, <1>7, <1>8 DEF IInv

LEMMA GateAndSendKeeps ==
  ASSUME IInv, NEW s \in Submit, GateAndSend(s)
  PROVE  IInv'
<1> USE DEF GateAndSend, accountVars, fundVars, quoteVars, historyVars
<1>1. of[s] \in Quote /\ qpc[of[s]] = "sealed" /\ seen[s] \in BaseFees /\ net[s] = "unsent"
  BY DEF IInv, Carried
<1>2. TypeOK'
  <2>1. doc[of[s]] \in Doc
    BY <1>1 DEF IInv, TypeOK
  <2>2. Bid(of[s], seen[s]) \in Nat
    BY <1>1, <2>1, BidType
  <2> QED BY <2>2 DEF IInv, TypeOK, Goto, Waiting
<1>3. Carried'
  BY <1>1 DEF IInv, Carried, TypeOK, Goto
<1>4. PricedAsMade' /\ SettledIsBehind'
  BY DEF IInv, PricedAsMade, SettledIsBehind
<1>5. ShortIsOver' /\ LedgerSettles' /\ ShortOnlyByOthers'
  BY <1>1 DEF IInv, ShortIsOver, LedgerSettles, ShortOnlyByOthers, TypeOK
<1>6. GatePassed'
  BY <1>1 DEF IInv, GatePassed, Needed, Bid, Bumped, InnerFee, TypeOK
<1>7. SeenStands'
  BY <1>1 DEF IInv, SeenStands, Spendable, Locked, Goto, TypeOK
<1>8. DoneIsSettled'
  BY <1>1 DEF IInv, DoneIsSettled, Goto, TypeOK
<1>9. FailuresAreThese'
  <2>1. {t \in Submit : spc'[t] = "failed"} = {t \in Submit : spc[t] = "failed"}
    BY NoFailure DEF IInv
  <2> QED BY <2>1 DEF IInv, FailuresAreThese
<1> QED BY <1>2, <1>3, <1>4, <1>5, <1>6, <1>7, <1>8, <1>9 DEF IInv

LEMMA RefuseFloatKeeps ==
  ASSUME IInv, NEW s \in Submit, RefuseFloat(s)
  PROVE  IInv'
<1> USE DEF RefuseFloat, accountVars, fundVars, quoteVars, netVars, historyVars
<1>1. TypeOK' /\ Carried'
  BY DEF IInv, Carried, TypeOK, Goto, Waiting
<1>2. PricedAsMade' /\ SettledIsBehind' /\ ShortIsOver' /\ LedgerSettles' /\ ShortOnlyByOthers'
  BY DEF IInv, PricedAsMade, SettledIsBehind, ShortIsOver, LedgerSettles, ShortOnlyByOthers
<1>3. GatePassed'
  BY DEF IInv, GatePassed, Needed, Bid, Bumped, InnerFee
<1>4. SeenStands' /\ DoneIsSettled'
  BY DEF IInv, SeenStands, DoneIsSettled, Spendable, Locked, Goto, TypeOK
<1>5. FailuresAreThese'
  <2>1. {t \in Submit : spc'[t] = "failed"} = {t \in Submit : spc[t] = "failed"}
    BY NoFailure DEF IInv
  <2> QED BY <2>1 DEF IInv, FailuresAreThese
<1> QED BY <1>1, <1>2, <1>3, <1>4, <1>5 DEF IInv

LEMMA AnswerKeeps ==
  ASSUME IInv, NEW s \in Submit, Answer(s)
  PROVE  IInv'
<1> USE DEF Answer, Counted, accountVars, fundVars, quoteVars, netVars, historyVars
<1>1. TypeOK' /\ Carried'
  BY DEF IInv, Carried, TypeOK, Goto, Waiting
<1>2. PricedAsMade' /\ SettledIsBehind' /\ ShortIsOver' /\ LedgerSettles' /\ ShortOnlyByOthers'
  BY DEF IInv, PricedAsMade, SettledIsBehind, ShortIsOver, LedgerSettles, ShortOnlyByOthers
<1>3. GatePassed'
  BY DEF IInv, GatePassed, Needed, Bid, Bumped, InnerFee
<1>4. SeenStands'
  BY DEF IInv, SeenStands, Spendable, Locked, Goto, TypeOK
<1>5. CASE /\ Accepted(s)
           /\ counts' = [counts EXCEPT !.submissions = @ + 1]
           /\ Goto(s, "submitted")
  <2>1. settled[of[s]] = 1 /\ net[s] # "failed"
    BY <1>5 DEF IInv, Accepted, SameBytes, LedgerSettles
  <2>2. DoneIsSettled'
    BY <1>5, <2>1 DEF IInv, DoneIsSettled, Goto, TypeOK
  <2>3. FailuresAreThese'
    <3>1. {t \in Submit : spc'[t] = "failed"} = {t \in Submit : spc[t] = "failed"}
      BY <1>5, NoFailure DEF IInv
    <3> QED BY <1>5, <3>1 DEF IInv, FailuresAreThese, TypeOK
  <2> QED BY <1>1, <1>2, <1>3, <1>4, <2>2, <2>3 DEF IInv
<1>6. CASE /\ counts' = [counts EXCEPT !.failures = @ + 1]
           /\ Goto(s, "failed")
  <2>1. DoneIsSettled'
    BY <1>6 DEF IInv, DoneIsSettled, Goto, TypeOK
  <2>2. FailuresAreThese'
    <3>1. PICK were : were = {t \in Submit : spc[t] = "failed"}
      OBVIOUS
    <3>2. {t \in Submit : spc'[t] = "failed"} = were \cup {s}
      BY <1>6, <3>1 DEF IInv, TypeOK, Goto
    <3>3. s \notin were
      BY <3>1
    <3>4. IsFiniteSet(were)
      BY <3>1, FloatAssumption, FS_Subset
    <3>5. Cardinality(were \cup {s}) = Cardinality(were) + 1
      BY <3>3, <3>4, FS_AddElement
    <3> QED BY <1>6, <3>1, <3>2, <3>5 DEF IInv, FailuresAreThese, TypeOK
  <2> QED BY <1>1, <1>2, <1>3, <1>4, <2>1, <2>2 DEF IInv
<1> QED BY <1>5, <1>6

-----------------------------------------------------------------------------
(* The ledger's steps *)

\* A transaction that takes its number is the first of its quote.
LEMMA TakeIsFirst ==
  ASSUME IInv, NEW s \in Submit, Take(s)
  PROVE  /\ of[s] \in Quote /\ qpc[of[s]] = "sealed" /\ seen[s] \in BaseFees
         /\ doc[of[s]] \in Doc
         /\ settled[of[s]] = 0 /\ settled'[of[s]] = 1
         /\ \A q \in Quote : q # of[s] => settled'[q] = settled[q]
         /\ spc[s] \in {"sent", "failed"}
<1>1. of[s] \in Quote /\ qpc[of[s]] = "sealed" /\ seen[s] \in BaseFees /\ spc[s] \in {"sent", "submitted", "failed"}
  BY DEF IInv, Carried, Take
<1>2. doc[of[s]] \in Doc /\ doc[of[s]].source \in Account /\ doc[of[s]].sequence \in Nat
  BY <1>1 DEF IInv, TypeOK, Doc
<1>3. settled[of[s]] = 0
  <2>1. number[doc[of[s]].source] \in Nat
    BY <1>2 DEF IInv, TypeOK
  <2>2. number[doc[of[s]].source] + 1 = doc[of[s]].sequence
    BY DEF Take, Valid, Number
  <2> QED BY <1>1, <1>2, <2>1, <2>2 DEF IInv, SettledIsBehind
<1>4. settled'[of[s]] = 1 /\ \A q \in Quote : q # of[s] => settled'[q] = settled[q]
  BY <1>1, <1>3 DEF IInv, TypeOK, Take
<1>5. spc[s] # "submitted"
  BY <1>3 DEF IInv, DoneIsSettled
<1> QED BY <1>1, <1>2, <1>3, <1>4, <1>5

LEMMA NumbersGrow ==
  ASSUME TypeOK, NEW q \in Quote, doc[q] \in Doc, NEW creates
  PROVE  /\ NumbersAfter(q, creates) \in [Account -> Nat]
         /\ \A a \in Account : number[a] <= NumbersAfter(q, creates)[a]
         /\ NumbersAfter(q, creates)[doc[q].source] = number[doc[q].source] + 1
<1>1. doc[q].source \in Account
  BY DEF Doc
<1> QED BY <1>1 DEF TypeOK, NumbersAfter

\* What a transaction that takes its number keeps, whether it does its work or
\* only pays.
LEMMA TakeKeeps ==
  ASSUME IInv, NEW s \in Submit, Take(s), NEW creates, NEW end \in {"applied", "failed"},
         number' = NumbersAfter(of[s], creates), net' = [net EXCEPT ![s] = end]
  PROVE  /\ number' \in [Account -> Nat] /\ settled' \in [Quote -> {0, 1}]
         /\ net' \in [Submit -> {"unsent", "pending", "applied", "failed", "rejected"}]
         /\ Carried' /\ PricedAsMade' /\ SettledIsBehind' /\ LedgerSettles'
         /\ GatePassed' /\ SeenStands' /\ FailuresAreThese' /\ DoneIsSettled'
<1> USE DEF Take, quoteVars, submitVars
<1>1. /\ of[s] \in Quote /\ qpc[of[s]] = "sealed" /\ doc[of[s]] \in Doc
      /\ settled[of[s]] = 0 /\ settled'[of[s]] = 1
      /\ \A q \in Quote : q # of[s] => settled'[q] = settled[q]
      /\ spc[s] \in {"sent", "failed"}
  BY TakeIsFirst
<1>2. /\ number' \in [Account -> Nat]
      /\ \A a \in Account : number[a] <= number'[a]
      /\ number'[doc[of[s]].source] = number[doc[of[s]].source] + 1
  BY <1>1, NumbersGrow DEF IInv
<1>3. settled' \in [Quote -> {0, 1}]
  BY <1>1 DEF IInv, TypeOK
<1>4. /\ net' \in [Submit -> {"unsent", "pending", "applied", "failed", "rejected"}]
      /\ net'[s] = end /\ \A t \in Submit : t # s => net'[t] = net[t]
  BY DEF IInv, TypeOK
<1>5. Carried' /\ PricedAsMade'
  BY <1>4 DEF IInv, Carried, PricedAsMade
<1>6. SettledIsBehind'
  <2> SUFFICES ASSUME NEW q \in Quote, settled'[q] # 0
               PROVE  qpc[q] = "sealed" /\ doc[q].sequence <= number'[doc[q].source]
    BY DEF SettledIsBehind
  <2>1. CASE q = of[s]
    BY <1>1, <1>2, <2>1 DEF Valid, Number, Doc
  <2>2. CASE q # of[s]
    <3>1. qpc[q] = "sealed" /\ doc[q].sequence <= number[doc[q].source]
      BY <1>1, <2>2 DEF IInv, SettledIsBehind
    <3>2. doc[q].source \in Account /\ doc[q].sequence \in Nat
      BY <3>1 DEF IInv, TypeOK, Doc
    <3>3. number[doc[q].source] \in Nat /\ number'[doc[q].source] \in Nat
      BY <1>2, <3>2 DEF IInv, TypeOK
    <3> QED BY <1>2, <3>1, <3>2, <3>3
  <2> QED BY <2>1, <2>2
<1>7. LedgerSettles'
  BY <1>1, <1>4 DEF IInv, LedgerSettles, TypeOK
<1>8. GatePassed'
  BY <1>4 DEF IInv, GatePassed, Needed, Bid, Bumped, InnerFee
<1>9. SeenStands'
  BY <1>1, <1>4 DEF SeenStands
<1>10. FailuresAreThese'
  BY DEF IInv, FailuresAreThese
<1>11. DoneIsSettled'
  BY <1>1, <1>4 DEF IInv, DoneIsSettled, TypeOK
<1> QED BY <1>2, <1>3, <1>4, <1>5, <1>6, <1>7, <1>8, <1>9, <1>10, <1>11

\* A transaction the float is too small for was read a float others spent of,
\* or its base fee fell.
LEMMA ShortIsExplained ==
  ASSUME IInv, NEW s \in Submit, net[s] = "pending", NEW f \in Int, f <= bid[s],
         Spendable < Reserve(doc[of[s]].opens) + f
  PROVE  s \in disturbed \/ seen[s] < doc[of[s]].base
<1> SUFFICES ASSUME s \notin disturbed, ~(seen[s] < doc[of[s]].base)
             PROVE  FALSE
  OBVIOUS
<1>1. of[s] \in Quote /\ qpc[of[s]] = "sealed" /\ seen[s] \in BaseFees
  BY DEF IInv, Carried
<1>2. doc[of[s]] \in Doc
  BY <1>1 DEF IInv, TypeOK
<1>3. doc[of[s]].base \in Nat /\ seen[s] \in Nat /\ doc[of[s]].opens \in BOOLEAN
  BY <1>1, <1>2, FloatAssumption DEF Doc
<1>4. Reserve(doc[of[s]].opens) + Bid(of[s], seen[s]) <= Needed(of[s], seen[s])
  BY <1>1, <1>2, <1>3, NeededCovers
<1>5. Bid(of[s], seen[s]) \in Nat /\ Needed(of[s], seen[s]) \in Nat /\ Reserve(doc[of[s]].opens) \in Nat
  BY <1>1, <1>2, <1>3, BidType, Amounts
<1>6. saw[s] >= Needed(of[s], seen[s]) /\ bid[s] = Bid(of[s], seen[s])
  BY DEF IInv, GatePassed
<1>7. saw[s] = Spendable /\ Spendable \in Int
  BY SpendableType DEF IInv, SeenStands
<1> QED BY <1>4, <1>5, <1>6, <1>7

\* The fee that is charged: what the network takes at least, or what is offered.
LEMMA FeeType ==
  ASSUME IInv, NEW s \in Submit, Take(s), NEW f \in Fees(s)
  PROVE  f \in Nat /\ f <= bid[s] /\ bid[s] \in Nat
<1>1. doc[of[s]] \in Doc
  BY TakeIsFirst
<1>2. Ops(doc[of[s]].opens) \in Nat /\ base \in Nat
  BY <1>1, Amounts, FloatAssumption DEF Doc, IInv, TypeOK
<1>3. MinBid(of[s]) \in Nat
  BY <1>2 DEF MinBid
<1>4. bid[s] \in Nat /\ MinBid(of[s]) <= bid[s]
  BY DEF IInv, TypeOK, Take, Valid
<1> QED BY <1>3, <1>4 DEF Fees

LEMMA ApplyKeeps ==
  ASSUME IInv, NEW s \in Submit, Apply(s)
  PROVE  IInv'
<1> USE DEF Apply
<1>1. Take(s)
  OBVIOUS
<1>2. PICK creates : creates = (doc[of[s]].mode = "bootstrap" /\ doc[of[s]].opens)
  OBVIOUS
<1>3. number' = NumbersAfter(of[s], creates) /\ net' = [net EXCEPT ![s] = "applied"]
  BY <1>2
<1>4. /\ number' \in [Account -> Nat] /\ settled' \in [Quote -> {0, 1}]
      /\ net' \in [Submit -> {"unsent", "pending", "applied", "failed", "rejected"}]
      /\ Carried' /\ PricedAsMade' /\ SettledIsBehind' /\ LedgerSettles'
      /\ GatePassed' /\ SeenStands' /\ FailuresAreThese' /\ DoneIsSettled'
  BY <1>1, <1>3, TakeKeeps
<1>5. of[s] \in Quote /\ doc[of[s]] \in Doc
  BY <1>1, TakeIsFirst
<1>6. TypeOK'
  <2>1. balance' \in Int
    BY <1>1, <1>5, FeeType DEF IInv, TypeOK, Doc
  <2>2. sponsoring' \in Nat /\ exists' \subseteq User
    BY <1>5, FloatAssumption DEF IInv, TypeOK, Doc
  <2>3. paid' \subseteq Quote /\ disturbed' \subseteq Submit /\ short' \subseteq Submit
    BY <1>1, <1>5 DEF IInv, TypeOK, Take
  <2> HIDE DEF Apply
  <2> QED BY <1>1, <1>4, <2>1, <2>2, <2>3 DEF IInv, TypeOK, Take, quoteVars, submitVars
<1>7. ShortIsOver' /\ ShortOnlyByOthers'
  BY <1>1 DEF IInv, TypeOK, ShortIsOver, ShortOnlyByOthers, Take, quoteVars, submitVars
<1> QED BY <1>4, <1>6, <1>7 DEF IInv

LEMMA FailKeeps ==
  ASSUME IInv, NEW s \in Submit, Fail(s)
  PROVE  IInv'
<1> USE DEF Fail
<1>1. Take(s)
  OBVIOUS
<1>2. number' = NumbersAfter(of[s], FALSE) /\ net' = [net EXCEPT ![s] = "failed"]
  OBVIOUS
<1>3. /\ number' \in [Account -> Nat] /\ settled' \in [Quote -> {0, 1}]
      /\ net' \in [Submit -> {"unsent", "pending", "applied", "failed", "rejected"}]
      /\ Carried' /\ PricedAsMade' /\ SettledIsBehind' /\ LedgerSettles'
      /\ GatePassed' /\ SeenStands' /\ FailuresAreThese' /\ DoneIsSettled'
  BY <1>1, <1>2, TakeKeeps
<1>4. PICK f \in Fees(s) :
          /\ balance' = balance - f
          /\ short' = IF Lockable(s, f) THEN short ELSE short \cup {s}
  OBVIOUS
<1>5. f \in Nat /\ f <= bid[s] /\ bid[s] \in Nat
  BY <1>1, FeeType
<1>6. TypeOK'
  <2>1. balance' \in Int /\ short' \subseteq Submit /\ disturbed' \subseteq Submit
    BY <1>1, <1>4, <1>5 DEF IInv, TypeOK, Take
  <2>2. exists' \subseteq User /\ sponsoring' \in Nat /\ paid' \subseteq Quote
    BY DEF IInv, TypeOK
  <2> HIDE DEF Fail
  <2> QED BY <1>1, <1>3, <2>1, <2>2 DEF IInv, TypeOK, Take, quoteVars, submitVars
<1>7. ShortIsOver'
  BY <1>4 DEF IInv, TypeOK, ShortIsOver
<1>8. ShortOnlyByOthers'
  <2>1. ~Lockable(s, f) => s \in disturbed \/ seen[s] < doc[of[s]].base
    <3>1. SUFFICES ASSUME ~Lockable(s, f)
                   PROVE  s \in disturbed \/ seen[s] < doc[of[s]].base
      OBVIOUS
    <3>2. Reserve(doc[of[s]].opens) \in Nat
      BY <1>1, TakeIsFirst, Amounts DEF Doc
    <3>3. Spendable \in Int
      BY SpendableType DEF IInv
    <3>4. Spendable < Reserve(doc[of[s]].opens) + f
      BY <1>5, <3>1, <3>2, <3>3 DEF Lockable
    <3> QED BY <1>1, <1>5, <3>4, ShortIsExplained DEF Take
  <2> QED BY <1>1, <1>4, <2>1 DEF IInv, TypeOK, ShortOnlyByOthers, Take, quoteVars, submitVars
<1> QED BY <1>3, <1>6, <1>7, <1>8 DEF IInv

LEMMA RejectKeeps ==
  ASSUME IInv, NEW s \in Submit, Reject(s)
  PROVE  IInv'
<1> USE DEF Reject, accountVars, fundVars, quoteVars, submitVars
<1>1. TypeOK'
  BY DEF IInv, TypeOK
<1>2. Carried' /\ PricedAsMade' /\ SettledIsBehind' /\ LedgerSettles' /\ DoneIsSettled'
  BY DEF IInv, TypeOK, Carried, PricedAsMade, SettledIsBehind, LedgerSettles, DoneIsSettled
<1>3. GatePassed'
  BY DEF IInv, TypeOK, GatePassed, Needed, Bid, Bumped, InnerFee
<1>4. SeenStands' /\ FailuresAreThese' /\ ShortIsOver'
  BY DEF IInv, TypeOK, SeenStands, FailuresAreThese, ShortIsOver, Spendable, Locked
<1>5. ShortOnlyByOthers'
  <2>1. ~Affordable(s) => s \in disturbed \/ seen[s] < doc[of[s]].base
    <3>1. SUFFICES ASSUME ~Affordable(s)
                   PROVE  s \in disturbed \/ seen[s] < doc[of[s]].base
      OBVIOUS
    <3>2. Reserve(doc[of[s]].opens) \in Nat
      BY Amounts DEF IInv, Carried, TypeOK, Doc
    <3>3. Spendable \in Int /\ bid[s] \in Nat
      BY SpendableType DEF IInv, TypeOK
    <3>4. Spendable < Reserve(doc[of[s]].opens) + bid[s]
      BY <3>1, <3>2, <3>3 DEF Affordable
    <3> QED BY <3>3, <3>4, ShortIsExplained
  <2> QED BY <2>1 DEF IInv, TypeOK, ShortOnlyByOthers
<1> QED BY <1>1, <1>2, <1>3, <1>4, <1>5 DEF IInv

-----------------------------------------------------------------------------
(* What others do *)

LEMMA UserKeeps ==
  ASSUME IInv, NEW u \in User, Created(u) \/ Merged(u) \/ OwnTransaction(u)
  PROVE  IInv'
<1> USE DEF Created, Merged, OwnTransaction, fundVars, quoteVars, submitVars, netVars, historyVars
<1>1. /\ number' \in [Account -> Nat] /\ exists' \subseteq User
      /\ \A a \in Account : number[a] <= number'[a]
  BY DEF IInv, TypeOK, Account
<1>2. TypeOK'
  BY <1>1 DEF IInv, TypeOK
<1>3. Carried' /\ PricedAsMade' /\ LedgerSettles' /\ DoneIsSettled'
  BY DEF IInv, Carried, PricedAsMade, LedgerSettles, DoneIsSettled
<1>4. SettledIsBehind'
  <2> SUFFICES ASSUME NEW q \in Quote, settled[q] # 0
               PROVE  qpc[q] = "sealed" /\ doc[q].sequence <= number'[doc[q].source]
    BY DEF SettledIsBehind
  <2>1. qpc[q] = "sealed" /\ doc[q].sequence <= number[doc[q].source]
    BY DEF IInv, SettledIsBehind
  <2>2. doc[q].source \in Account /\ doc[q].sequence \in Nat
    BY <2>1 DEF IInv, TypeOK, Doc
  <2>3. number[doc[q].source] \in Nat /\ number'[doc[q].source] \in Nat
    BY <1>1, <2>2 DEF IInv, TypeOK
  <2> QED BY <1>1, <2>1, <2>2, <2>3
<1>5. GatePassed'
  BY DEF IInv, GatePassed, Needed, Bid, Bumped, InnerFee
<1>6. SeenStands' /\ FailuresAreThese' /\ ShortIsOver' /\ ShortOnlyByOthers'
  BY DEF IInv, SeenStands, FailuresAreThese, ShortIsOver, ShortOnlyByOthers, Spendable, Locked
<1> QED BY <1>2, <1>3, <1>4, <1>5, <1>6 DEF IInv

LEMMA BaseFeeOrNothingKeeps ==
  ASSUME IInv, BaseFeeMoves \/ UNCHANGED vars
  PROVE  IInv'
<1> USE DEF BaseFeeMoves, vars, accountVars, fundVars, quoteVars, submitVars, netVars, historyVars
<1>1. TypeOK'
  BY DEF IInv, TypeOK
<1>2. Carried' /\ PricedAsMade' /\ LedgerSettles' /\ DoneIsSettled' /\ SettledIsBehind'
  BY DEF IInv, Carried, PricedAsMade, LedgerSettles, DoneIsSettled, SettledIsBehind
<1>3. GatePassed'
  BY DEF IInv, GatePassed, Needed, Bid, Bumped, InnerFee
<1>4. SeenStands' /\ FailuresAreThese' /\ ShortIsOver' /\ ShortOnlyByOthers'
  BY DEF IInv, SeenStands, FailuresAreThese, ShortIsOver, ShortOnlyByOthers, Spendable, Locked
<1> QED BY <1>1, <1>2, <1>3, <1>4 DEF IInv

LEMMA NextKeeps == IInv /\ [Next]_vars => IInv'
<1> SUFFICES ASSUME IInv, [Next]_vars PROVE IInv'
  OBVIOUS
<1>1. ASSUME NEW q \in Quote, QuoteStep(q) PROVE IInv'
  BY <1>1, ReadAccountKeeps, SealQuoteKeeps DEF QuoteStep
<1>2. ASSUME NEW s \in Submit, SubmitStep(s) PROVE IInv'
  BY <1>2, StartSubmitKeeps, ReadFundsKeeps, GateAndSendKeeps, RefuseFloatKeeps, AnswerKeeps DEF SubmitStep
<1>3. ASSUME NEW s \in Submit, LedgerStep(s) PROVE IInv'
  BY <1>3, ApplyKeeps, FailKeeps, RejectKeeps DEF LedgerStep
<1>4. ASSUME NEW u \in User, Created(u) \/ Merged(u) \/ OwnTransaction(u) PROVE IInv'
  BY <1>4, UserKeeps
<1>5. CASE BaseFeeMoves \/ UNCHANGED vars
  BY <1>5, BaseFeeOrNothingKeeps
<1> QED BY <1>1, <1>2, <1>3, <1>4, <1>5 DEF Next

\* Everything the handlers and the ledger do keeps the invariant.
THEOREM FloatInvariant == Spec => []IInv
<1>1. Init => IInv
  BY InitKeeps
<1>2. IInv /\ [Next]_vars => IInv'
  BY NextKeeps
<1> QED BY <1>1, <1>2, PTL DEF Spec

\* Every variable keeps its type.
THEOREM FloatTyped == Spec => []TypeOK
<1>1. IInv => TypeOK
  BY DEF IInv
<1> QED BY <1>1, FloatInvariant, PTL

\* The gate is enough for a submit nobody else spends beside.
THEOREM AloneNeverShort == Spec => []ShortOnlyByOthers
<1>1. IInv => ShortOnlyByOthers
  BY DEF IInv
<1> QED BY <1>1, FloatInvariant, PTL

\* Transactions paid for in vain are counted: the submits that wait for an answer
\* and the failures counted are together at least as many.
THEOREM LossesCounted == Spec => []LossesAreCounted
<1>1. ASSUME IInv PROVE LossesAreCounted
  <2>1. PICK lost : lost = {s \in Submit : net[s] = "failed"}
    OBVIOUS
  <2>2. PICK waiting : waiting = {s \in Submit : spc[s] = "sent"}
    OBVIOUS
  <2>3. PICK told : told = {s \in Submit : spc[s] = "failed"}
    OBVIOUS
  <2>4. lost \subseteq waiting \cup told
    BY <1>1, <2>1, <2>2, <2>3 DEF IInv, Carried, DoneIsSettled
  <2>5. IsFiniteSet(waiting) /\ IsFiniteSet(told)
    BY <2>2, <2>3, FloatAssumption, FS_Subset
  <2>6. /\ IsFiniteSet(waiting \cup told)
        /\ Cardinality(waiting \cup told) =
               Cardinality(waiting) + Cardinality(told) - Cardinality(waiting \cap told)
    BY <2>5, FS_Union
  <2>7. IsFiniteSet(waiting \cap told)
    BY <2>5, FS_Intersection
  <2>8. /\ Cardinality(waiting) \in Nat /\ Cardinality(told) \in Nat
        /\ Cardinality(waiting \cap told) \in Nat
    BY <2>5, <2>7, FS_CardinalityType
  <2>9. IsFiniteSet(lost) /\ Cardinality(lost) <= Cardinality(waiting \cup told)
    BY <2>4, <2>6, FS_Subset
  <2>10. Cardinality(lost) \in Nat
    BY <2>9, FS_CardinalityType
  <2>11. counts.failures = Cardinality(told)
    BY <1>1, <2>3 DEF IInv, FailuresAreThese
  <2> QED BY <2>1, <2>2, <2>6, <2>8, <2>9, <2>10, <2>11 DEF LossesAreCounted
<1> QED BY <1>1, FloatInvariant, PTL

-----------------------------------------------------------------------------
(* One slot, one settlement *)

LEMMA TakeSettles ==
  ASSUME IInv, NEW s \in Submit, Take(s), paid' \in {paid, paid \cup {of[s]}}
  PROVE  Settles!SettlementNext
<1>1. /\ of[s] \in Quote /\ qpc[of[s]] = "sealed" /\ doc[of[s]] \in Doc /\ settled[of[s]] = 0
  BY TakeIsFirst
<1>2. SlotOf[of[s]] = <<doc[of[s]].source, doc[of[s]].sequence>>
  BY <1>1 DEF SlotOf
<1>3. SlotOf[of[s]] # <<>>
  BY <1>2
<1>4. Settles!Unsettled(of[s])
  <2> SUFFICES ASSUME NEW p \in Quote, SlotOf[p] = SlotOf[of[s]], settled[p] # 0
               PROVE  FALSE
    BY DEF Settles!Unsettled
  <2>1. qpc[p] = "sealed" /\ doc[p].sequence <= number[doc[p].source]
    BY DEF IInv, SettledIsBehind
  <2>2. SlotOf[p] = <<doc[p].source, doc[p].sequence>>
    BY <2>1 DEF SlotOf
  <2>3. doc[p].source = doc[of[s]].source /\ doc[p].sequence = doc[of[s]].sequence
    BY <1>2, <2>2
  <2>4. number[doc[of[s]].source] + 1 = doc[of[s]].sequence
    BY DEF Take, Valid, Number
  <2>5. number[doc[of[s]].source] \in Nat
    BY <1>1 DEF IInv, TypeOK, Doc
  <2> QED BY <2>1, <2>3, <2>4, <2>5
<1>5. settled' = [settled EXCEPT ![of[s]] = 1]
  BY <1>1 DEF Take, IInv, TypeOK
<1>6. UNCHANGED SlotOf
  BY DEF SlotOf, Take, quoteVars
<1> QED BY <1>1, <1>3, <1>4, <1>5, <1>6 DEF Settles!SettlementNext, Settles!Settle

LEMMA SealOffers ==
  ASSUME IInv, NEW q \in Quote, SealQuote(q)
  PROVE  Settles!SettlementNext
<1> USE DEF SealQuote, historyVars
<1>1. SlotOf[q] = <<>>
  BY DEF SlotOf
<1>2. \A p \in Quote : p # q => qpc'[p] = qpc[p] /\ doc'[p] = doc[p]
  BY DEF IInv, TypeOK
<1>3. SlotOf' = [SlotOf EXCEPT ![q] = SlotOf'[q]]
  BY <1>2 DEF SlotOf
<1> QED BY <1>1, <1>3 DEF Settles!SettlementNext, Settles!Offer

\* However submits, quotes and the ledger interleave, they settle slots: of the
\* quotes that name an account's number one settles at most, once, and a quote
\* keeps the slot it names.
THEOREM SettlesOnce == Spec => ImplementsSettlement
<1>1. Init => Settles!SettlementInit
  BY DEF Init, Settles!SettlementInit, SlotOf
<1>2. ASSUME IInv, [Next]_vars PROVE [Settles!SettlementNext]_(Settles!settlementVars)
  <2> USE <1>2
  <2> DEFINE Stutters == UNCHANGED <<SlotOf, settled, paid>>
  <2>1. ASSUME NEW q \in Quote, ReadAccount(q) PROVE Stutters
    <3>1. \A p \in Quote : qpc'[p] = "sealed" <=> qpc[p] = "sealed"
      BY <2>1 DEF ReadAccount, IInv, TypeOK
    <3>2. \A p \in Quote : qpc[p] = "sealed" => doc'[p] = doc[p]
      BY <2>1 DEF ReadAccount, IInv, TypeOK
    <3> QED BY <2>1, <3>1, <3>2 DEF ReadAccount, SlotOf, historyVars
  <2>2. ASSUME NEW s \in Submit, SubmitStep(s) PROVE Stutters
    BY <2>2 DEF SubmitStep, StartSubmit, ReadFunds, GateAndSend, RefuseFloat, Answer, SlotOf, quoteVars, historyVars
  <2>3. ASSUME NEW s \in Submit, Apply(s) \/ Fail(s) PROVE Settles!SettlementNext
    BY <2>3, TakeSettles DEF Apply, Fail
  <2>4. ASSUME NEW s \in Submit, Reject(s) PROVE Stutters
    BY <2>4 DEF Reject, SlotOf, quoteVars
  <2>5. ASSUME NEW u \in User, Created(u) \/ Merged(u) \/ OwnTransaction(u) PROVE Stutters
    BY <2>5 DEF Created, Merged, OwnTransaction, SlotOf, quoteVars, historyVars
  <2>6. ASSUME BaseFeeMoves \/ UNCHANGED vars PROVE Stutters
    <3>1. UNCHANGED <<qpc, doc, settled, paid>>
      BY <2>6 DEF BaseFeeMoves, vars, quoteVars, historyVars
    <3> QED BY <3>1 DEF SlotOf
  <2> HIDE DEF Stutters
  <2>7. Settles!SettlementNext \/ Stutters
    <3>1. ASSUME NEW q \in Quote, QuoteStep(q) PROVE Settles!SettlementNext \/ Stutters
      BY <2>1, <3>1, SealOffers DEF QuoteStep
    <3>2. ASSUME NEW s \in Submit, LedgerStep(s) PROVE Settles!SettlementNext \/ Stutters
      BY <2>3, <2>4, <3>2 DEF LedgerStep
    <3> QED BY <2>2, <2>5, <2>6, <3>1, <3>2 DEF Next
  <2> QED BY <2>7 DEF Stutters, Settles!settlementVars
<1> QED BY <1>1, <1>2, FloatInvariant, PTL DEF Spec, ImplementsSettlement, Settles!SettlementSpec

-----------------------------------------------------------------------------
(* The float rises *)

LEMMA ReservesAdd ==
  ASSUME NEW n \in Nat, NEW k \in Nat, NEW r \in Nat
  PROVE  /\ (2 + (n + k)) * r = (2 + n) * r + k * r
         /\ (2 + n) * r \in Nat /\ k * r \in Nat
OBVIOUS

LEMMA ApplyRises ==
  ASSUME IInv, NEW s \in Submit, Apply(s), Spendable' < Spendable
  PROVE  seen[s] > doc[of[s]].base /\ Spendable - Spendable' <= bid[s]
<1>1. Take(s) /\ net[s] = "pending"
  BY DEF Apply, Take
<1>2. of[s] \in Quote /\ qpc[of[s]] = "sealed" /\ doc[of[s]] \in Doc /\ seen[s] \in BaseFees
  BY <1>1, TakeIsFirst
<1>3. PICK q : q = of[s]
  OBVIOUS
<1>4. PICK d : d = doc[q]
  OBVIOUS
<1>5. d.opens \in BOOLEAN /\ d.base \in Nat /\ d.charge \in Nat /\ seen[s] \in Nat
  BY <1>2, <1>3, <1>4, FloatAssumption DEF Doc
<1>6. PICK f \in Fees(s) : balance' = balance + d.charge - f
  BY <1>3, <1>4 DEF Apply
<1>7. f \in Nat /\ f <= bid[s] /\ bid[s] \in Nat
  BY <1>1, FeeType
<1>8. Reserve(d.opens) \in Nat /\ Ops(d.opens) \in Nat \ {0}
  BY <1>5, Amounts
<1>9. /\ d.charge = Charge(NetworkFee(d.base, Ops(d.opens)), Reserve(d.opens))
      /\ d.charge >= NetworkFee(d.base, Ops(d.opens)) + Reserve(d.opens)
      /\ NetworkFee(d.base, Ops(d.opens)) \in Nat
  BY <1>2, <1>3, <1>4, <1>5, ChargeType DEF IInv, PricedAsMade
<1>10. Spendable' = Spendable + d.charge - f - Reserve(d.opens) /\ Spendable \in Int
  <2>1. sponsoring' = sponsoring + (IF d.opens THEN Units ELSE 0) /\ sponsoring \in Nat /\ balance \in Int
    BY <1>3, <1>4 DEF Apply, IInv, TypeOK
  <2>2. Units \in Nat /\ BaseReserve \in Nat
    BY FloatAssumption
  <2>3. CASE d.opens
    <3>1. sponsoring' = sponsoring + Units /\ Reserve(d.opens) = Units * BaseReserve
      BY <2>1, <2>3 DEF Reserve
    <3>2. (2 + (sponsoring + Units)) * BaseReserve = (2 + sponsoring) * BaseReserve + Units * BaseReserve
          /\ (2 + sponsoring) * BaseReserve \in Nat /\ Units * BaseReserve \in Nat
      BY <2>1, <2>2, ReservesAdd
    <3>3. Locked' = (2 + (sponsoring + Units)) * BaseReserve
      BY <3>1 DEF Locked
    <3> QED BY <1>5, <1>6, <1>7, <2>1, <3>1, <3>2, <3>3 DEF Spendable, Locked
  <2>4. CASE ~d.opens
    <3>1. sponsoring' = sponsoring /\ Reserve(d.opens) = 0
      BY <2>1, <2>4 DEF Reserve
    <3>2. Locked' = Locked /\ Locked \in Int
      BY <3>1, <2>1, <2>2, ReservesAdd DEF Locked
    <3> QED BY <1>5, <1>6, <1>7, <2>1, <3>1, <3>2 DEF Spendable
  <2> QED BY <2>3, <2>4
<1>11. Spendable - Spendable' <= bid[s]
  BY <1>5, <1>7, <1>8, <1>9, <1>10
<1>12. ASSUME seen[s] <= d.base PROVE FALSE
  \* the envelope offers no more than the network fee that was priced
  <2>1. bid[s] = Bid(q, seen[s])
    BY <1>1, <1>3 DEF IInv, GatePassed
  <2>2. FeeBump(d.base * Ops(d.opens), Ops(d.opens), seen[s]) = NetworkFee(d.base, Ops(d.opens))
    BY <1>5, <1>8, <1>12, FeeBumpAsPriced
  <2>3. d.base * Ops(d.opens) <= NetworkFee(d.base, Ops(d.opens))
    BY <1>5, <1>8, RateOrder DEF NetworkFee
  <2>4. bid[s] <= NetworkFee(d.base, Ops(d.opens))
    BY <1>4, <1>9, <2>1, <2>2, <2>3 DEF Bid, InnerFee
  <2> QED BY <1>5, <1>7, <1>8, <1>9, <1>10, <2>4
<1> QED BY <1>3, <1>4, <1>5, <1>11, <1>12

\* In one step the float falls by the fee of one transaction, or not at all.
LEMMA StepRises ==
  ASSUME IInv, [Next]_vars, Spendable' < Spendable
  PROVE  FallIsAFee
<1>1. Spendable \in Int
  BY SpendableType DEF IInv
<1>2. ~(UNCHANGED fundVars)
  BY <1>1 DEF fundVars, Spendable, Locked
<1>3. ASSUME NEW q \in Quote, QuoteStep(q) PROVE FALSE
  BY <1>2, <1>3 DEF QuoteStep, ReadAccount, SealQuote
<1>4. ASSUME NEW s \in Submit, SubmitStep(s) PROVE FALSE
  BY <1>2, <1>4 DEF SubmitStep, StartSubmit, ReadFunds, GateAndSend, RefuseFloat, Answer, Counted
<1>5. ASSUME NEW s \in Submit, Apply(s) PROVE FallIsAFee
  <2>1. net[s] = "pending" /\ net'[s] = "applied"
    BY <1>5 DEF Apply, Take, IInv, TypeOK
  <2> QED BY <1>5, <2>1, ApplyRises DEF FallIsAFee
<1>6. ASSUME NEW s \in Submit, Fail(s) PROVE FallIsAFee
  <2>1. Take(s) /\ net[s] = "pending" /\ net'[s] = "failed"
    BY <1>6 DEF Fail, Take, IInv, TypeOK
  <2>2. PICK f \in Fees(s) : balance' = balance - f
    BY <1>6 DEF Fail
  <2>3. f \in Nat /\ f <= bid[s] /\ bid[s] \in Nat
    BY <2>1, FeeType
  <2>4. Locked' = Locked /\ Locked \in Nat /\ balance \in Int
    BY <1>6, FloatAssumption, ReservesAdd DEF Fail, Locked, IInv, TypeOK
  <2>5. Spendable - Spendable' <= bid[s]
    BY <2>2, <2>3, <2>4 DEF Spendable
  <2> QED BY <2>1, <2>5 DEF FallIsAFee
<1>7. ASSUME NEW s \in Submit, Reject(s) PROVE FALSE
  BY <1>2, <1>7 DEF Reject
<1>8. ASSUME NEW u \in User, Created(u) \/ Merged(u) \/ OwnTransaction(u) PROVE FALSE
  BY <1>2, <1>8 DEF Created, Merged, OwnTransaction
<1>9. CASE BaseFeeMoves \/ UNCHANGED vars
  BY <1>2, <1>9 DEF BaseFeeMoves, vars
<1> QED BY <1>3, <1>4, <1>5, <1>6, <1>7, <1>8, <1>9 DEF Next, LedgerStep

\* What the sponsor can spend falls by the fees of failed transactions only, or
\* of transactions quoted before the base fee rose, and never by more than the fee.
THEOREM FloatRises == Spec => OnlyRises
<1>1. ASSUME IInv, [Next]_vars PROVE [Spendable' < Spendable => FallIsAFee]_vars
  BY <1>1, StepRises
<1> QED BY <1>1, FloatInvariant, PTL DEF Spec, OnlyRises

-----------------------------------------------------------------------------
(* What the sponsor can lose, ever *)

\* The transactions that may have cost the sponsor something.
Losing ==
    {s \in Submit : net[s] = "failed" \/ (net[s] = "applied" /\ seen[s] > doc[of[s]].base)}

\* The sponsor's funds are never below its float by more than the highest fee
\* offered, once for each transaction that failed, or that landed and had been
\* quoted before the base fee rose.
LossIsBounded ==
    \A b \in Nat :
        (\A s \in Submit : net[s] # "unsent" => bid[s] <= b)
            => Spendable >= Float - b * Cardinality(Losing)

LEMMA LosingType ==
  ASSUME IInv
  PROVE  IsFiniteSet(Losing) /\ Cardinality(Losing) \in Nat
<1>1. Losing \subseteq Submit
  BY DEF Losing
<1> QED BY <1>1, FloatAssumption, FS_Subset, FS_CardinalityType

\* What is sent keeps its fee, its quote and the base fee it saw; what landed
\* stays where it landed.
LEMMA SentStays ==
  ASSUME IInv, [Next]_vars, NEW s \in Submit, net[s] # "unsent"
  PROVE  /\ net'[s] # "unsent" /\ bid'[s] = bid[s] /\ of'[s] = of[s] /\ seen'[s] = seen[s]
         /\ doc'[of[s]] = doc[of[s]]
         /\ net[s] \in {"applied", "failed"} => net'[s] = net[s]
<1> USE DEF Goto, submitVars, netVars, quoteVars
<1>1. /\ spc[s] \in {"sent", "submitted", "failed"} /\ of[s] \in Quote /\ qpc[of[s]] = "sealed"
      /\ DOMAIN net = Submit /\ DOMAIN bid = Submit /\ DOMAIN of = Submit /\ DOMAIN seen = Submit
      /\ DOMAIN doc = Quote
  BY DEF IInv, Carried, TypeOK
<1>2. ASSUME NEW q \in Quote, QuoteStep(q) PROVE doc'[of[s]] = doc[of[s]] /\ UNCHANGED <<submitVars, netVars>>
  BY <1>1, <1>2 DEF QuoteStep, ReadAccount, SealQuote
<1>3. ASSUME NEW t \in Submit, SubmitStep(t)
      PROVE  /\ UNCHANGED quoteVars
             /\ net'[s] = net[s] /\ bid'[s] = bid[s] /\ of'[s] = of[s] /\ seen'[s] = seen[s]
  BY <1>1, <1>3 DEF SubmitStep, StartSubmit, ReadFunds, GateAndSend, RefuseFloat, Answer
<1>4. ASSUME NEW t \in Submit, LedgerStep(t)
      PROVE  /\ UNCHANGED <<quoteVars, submitVars, bid>>
             /\ net'[s] # "unsent" /\ (net[s] \in {"applied", "failed"} => net'[s] = net[s])
  BY <1>1, <1>4 DEF LedgerStep, Apply, Fail, Reject, Take
<1>5. ASSUME NEW u \in User, Created(u) \/ Merged(u) \/ OwnTransaction(u)
      PROVE  UNCHANGED <<quoteVars, submitVars, netVars>>
  BY <1>5 DEF Created, Merged, OwnTransaction
<1>6. CASE BaseFeeMoves \/ UNCHANGED vars
  BY <1>6 DEF BaseFeeMoves, vars
<1> QED BY <1>2, <1>3, <1>4, <1>5, <1>6 DEF Next

\* The sponsor's loss over a whole history is bounded, for any float, margin and
\* order of steps (FloatRises says it of one step).
THEOREM FloatFloor == Spec => []LossIsBounded
<1>1. ASSUME Init PROVE LossIsBounded
  <2>1. Losing = {}
    BY <1>1 DEF Init, Losing
  <2>2. Cardinality(Losing) = 0
    BY <2>1, FS_EmptySet
  <2>3. Spendable = Float
    <3>1. Float \in Nat /\ BaseReserve \in Nat
      BY FloatAssumption
    <3> QED BY <1>1, <3>1 DEF Init, Spendable, Locked
  <2>4. Float \in Nat
    BY FloatAssumption
  <2> QED BY <2>2, <2>3, <2>4 DEF LossIsBounded
<1>2. ASSUME IInv, IInv', LossIsBounded, [Next]_vars PROVE LossIsBounded'
  <2>1. SUFFICES ASSUME NEW b \in Nat, \A s \in Submit : net'[s] # "unsent" => bid'[s] <= b
                 PROVE  Spendable' >= Float - b * Cardinality(Losing')
    BY DEF LossIsBounded
  <2>2. \A s \in Submit : net[s] # "unsent" => bid[s] <= b
    BY <1>2, <2>1, SentStays
  <2>3. PICK n \in Nat : n = Cardinality(Losing)
    BY <1>2, LosingType
  <2>4. PICK m \in Nat : m = Cardinality(Losing')
    <3>1. Losing' \subseteq Submit
      BY DEF Losing
    <3> QED BY <3>1, FloatAssumption, FS_Subset, FS_CardinalityType
  <2>5. Losing \subseteq Losing'
    BY <1>2, SentStays DEF Losing
  <2>6. IsFiniteSet(Losing')
    <3>1. Losing' \subseteq Submit
      BY DEF Losing
    <3> QED BY <3>1, FloatAssumption, FS_Subset
  <2>7. Spendable >= Float - b * n
    BY <1>2, <2>2, <2>3 DEF LossIsBounded
  <2>8. Spendable \in Int /\ Spendable' \in Int /\ Float \in Nat
    <3>1. Spendable \in Int
      BY <1>2, SpendableType DEF IInv
    <3>2. balance' \in Int /\ sponsoring' \in Nat /\ BaseReserve \in Nat
      BY <1>2, FloatAssumption DEF IInv, TypeOK
    <3>3. Spendable' \in Int
      BY <3>2 DEF Spendable, Locked
    <3> QED BY <3>1, <3>3, FloatAssumption
  <2>9. n <= m
    BY <2>3, <2>4, <2>5, <2>6, FS_Subset
  <2>10. CASE Spendable' >= Spendable
    <3>1. b * n <= b * m
      BY <2>9
    <3>2. b * n \in Nat /\ b * m \in Nat
      OBVIOUS
    <3> QED BY <2>4, <2>7, <2>8, <2>10, <3>1, <3>2
  <2>11. CASE Spendable' < Spendable
    <3>1. PICK s \in Submit :
            /\ net[s] = "pending"
            /\ net'[s] = "failed" \/ (net'[s] = "applied" /\ seen[s] > doc[of[s]].base)
            /\ Spendable - Spendable' <= bid[s]
      BY <1>2, <2>11, StepRises DEF FallIsAFee
    <3>2. s \notin Losing /\ s \in Losing'
      BY <1>2, <3>1, SentStays DEF Losing
    <3>3. n < m
      <4>1. Losing \cup {s} \subseteq Losing'
        BY <2>5, <3>2
      <4>2. IsFiniteSet(Losing)
        BY <1>2, LosingType
      <4>3. Cardinality(Losing \cup {s}) = n + 1 /\ IsFiniteSet(Losing \cup {s})
        BY <2>3, <3>2, <4>2, FS_AddElement
      <4>4. Cardinality(Losing \cup {s}) <= m
        BY <2>4, <2>6, <4>1, FS_Subset
      <4> QED BY <4>3, <4>4
    <3>4. bid[s] \in Nat /\ bid[s] <= b
      BY <1>2, <2>2, <3>1 DEF IInv, TypeOK
    <3>5. b * (n + 1) <= b * m /\ b * (n + 1) = b * n + b /\ b * n \in Nat /\ b * m \in Nat
      BY <3>3
    <3> QED BY <2>4, <2>7, <2>8, <3>1, <3>4, <3>5
  <2> QED BY <2>8, <2>10, <2>11
<1> QED BY <1>1, <1>2, FloatInvariant, PTL DEF Spec

-----------------------------------------------------------------------------
(* What Settlement promises, and the service with it *)

LEMMA SettlementKeeps == Settles!SettlementSpec => []Settles!SettlementInv
<1> USE DEF Settles!SettlementInv, Settles!OneSettles
<1>1. Settles!SettlementInit => Settles!SettlementInv
  BY DEF Settles!SettlementInit
<1>2. ASSUME Settles!SettlementInv, [Settles!SettlementNext]_(Settles!settlementVars)
      PROVE  Settles!SettlementInv'
  <2>1. ASSUME NEW q \in Quote, Settles!Offer(q) PROVE Settles!SettlementInv'
    BY <1>2, <2>1 DEF Settles!Offer
  <2>2. ASSUME NEW q \in Quote, Settles!Settle(q) PROVE Settles!SettlementInv'
    BY <1>2, <2>2 DEF Settles!Settle, Settles!Unsettled
  <2>3. CASE UNCHANGED Settles!settlementVars
    BY <1>2, <2>3 DEF Settles!settlementVars
  <2> QED BY <1>2, <2>1, <2>2, <2>3 DEF Settles!SettlementNext
<1> QED BY <1>1, <1>2, PTL DEF Settles!SettlementSpec

\* Of the quotes given one number of one account, one is ever charged for, and
\* whoever paid paid for a quote that settled: by Settlement alone.
THEOREM OneQuotePerSlot == Spec => []Settles!OneSettles
<1>1. Settles!SettlementInv => Settles!OneSettles
  BY DEF Settles!SettlementInv
<1> QED BY <1>1, SettlesOnce, SettlementKeeps, PTL DEF ImplementsSettlement
=============================================================================
