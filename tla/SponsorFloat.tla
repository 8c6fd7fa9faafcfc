---------------------------- MODULE SponsorFloat ----------------------------
(***************************************************************************)
(* Many submits, one sponsor (api/routes.rs quote() and submit(),          *)
(* api/state.rs, signer/lib.rs): what a quote freezes about its user, what *)
(* a submit reads of the sponsor's balance before it signs, and what the   *)
(* ledger does with the transactions of all of them, in any order, late,   *)
(* twice or never.                                                         *)
(*                                                                         *)
(* The claims, the route and the signed transaction were looked at before  *)
(* the part of submit() that is modelled here (Bootstrap, InnerTx); on the *)
(* ledger they may have gone since.  A request either moves money of its   *)
(* user or also opens something for it: the account, a trustline.  A       *)
(* handler whose client goes away takes no further step, and a transaction *)
(* that is lost or whose time is over stays pending: nothing is fair here. *)
(***************************************************************************)
EXTENDS Pricing, FiniteSets

CONSTANTS
    Quote,       \* quote requests, one per element
    Submit,      \* submit requests, one per element
    User,        \* accounts the quotes are for
    Lane,        \* accounts that source bootstrap transactions
    Sponsor,     \* the sponsor, which may be one of the lanes
    NoQuote,     \* "no quote yet", of a submit that has not arrived
    BaseFees,    \* bound: the base fees the network may have
    BaseReserve, \* the ledger's base reserve
    Units,       \* base reserves an opening transaction locks
    Opening,     \* operations of a transaction that opens something ...
    Moving,      \* ... and of one that only moves money, the fee payment included
    Float,       \* what the sponsor can spend at first
    MaxNumber    \* bound: an account's number on the ledger stops here

ASSUME FloatAssumption ==
    /\ User \cap Lane = {} /\ NoQuote \notin Quote
    /\ BaseFees \subseteq Nat \ {0}
    /\ BaseReserve \in Nat /\ Units \in Nat
    /\ Opening \in Nat \ {0} /\ Moving \in Nat \ {0}
    /\ Float \in Nat /\ MaxNumber \in Nat
    /\ IsFiniteSet(Submit)

VARIABLES
    number,     \* number[a]: the last sequence number account a has used
    exists,     \* the users whose account is on the ledger
    balance,    \* the sponsor's XLM
    sponsoring, \* base reserves it carries for others (num_sponsoring)
    base,       \* the network's base fee
    qpc,        \* qpc[q]: where q's quote request stands
    doc,        \* doc[q]: what quote q says
    spc,        \* spc[s]: where submit s stands
    of,         \* of[s]: the quote it carries
    seen,       \* seen[s]: the base fee it read
    saw,        \* saw[s]: what it read the sponsor able to spend
    counts,     \* the counters of metrics.rs
    net,        \* net[s]: what became of the transaction it sent
    bid,        \* bid[s]: the fee that transaction offers
    settled,    \* history: how often each quote took its number
    paid,       \* history: quotes whose user paid
    disturbed,  \* history: submits that read the float before another one spent of it
    short       \* history: submits whose transaction found the float too small

accountVars == <<number, exists>>
fundVars == <<balance, sponsoring>>
quoteVars == <<qpc, doc>>
submitVars == <<spc, of, seen, saw, counts>>
netVars == <<net, bid>>
historyVars == <<settled, paid, disturbed, short>>
vars == <<accountVars, fundVars, base, quoteVars, submitVars, netVars, historyVars>>

Account == User \cup Lane
Doc == [mode : {"sponsored", "bootstrap"}, user : User, opens : BOOLEAN,
        source : Account, sequence : Nat, charge : Nat, base : BaseFees]

Waiting == {"funds", "gate", "sent"}

Init ==
    /\ number \in [Account -> {0}]
    /\ exists \in SUBSET User
    /\ balance = Float + 2 * BaseReserve
    /\ sponsoring = 0
    /\ base \in BaseFees
    /\ qpc = [q \in Quote |-> "new"]
    /\ doc = [q \in Quote |-> <<>>]
    /\ spc = [s \in Submit |-> "new"]
    /\ of = [s \in Submit |-> NoQuote]
    /\ seen = [s \in Submit |-> 0]
    /\ saw = [s \in Submit |-> 0]
    /\ counts = [submissions |-> 0, failures |-> 0]
    /\ net = [s \in Submit |-> "unsent"]
    /\ bid = [s \in Submit |-> 0]
    /\ settled = [q \in Quote |-> 0]
    /\ paid = {} /\ disturbed = {} /\ short = {}

-----------------------------------------------------------------------------
(* quote() *)

Ops(opens) == IF opens THEN Opening ELSE Moving
Reserve(opens) == IF opens THEN Units * BaseReserve ELSE 0

\* Plan::new, pricing and the account as Horizon has it: the mode, and in
\* sponsored mode the number, are decided here, and hold for good.
ReadAccount(q) ==
    /\ qpc[q] = "new"
    /\ \E u \in User, opens \in BOOLEAN :
          doc' = [doc EXCEPT ![q] =
              [mode |-> IF u \in exists THEN "sponsored" ELSE "bootstrap",
               user |-> u, opens |-> opens, source |-> u,
               sequence |-> number[u] + 1,
               charge |-> Charge(NetworkFee(base, Ops(opens)), Reserve(opens)),
               base |-> base]]
    /\ qpc' = [qpc EXCEPT ![q] = "priced"]
    /\ UNCHANGED <<accountVars, fundVars, base, submitVars, netVars, historyVars>>

\* In bootstrap a lane is the source, with the next number Horizon knew of it.
SealQuote(q) ==
    /\ qpc[q] = "priced"
    /\ IF doc[q].mode = "sponsored"
       THEN UNCHANGED doc
       ELSE \E l \in Lane : \E n \in 1 .. number[l] + 1 :
               doc' = [doc EXCEPT ![q].source = l, ![q].sequence = n]
    /\ qpc' = [qpc EXCEPT ![q] = "sealed"]
    /\ UNCHANGED <<accountVars, fundVars, base, submitVars, netVars, historyVars>>

-----------------------------------------------------------------------------
(* submit() *)

Goto(s, step) == spc' = [spc EXCEPT ![s] = step]

Locked == (2 + sponsoring) * BaseReserve

\* sponsor_funds: what the sponsor has over the reserves it has to keep.
Spendable == balance - Locked

\* Quote::open, network_params, and the checks that are not modelled here.
StartSubmit(s, q) ==
    /\ spc[s] = "new"
    /\ qpc[q] = "sealed"
    /\ of' = [of EXCEPT ![s] = q]
    /\ seen' = [seen EXCEPT ![s] = base]
    /\ Goto(s, "funds")
    /\ UNCHANGED <<accountVars, fundVars, base, quoteVars, saw, counts, netVars, historyVars>>

\* sponsor_funds: the sponsor's account is read, then the base reserve.
ReadFunds(s) ==
    /\ spc[s] = "funds"
    /\ saw' = [saw EXCEPT ![s] = Spendable]
    /\ disturbed' = disturbed \ {s}
    /\ Goto(s, "gate")
    /\ UNCHANGED <<accountVars, fundVars, base, quoteVars, of, seen, counts, netVars,
                   settled, paid, short>>

\* Mutant: the reserves the transaction locks are not asked for.
NeededFeeOnly(q, b) == b * (Ops(doc[q].opens) + 1)

\* What the float gate wants the sponsor to have.
Needed(q, b) == Reserve(doc[q].opens) + b * (Ops(doc[q].opens) + 1)

Bumped(q) == doc[q].source # Sponsor

InnerFee(q) == doc[q].base * Ops(doc[q].opens)

\* The fee the envelope offers: of the sponsor's fee bump, or, on the
\* sponsor's own lane, of the transaction itself.
Bid(q, b) == IF Bumped(q) THEN FeeBump(InnerFee(q), Ops(doc[q].opens), b) ELSE InnerFee(q)

\* The float is compared, the envelope signed and sent, with nothing in
\* between but what other submits do meanwhile.
GateAndSend(s) ==
    /\ spc[s] = "gate"
    /\ saw[s] >= Needed(of[s], seen[s])
    /\ net' = [net EXCEPT ![s] = "pending"]
    /\ bid' = [bid EXCEPT ![s] = Bid(of[s], seen[s])]
    /\ Goto(s, "sent")
    /\ UNCHANGED <<accountVars, fundVars, base, quoteVars, of, seen, saw, counts, historyVars>>

RefuseFloat(s) ==
    /\ spc[s] = "gate"
    /\ saw[s] < Needed(of[s], seen[s])
    /\ Goto(s, "refused")
    /\ UNCHANGED <<accountVars, fundVars, base, quoteVars, of, seen, saw, counts, netVars, historyVars>>

SameBytes(s, t) == of[s] = of[t] /\ bid[s] = bid[t]

\* Mutant: whatever Horizon answers counts as done.
AcceptedAny(s) == TRUE

\* Horizon answers 2xx when the transaction with these bytes is in the ledger
\* and succeeded, whoever sent it; a client gives up after 15 s.
Accepted(s) == \E t \in Submit : SameBytes(s, t) /\ net[t] = "applied"

\* metrics.rs: one more of what counter c counts.
Counted(c) == [counts EXCEPT ![c] = @ + 1]

\* horizon.submit() returns: counted as a submission or as a failure.
Answer(s) ==
    /\ spc[s] = "sent"
    /\ \/ /\ Accepted(s)
          /\ counts' = Counted("submissions")
          /\ Goto(s, "submitted")
       \/ \* refused by the network, or no answer in time
          /\ counts' = Counted("failures")
          /\ Goto(s, "failed")
    /\ UNCHANGED <<accountVars, fundVars, base, quoteVars, of, seen, saw, netVars, historyVars>>

-----------------------------------------------------------------------------
(* The ledger (external) *)

\* Mutant: the number is read when the transaction is built, not when quoted.
NumberFresh(s) == number[doc[of[s]].source] + 1

\* build_inner: the number the quote froze.
Number(s) == doc[of[s]].sequence

\* build_inner leaves the sponsor as a source of operations, and submit() does
\* not co-sign, in a sponsored transaction that opens something.
Authorised(q) == ~(doc[q].mode = "sponsored" /\ doc[q].opens)

\* The least the network takes.
MinBid(q) == base * (Ops(doc[q].opens) + (IF Bumped(q) THEN 1 ELSE 0))

Affordable(s) == bid[s] <= Spendable

\* The transaction takes its number and its fee is charged.
Valid(s) ==
    LET q == of[s]
    IN  /\ doc[q].source \in User => doc[q].source \in exists
        /\ number[doc[q].source] + 1 = Number(s)
        /\ Authorised(q)
        /\ MinBid(q) <= bid[s]

\* The user's account is as the mode takes it to be: not there if the
\* transaction creates it, there if it only acts for it.
ModeFits(q) ==
    doc[q].mode = "bootstrap" => (doc[q].opens <=> doc[q].user \notin exists)

\* The sponsor can lock what is opened, once fee f is paid.
Lockable(s, f) == Reserve(doc[of[s]].opens) <= Spendable - f

Fees(s) == {MinBid(of[s]), bid[s]}

\* A new account starts above every number it has had.
NumbersAfter(q, creates) ==
    [a \in Account |->
        IF a = doc[q].source \/ (creates /\ a = doc[q].user) THEN number[a] + 1 ELSE number[a]]

Take(s) ==
    /\ net[s] = "pending"
    /\ Valid(s) /\ Affordable(s)
    /\ number[doc[of[s]].source] < MaxNumber
    /\ settled' = [settled EXCEPT ![of[s]] = @ + 1]
    /\ disturbed' = disturbed \cup (Submit \ {s})
    /\ UNCHANGED <<base, quoteVars, submitVars, bid>>

Apply(s) ==
    LET q == of[s]
        creates == doc[q].mode = "bootstrap" /\ doc[q].opens
    IN  /\ Take(s)
        /\ ModeFits(q)
        /\ \E f \in Fees(s) :
              /\ Lockable(s, f)
              /\ balance' = balance + doc[q].charge - f
        /\ sponsoring' = sponsoring + (IF doc[q].opens THEN Units ELSE 0)
        /\ number' = NumbersAfter(q, creates)
        /\ exists' = IF creates THEN exists \cup {doc[q].user} ELSE exists
        /\ net' = [net EXCEPT ![s] = "applied"]
        /\ paid' = paid \cup {q}
        /\ UNCHANGED short

\* The fee is charged and nothing else happens: the claim or the route has gone
\* since it was looked at, or one of the conditions of Apply does not hold.
Fail(s) ==
    /\ Take(s)
    /\ \E f \in Fees(s) :
          /\ balance' = balance - f
          /\ short' = IF Lockable(s, f) THEN short ELSE short \cup {s}
    /\ number' = NumbersAfter(of[s], FALSE)
    /\ net' = [net EXCEPT ![s] = "failed"]
    /\ UNCHANGED <<exists, sponsoring, paid>>

Reject(s) ==
    /\ net[s] = "pending"
    /\ ~Valid(s) \/ ~Affordable(s)
    /\ net' = [net EXCEPT ![s] = "rejected"]
    /\ short' = IF Affordable(s) THEN short ELSE short \cup {s}
    /\ UNCHANGED <<accountVars, fundVars, base, quoteVars, submitVars, bid, settled, paid, disturbed>>

\* Somebody else creates the account; its owner merges it, or uses a number.
Created(u) ==
    /\ u \notin exists /\ number[u] < MaxNumber
    /\ exists' = exists \cup {u}
    /\ number' = [number EXCEPT ![u] = @ + 1]
    /\ UNCHANGED <<fundVars, base, quoteVars, submitVars, netVars, historyVars>>

Merged(u) ==
    /\ u \in exists
    /\ exists' = exists \ {u}
    /\ UNCHANGED <<number, fundVars, base, quoteVars, submitVars, netVars, historyVars>>

OwnTransaction(u) ==
    /\ u \in exists /\ number[u] < MaxNumber
    /\ number' = [number EXCEPT ![u] = @ + 1]
    /\ UNCHANGED <<exists, fundVars, base, quoteVars, submitVars, netVars, historyVars>>

BaseFeeMoves ==
    /\ base' \in BaseFees \ {base}
    /\ UNCHANGED <<accountVars, fundVars, quoteVars, submitVars, netVars, historyVars>>

QuoteStep(q) == ReadAccount(q) \/ SealQuote(q)

SubmitStep(s) ==
    \/ \E q \in Quote : StartSubmit(s, q)
    \/ ReadFunds(s)
    \/ GateAndSend(s)
    \/ RefuseFloat(s)
    \/ Answer(s)

LedgerStep(s) == Apply(s) \/ Fail(s) \/ Reject(s)

Next ==
    \/ \E q \in Quote : QuoteStep(q)
    \/ \E s \in Submit : SubmitStep(s) \/ LedgerStep(s)
    \/ \E u \in User : Created(u) \/ Merged(u) \/ OwnTransaction(u)
    \/ BaseFeeMoves

Spec == Init /\ [][Next]_vars

-----------------------------------------------------------------------------
(* Properties *)

TypeOK ==
    /\ number \in [Account -> Nat] /\ exists \subseteq User
    /\ balance \in Int /\ sponsoring \in Nat
    /\ base \in BaseFees
    /\ qpc \in [Quote -> {"new", "priced", "sealed"}]
    /\ DOMAIN doc = Quote /\ \A q \in Quote : qpc[q] # "new" => doc[q] \in Doc
    /\ spc \in [Submit -> Waiting \cup {"new", "refused", "submitted", "failed"}]
    /\ of \in [Submit -> Quote \cup {NoQuote}]
    /\ \A s \in Submit : spc[s] # "new" => of[s] \in Quote
    /\ seen \in [Submit -> Nat] /\ saw \in [Submit -> Int]
    /\ counts \in [submissions : Nat, failures : Nat]
    /\ net \in [Submit -> {"unsent", "pending", "applied", "failed", "rejected"}]
    /\ bid \in [Submit -> Nat]
    /\ settled \in [Quote -> {0, 1}]
    /\ paid \subseteq Quote /\ disturbed \subseteq Submit /\ short \subseteq Submit

\* However many submits carry a quote, and however many quotes were given one
\* number: the sponsor's fee is charged once for it at most, the user pays once
\* at most, and a quote that lost its number never costs anything again.
SlotOf == [q \in Quote |->
    IF qpc[q] = "sealed" THEN <<doc[q].source, doc[q].sequence>> ELSE <<>>]
Settles == INSTANCE Settlement WITH slot <- SlotOf, NoSlot <- <<>>
ImplementsSettlement == Settles!SettlementSpec

\* "In normal operation it only rises": what the sponsor can spend falls only by
\* the fee of a transaction that failed, or of one that was quoted before the
\* base fee rose, and by no more than that fee.
FallIsAFee ==
    \E s \in Submit :
        /\ net[s] = "pending"
        /\ net'[s] = "failed" \/ (net'[s] = "applied" /\ seen[s] > doc[of[s]].base)
        /\ Spendable - Spendable' <= bid[s]
OnlyRises == [][Spendable' < Spendable => FallIsAFee]_vars

\* The gate is a look, not a reservation, and still enough for one: if the float
\* is too small for a transaction that passed it, another submit spent from the
\* float in the meantime (or the base fee fell after the quote, and the bump
\* kept the old rate).
ShortOnlyByOthers ==
    \A s \in short : s \in disturbed \/ seen[s] < doc[of[s]].base

\* What is lost is counted: of the transactions whose fee was charged for
\* nothing, each is among the failures an operator sees, unless its submit is
\* still waiting for the answer, or was dropped there by its client.
LossesAreCounted ==
    Cardinality({s \in Submit : net[s] = "failed"}) <=
        counts.failures + Cardinality({s \in Submit : spc[s] = "sent"})
=============================================================================
