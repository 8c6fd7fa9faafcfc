----------------------------- MODULE Bootstrap -----------------------------
(***************************************************************************)
(* The bootstrap path of crates/api/src/routes.rs: quote() leases a lane   *)
(* and seals its number into a quote; submit() checks the quote against    *)
(* Horizon, signs, sends, and gives the lane back.  The pool is LaneLease, *)
(* which ChannelPool implements; a step of a handler runs from one await   *)
(* to the next, several Horizon reads that change nothing being one step.  *)
(*                                                                         *)
(* A quote is a sealed document in the client's hands: any number of       *)
(* submits may carry it, at once, late, or after a restart of the process. *)
(***************************************************************************)
EXTENDS LaneLease

CONSTANTS
    Quote,      \* quote requests, one per element
    Submit,     \* submit requests, one per element
    NoQuote,    \* "no quote yet": a submit that has not arrived, a lane never leased
    Validity,   \* pricing.validity_ledgers
    MaxClock,   \* bound: the clock stops here
    MaxLedger,  \* bound: ledgers stop closing here
    MaxSeq      \* bound: an account's number on the ledger stops here

ASSUME NoQuoteAssumption == NoQuote \notin Quote
ASSUME BoundsAssumption ==
    Validity \in Nat /\ MaxClock \in Nat /\ MaxLedger \in Nat /\ MaxSeq \in Nat

VARIABLES
    ledger,     \* the latest closed ledger
    open,       \* quotes whose balance is on the ledger, claimable and enough
    qpc,        \* qpc[q]: where q's quote request stands
    doc,        \* doc[q]: what quote q says, once sealed
    spc,        \* spc[s]: where submit s stands
    of,         \* of[s]: the quote submit s carries
    matches,    \* matches[s]: the signed transaction is the quoted one
    seen,       \* seen[s]: params.latest_ledger as submit s read it
    answer,     \* answer[s]: what submit s answers its client
    net,        \* net[s]: what became of the transaction submit s sent
    owner,      \* history: owner[l] is the quote of l's latest lease
    forgotten,  \* history: quotes whose lease a restart forgot
    hopeful     \* history: submits whose balance was there when they arrived

submitVars == <<spc, of, matches, seen, answer>>
handlerVars == <<qpc, doc, submitVars>>
historyVars == <<owner, forgotten, hopeful>>
vars == <<leaseVars, ledger, open, handlerVars, net, historyVars>>

Doc == [lane : Lane, sequence : Nat, lease_until : Nat,
        max_time : Nat, expires_at_ledger : Nat]

InHandler == {"claims", "path", "float", "sent", "release"}
Refusals == {"unclaimable", "path_moved", "quote_expired", "mismatch", "sponsor_float"}

TypeOK ==
    /\ LeaseTypeOK
    /\ ledger \in Nat
    /\ open \in SUBSET Quote
    /\ qpc \in [Quote -> {"new", "priced", "sealed", "refused"}]
    /\ doc \in [Quote -> Doc \cup [expires_at_ledger : Nat]]
    /\ spc \in [Submit -> {"new", "done", "dropped"} \cup InHandler]
    /\ of \in [Submit -> Quote \cup {NoQuote}]
    /\ matches \in [Submit -> BOOLEAN]
    /\ seen \in [Submit -> Nat]
    /\ answer \in [Submit -> {"none", "submitted", "horizon"} \cup Refusals]
    /\ net \in [Submit -> {"unsent", "pending", "applied", "failed", "rejected"}]
    /\ owner \in [Lane -> Quote \cup {NoQuote}]
    /\ forgotten \in SUBSET Quote
    /\ hopeful \in SUBSET Submit

Init ==
    /\ LeaseInit
    /\ ledger = 0
    /\ open = Quote
    /\ qpc = [q \in Quote |-> "new"]
    /\ doc = [q \in Quote |-> [expires_at_ledger |-> 0]]
    /\ spc = [s \in Submit |-> "new"]
    /\ of = [s \in Submit |-> NoQuote]
    /\ matches = [s \in Submit |-> FALSE]
    /\ seen = [s \in Submit |-> 0]
    /\ answer = [s \in Submit |-> "none"]
    /\ net = [s \in Submit |-> "unsent"]
    /\ owner = [l \in Lane |-> NoQuote]
    /\ forgotten = {}
    /\ hopeful = {}

-----------------------------------------------------------------------------
(* quote() *)

\* Mutant: the validity is taken off instead of added.
ExpiryLedgerBack == ledger - Validity - 1

ExpiryLedger == ledger + Validity

\* network_params, pricing and ensure_claims: the quote's ledger deadline is
\* counted from here, before the lane is leased.
PriceQuote(q) ==
    /\ qpc[q] = "new"
    /\ q \in open
    /\ qpc' = [qpc EXCEPT ![q] = "priced"]
    /\ doc' = [doc EXCEPT ![q] = [expires_at_ledger |-> ExpiryLedger]]
    /\ UNCHANGED <<leaseVars, ledger, open, submitVars, net, historyVars>>

\* channels.lease() returns a lane; the time bound is read afterwards and the
\* quote sealed, with no await in between.
SealQuote(q) ==
    /\ qpc[q] = "priced"
    /\ \E l \in Lane : \E s \in 1 .. chain[l] + 1, e \in Ttl .. clock + Ttl :
        /\ Grant(l, s, e)
        /\ doc' = [doc EXCEPT ![q] =
               [lane |-> l, sequence |-> s, lease_until |-> e,
                max_time |-> clock + Ttl,
                expires_at_ledger |-> @.expires_at_ledger]]
        /\ owner' = [owner EXCEPT ![l] = q]
    /\ qpc' = [qpc EXCEPT ![q] = "sealed"]
    /\ UNCHANGED <<ledger, open, submitVars, net, forgotten, hopeful>>

\* Not claimable, no route, Horizon down, every lane busy, client gone: the
\* request ends with no lane.
RefuseQuote(q) ==
    /\ qpc[q] \in {"new", "priced"}
    /\ qpc' = [qpc EXCEPT ![q] = "refused"]
    /\ UNCHANGED <<leaseVars, ledger, open, doc, submitVars, net, historyVars>>

-----------------------------------------------------------------------------
(* submit() *)

request == <<of, matches, seen>>

Goto(s, step) == spc' = [spc EXCEPT ![s] = step]

\* Quote::open, then network_params: the ledger number every later check uses.
StartSubmit(s, q) ==
    /\ spc[s] = "new"
    /\ qpc[q] = "sealed"
    /\ of' = [of EXCEPT ![s] = q]
    /\ \E m \in BOOLEAN : matches' = [matches EXCEPT ![s] = m]
    /\ seen' = [seen EXCEPT ![s] = ledger]
    /\ hopeful' = IF q \in open THEN hopeful \cup {s} ELSE hopeful
    /\ Goto(s, "claims")
    /\ UNCHANGED <<leaseVars, ledger, open, qpc, doc, answer, net, owner, forgotten>>

\* Mutants: an expired quote keeps its lane; a wrong signature loses it.
LaneSpentUnlessExpired(a) == a \in {"unclaimable", "path_moved", "sponsor_float"}
LaneSpentOnMismatch(a) ==
    a \in {"unclaimable", "quote_expired", "path_moved", "sponsor_float", "mismatch"}

\* bootstrap_lane_spent, and the float gate, which frees the lane on its own:
\* the answers after which the quote's lane is given back.
LaneSpent(a) == a \in {"unclaimable", "quote_expired", "path_moved", "sponsor_float"}

\* The answer is decided; a spent lane is released before it is sent.
Refuse(s, a) ==
    /\ answer' = [answer EXCEPT ![s] = a]
    /\ Goto(s, IF LaneSpent(a) THEN "release" ELSE "done")

Continue(s, step) == Goto(s, step) /\ UNCHANGED answer

\* Mutant: the claims are looked at when quoting only.
ClaimsHoldAssumed(s) == TRUE

\* ensure_claims
ClaimsHold(s) == of[s] \in open

CheckClaims(s) ==
    /\ spc[s] = "claims"
    /\ IF ClaimsHold(s) THEN Continue(s, "path") ELSE Refuse(s, "unclaimable")
    /\ UNCHANGED <<leaseVars, ledger, open, qpc, doc, request, net, historyVars>>

Expired(s) == seen[s] > doc[of[s]].expires_at_ledger

\* check_signed_inner: the deadline first, then the body.
CheckSignedInner(s) ==
    CASE Expired(s)                -> Refuse(s, "quote_expired")
      [] ~Expired(s) /\ matches[s] -> Continue(s, "float")
      [] OTHER                     -> Refuse(s, "mismatch")

\* ensure_quoted_path, whose outcome is the market's, then check_signed_inner
\* with no await in between.
CheckPathAndXdr(s) ==
    /\ spc[s] = "path"
    /\ Refuse(s, "path_moved") \/ CheckSignedInner(s)
    /\ UNCHANGED <<leaseVars, ledger, open, qpc, doc, request, net, historyVars>>

\* sponsor_funds, co-signing, and the request leaves for Horizon.
CheckFloatAndSend(s) ==
    /\ spc[s] = "float"
    /\ \/ Refuse(s, "sponsor_float") /\ UNCHANGED net
       \/ Continue(s, "sent") /\ net' = [net EXCEPT ![s] = "pending"]
    /\ UNCHANGED <<leaseVars, ledger, open, qpc, doc, request, historyVars>>

\* Horizon answers, or the 15 s of the HTTP client run out with the
\* transaction still on its way: the lane is given back either way.
Answer(s) ==
    /\ spc[s] = "sent"
    /\ answer' = [answer EXCEPT ![s] = "submitted"]
    /\ Goto(s, "release")
    /\ UNCHANGED <<leaseVars, ledger, open, qpc, doc, request, net, historyVars>>

\* channels.release(q.tx_source(), q.sequence)
FreeLane(d) ==
    IF lease[d.lane] # NoLease /\ lease[d.lane].sequence = d.sequence
    THEN Release(d.lane, d.sequence)
    ELSE UNCHANGED leaseVars

ReleaseBootstrap(s) ==
    /\ spc[s] = "release"
    /\ FreeLane(doc[of[s]])
    /\ Continue(s, "done")
    /\ UNCHANGED <<ledger, open, qpc, doc, request, net, historyVars>>

\* Horizon fails on one of the reads, or signing does: the lane stays leased.
FailSubmit(s) ==
    /\ spc[s] \in {"claims", "path", "float"}
    /\ Refuse(s, "horizon")
    /\ UNCHANGED <<leaseVars, ledger, open, qpc, doc, request, net, historyVars>>

\* The client goes away and the handler is dropped where it waits.
DropSubmit(s) ==
    /\ spc[s] \in InHandler
    /\ Continue(s, "dropped")
    /\ UNCHANGED <<leaseVars, ledger, open, qpc, doc, request, net, historyVars>>

-----------------------------------------------------------------------------
(* The network and the process (external) *)

CanApply(s) ==
    /\ doc[of[s]].sequence = chain[doc[of[s]].lane] + 1
    /\ clock <= doc[of[s]].max_time

\* The transaction applies: its number is used, and the claim succeeds if the
\* balance is there.
Apply(s) ==
    /\ net[s] = "pending"
    /\ CanApply(s)
    /\ chain[doc[of[s]].lane] < MaxSeq
    /\ Consume(doc[of[s]].lane)
    /\ \/ /\ of[s] \in open
          /\ net' = [net EXCEPT ![s] = "applied"]
          /\ open' = open \ {of[s]}
       \/ \* the balance, the route or the account changed in the meantime
          /\ net' = [net EXCEPT ![s] = "failed"]
          /\ UNCHANGED open
    /\ UNCHANGED <<ledger, handlerVars, historyVars>>

Reject(s) ==
    /\ net[s] = "pending"
    /\ ~CanApply(s)
    /\ net' = [net EXCEPT ![s] = "rejected"]
    /\ UNCHANGED <<leaseVars, ledger, open, handlerVars, historyVars>>

ClaimedElsewhere(q) ==
    /\ q \in open
    /\ open' = open \ {q}
    /\ UNCHANGED <<leaseVars, ledger, handlerVars, net, historyVars>>

CloseLedger ==
    /\ ledger < MaxLedger
    /\ ledger' = ledger + 1
    /\ UNCHANGED <<leaseVars, open, handlerVars, net, historyVars>>

Pass ==
    /\ clock < MaxClock
    /\ Tick
    /\ UNCHANGED <<ledger, open, handlerVars, net, historyVars>>

\* The process restarts: the leases and the requests under way are gone, the
\* sealed quotes and the transactions already sent are not.
Restart ==
    /\ Forget
    /\ qpc' = [q \in Quote |-> IF qpc[q] = "priced" THEN "refused" ELSE qpc[q]]
    /\ spc' = [s \in Submit |-> IF spc[s] \in InHandler THEN "dropped" ELSE spc[s]]
    /\ forgotten' = forgotten \cup {q \in Quote : qpc[q] = "sealed"}
    /\ UNCHANGED <<ledger, open, doc, request, answer, net, owner, hopeful>>

QuoteStep(q) == PriceQuote(q) \/ SealQuote(q) \/ RefuseQuote(q)

SubmitStep(s) ==
    \/ \E q \in Quote : StartSubmit(s, q)
    \/ CheckClaims(s)
    \/ CheckPathAndXdr(s)
    \/ CheckFloatAndSend(s)
    \/ Answer(s)
    \/ ReleaseBootstrap(s)
    \/ FailSubmit(s)
    \/ DropSubmit(s)

NetworkStep(s) == Apply(s) \/ Reject(s)

Next ==
    \/ \E q \in Quote : QuoteStep(q) \/ ClaimedElsewhere(q)
    \/ \E s \in Submit : SubmitStep(s) \/ NetworkStep(s)
    \/ CloseLedger
    \/ Pass
    \/ Restart

Spec == Init /\ [][Next]_vars

-----------------------------------------------------------------------------
(* Properties *)

Holds(q) == owner[doc[q].lane] = q /\ lease[doc[q].lane] # NoLease

SameNumber(p, q) == doc[p].lane = doc[q].lane /\ doc[p].sequence = doc[q].sequence

Sealed(q) == qpc[q] = "sealed"

\* The answers after which a quote cannot, or need not, use its lane again.
LaneUseless == {"unclaimable", "quote_expired", "path_moved", "sponsor_float", "submitted"}

\* A submit that answers that the quote can never land, or that it was sent,
\* has left no lease of that quote behind: the next caller need not wait for
\* the time limit.  The same goes for a wrong signature on an expired quote.
SpentLaneFreed ==
    \A s \in Submit :
        /\ spc[s] = "done"
        /\ answer[s] \in LaneUseless \/ (answer[s] = "mismatch" /\ Expired(s))
        => ~Holds(of[s])

\* Until its deadline a quote keeps its lane through everything that leaves
\* it usable: wrong signatures, Horizon errors, lost connections, submits of
\* other quotes.  Only a restart, or a submit with the same lane and number
\* that ended useless or sent, takes it away.
LaneKept ==
    \A q \in Quote :
        Sealed(q) /\ q \notin forgotten /\ doc[q].lease_until > clock =>
            \/ Holds(q)
            \/ \E s \in Submit :
                /\ spc[s] = "done" /\ answer[s] \in LaneUseless
                /\ SameNumber(of[s], q)

\* The sponsor never signs for a lost cause: no transaction is sent whose
\* balance was already gone, or whose ledger deadline had already passed, when
\* its submit arrived.  A number is burnt only by what happens after that.
NoHopelessTransaction ==
    \A s \in Submit : net[s] # "unsent" =>
        /\ s \in hopeful
        /\ seen[s] <= doc[of[s]].expires_at_ledger

\* Still counting on its lane: leased, within the deadline, and no submit of
\* its own has ended.
Waiting(q) ==
    /\ Sealed(q) /\ q \notin forgotten
    /\ doc[q].lease_until > clock
    /\ \A s \in Submit : of[s] = q => spc[s] \notin {"release", "done"}

\* What channels.rs says of a lease: two concurrent quotes are never handed
\* the same number.
NumbersNotShared ==
    \A p, q \in Quote : Waiting(p) /\ Waiting(q) /\ SameNumber(p, q) => p = q

=============================================================================
