------------------------------ MODULE InnerTx ------------------------------
(***************************************************************************)
(* One request from its operations to the envelope that is sent: the plan  *)
(* (core/plan.rs), the price (core/pricing.rs), the inner transaction      *)
(* (core/build.rs), and the gates and signatures of submit (api/routes.rs, *)
(* signer/lib.rs).  The base fee and the market move in between.           *)
(*                                                                         *)
(* Operations keep their kind and the accounts they name; amounts, assets  *)
(* and addresses are abstracted to whether they can be read.  Payment and  *)
(* PathPaymentStrictSend are treated alike by all of this code and are one *)
(* kind.                                                                   *)
(***************************************************************************)
EXTENDS Pricing, Sequences, FiniteSets

CONSTANTS
    BaseReserve,  \* the ledger's base reserve
    MaxOps,       \* the longest request a plan takes (20)
    MaxAsked,     \* bound: the longest request made
    BaseFees,     \* bound: the base fees the network may have
    Route,        \* ways through the market from the fee token to XLM
    Markets,      \* bound: what the routes may ask, a price each
    PriceUnit,    \* at price p one stroop costs p / PriceUnit tokens
    Gone,         \* the price of a route that is not there
    Floats        \* bound: what the sponsor may have to spend

ASSUME ParameterAssumption ==
    /\ BaseReserve \in Nat \ {0}
    /\ MaxOps \in Nat /\ MaxAsked \in Nat
    /\ BaseFees \subseteq Nat \ {0}
    /\ Markets \subseteq [Route -> (Nat \ {0}) \cup {Gone}] /\ Gone \notin Nat /\ "none" \notin Route
    /\ PriceUnit \in Nat \ {0} /\ Floats \subseteq Int

VARIABLES
    phase,      \* where the request stands
    request,    \* what was asked, and the account and the lane it is for
    base,       \* the network's base fee
    market,     \* the price of XLM in the fee token on each route
    quote,      \* the sealed quote, or NoQuote
    tx,         \* the inner transaction build() returned, or NoTx
    envelope,   \* what was sent, or NoEnvelope
    answer,     \* how the request ended
    quoted,     \* history: the base fee and the market the quote was made at
    float       \* history: what submit() saw the sponsor able to spend

vars == <<phase, request, base, market, quote, tx, envelope, answer, quoted, float>>

Account == {"user", "other", "sponsor", "channel"}
Default == "transaction source"
None == "none"

\* What a caller can ask for; the last two are an operation whose address,
\* asset or id cannot be read, and a payment whose amount cannot.
UserOp ==
    [type : {"create_account"}, to : {"user", "other"}]
    \cup [type : {"payment", "create_claimable_balance", "unreadable", "bad_amount"}, to : {"other"}]
    \cup [type : {"change_trust", "claim_balance"}, to : {"user"}]

Request ==
    [ops : UNION {[1 .. n -> UserOp] : n \in 0 .. MaxAsked},
     exists : BOOLEAN, native : BOOLEAN, channel : {None, "channel"}]

NoQuote == [charge |-> 0]
NoTx == [fee |-> 0]
NoEnvelope == [fee |-> 0]

-----------------------------------------------------------------------------
(* core/plan.rs *)

Count(ops, type) == Cardinality({i \in DOMAIN ops : ops[i].type = type})

\* Mutant: a trustline is taken to cost nothing.
ReserveUnitsNoTrust(ops) == 2 * Count(ops, "create_account") + 2 * Count(ops, "create_claimable_balance")

\* Base reserves the sponsor locks: an account, a trustline, two claimants.
ReserveUnits(ops) ==
    2 * Count(ops, "create_account") + Count(ops, "change_trust")
        + 2 * Count(ops, "create_claimable_balance")

\* Mutant: the fee payment is not counted.
OpCountUnpaid(ops) == Len(ops) + (IF ReserveUnits(ops) > 0 THEN 2 ELSE 0)

\* The sandwich, the user's operations, the fee payment.
OpCount(ops) == Len(ops) + (IF ReserveUnits(ops) > 0 THEN 2 ELSE 0) + 1

Mode(exists) == IF exists THEN "sponsored" ELSE "bootstrap"

\* Plan::new
PlanAccepts(ops, exists) ==
    /\ ops # << >> /\ Len(ops) <= MaxOps
    /\ Count(ops, "unreadable") = 0
    /\ ~exists => /\ Count(ops, "create_claimable_balance") = 0
                  /\ Count(ops, "claim_balance") > 0

-----------------------------------------------------------------------------
(* The market (external), and core/pricing.rs and core/path.rs against it *)

\* What a route with price p asks for x stroops of XLM.
MarketCost(x, p) == CeilDiv(x * p, PriceUnit)

\* What Horizon lists: the routes that are there.
Listed(m) == {way \in Route : m[way] # Gone}

\* cheapest(): a record that asks least for x stroops, the first in Horizon's order.
Cheapest(m, x) ==
    {way \in Listed(m) :
        \A other \in Listed(m) : MarketCost(x, m[way]) <= MarketCost(x, m[other])}

ChargeFor(r, b) ==
    Charge(NetworkFee(b, OpCount(r.ops)), ReserveUnits(r.ops) * BaseReserve)

\* price(): the route is chosen at the size the rate is read at; XLM needs none.
RoutesFor(r, b, m) == IF r.native THEN {None} ELSE Cheapest(m, ReadAt(ChargeFor(r, b)))

SendMax(charge, way, m) ==
    ApplyBps(IF way = None THEN charge ELSE Scaled(charge, MarketCost(ReadAt(charge), m[way])),
             SlippageBps)

\* ensure_quoted_path: the quote's own route, whatever else is listed.
PathHolds(q, m) ==
    \/ q.native \/ q.charge <= 0
    \/ q.route \in Listed(m) /\ MarketCost(q.charge, m[q.route]) <= q.send_max

\* The quote for a request, at a base fee and a route of a market: price() and quote().
QuoteFor(r, b, m, way) ==
    LET mode == Mode(r.exists)
        reserve == ReserveUnits(r.ops) * BaseReserve
        charge == ChargeFor(r, b)
    IN  [mode |-> mode, ops |-> r.ops, native |-> r.native,
         channel |-> IF mode = "bootstrap" THEN r.channel ELSE None,
         charge |-> charge,
         send_max |-> SendMax(charge, way, m),
         route |-> way,
         reserve |-> reserve,
         inner_fee |-> b * OpCount(r.ops),
         creates_account |-> mode = "bootstrap"]

-----------------------------------------------------------------------------
(* core/build.rs and core/quote.rs *)

\* Mutant: the channel field, also when it is empty.
TxSourceChannel(q) == IF q.mode = "sponsored" THEN "user" ELSE q.channel

TxSource(q) ==
    CASE q.mode = "sponsored" -> "user"
      [] q.mode = "bootstrap" /\ q.channel = None -> "sponsor"
      [] OTHER -> q.channel

SponsorshipSource(q) == IF TxSource(q) = "sponsor" THEN Default ELSE "sponsor"

\* Mutant: left to the transaction source in both modes.
UserSourceDefault(q) == Default

UserSource(q) == IF q.mode = "sponsored" THEN Default ELSE "user"

InnerOp(q, op) ==
    [type |-> op.type, to |-> op.to,
     source |-> IF op.type = "create_account" THEN Default ELSE UserSource(q)]

FeePayment(q) == [type |-> "fee_payment", to |-> "sponsor", source |-> UserSource(q)]

\* build_inner
BuildInner(q) ==
    LET begin == [type |-> "begin_sponsoring", to |-> "user", source |-> SponsorshipSource(q)]
        end == [type |-> "end_sponsoring", to |-> "user", source |-> "user"]
        asked == [i \in DOMAIN q.ops |-> InnerOp(q, q.ops[i])]
        acts == IF q.reserve > 0 THEN <<begin>> \o asked \o <<end>> ELSE asked
    IN  [source |-> TxSource(q), fee |-> q.inner_fee, ops |-> Append(acts, FeePayment(q))]

\* parse_amount is reached only when the transaction is built.
Buildable(q) == Count(q.ops, "bad_amount") = 0

-----------------------------------------------------------------------------
(* submit() in api/routes.rs, signer/lib.rs *)

\* Mutant: the reserves are not asked for.
NeededForFee(q, t, b) == b * (Len(t.ops) + 1)

\* What submit() wants the sponsor to have before it signs.
Needed(q, t, b) == q.reserve + b * (Len(t.ops) + 1)

\* Mutant: the sponsor does not co-sign for a channel.
SignedChannelOnly(q) ==
    CASE q.mode = "sponsored" -> {"user"}
      [] q.mode = "bootstrap" /\ TxSource(q) = "sponsor" -> {"user", "sponsor"}
      [] OTHER -> {"user", TxSource(q)}

\* The signatures on the inner transaction: the wallet signs for the account
\* build() names, sign_bootstrap adds the channel's and the sponsor's.
Signed(q) ==
    IF q.mode = "sponsored" THEN {"user"} ELSE {"user", "sponsor", TxSource(q)}

\* A transaction on the sponsor's own lane is sent as it is; every other one
\* is wrapped in the sponsor's fee bump.
EnvelopeFor(q, t, b) ==
    LET bumped == TxSource(q) # "sponsor"
    IN  [tx |-> t, signed |-> Signed(q), bumped |-> bumped,
         fee |-> IF bumped THEN FeeBump(t.fee, Len(t.ops), b) ELSE t.fee]

-----------------------------------------------------------------------------
(* The requests *)

Init ==
    /\ phase = "asked"
    /\ request \in Request
    /\ base \in BaseFees
    /\ market \in Markets
    /\ quote = NoQuote
    /\ tx = NoTx
    /\ envelope = NoEnvelope
    /\ answer = None
    /\ quoted = [base |-> base, market |-> market]
    /\ float = 0

Refuse(code) ==
    /\ phase' = "done"
    /\ answer' = code
    /\ UNCHANGED <<request, base, market, quote, tx, envelope, quoted, float>>

\* quote(): plan, price, sequence or lane, seal.
SealQuote ==
    /\ phase = "asked"
    /\ PlanAccepts(request.ops, request.exists)
    /\ \E way \in RoutesFor(request, base, market) : quote' = QuoteFor(request, base, market, way)
    /\ quoted' = [base |-> base, market |-> market]
    /\ phase' = "quoted"
    /\ UNCHANGED <<request, base, market, tx, envelope, answer, float>>

RefusePlan ==
    /\ phase = "asked"
    /\ ~PlanAccepts(request.ops, request.exists)
    /\ Refuse("invalid_request")

\* token_amount_for_xlm: nothing buys XLM with this token.
RefuseRoute ==
    /\ phase = "asked"
    /\ PlanAccepts(request.ops, request.exists)
    /\ RoutesFor(request, base, market) = {}
    /\ Refuse("no_path")

Build ==
    /\ phase = "quoted"
    /\ Buildable(quote)
    /\ tx' = BuildInner(quote)
    /\ phase' = "built"
    /\ UNCHANGED <<request, base, market, quote, envelope, answer, quoted, float>>

RefuseBuild ==
    /\ phase = "quoted"
    /\ ~Buildable(quote)
    /\ Refuse("invalid_request")

RefusePath ==
    /\ phase = "built"
    /\ ~PathHolds(quote, market)
    /\ Refuse("path_moved")

RefuseFloat(f) ==
    /\ phase = "built"
    /\ PathHolds(quote, market)
    /\ f < Needed(quote, tx, base)
    /\ Refuse("sponsor_float")

Send(f) ==
    /\ phase = "built"
    /\ PathHolds(quote, market)
    /\ f >= Needed(quote, tx, base)
    /\ envelope' = EnvelopeFor(quote, tx, base)
    /\ float' = f
    /\ answer' = "sent"
    /\ phase' = "done"
    /\ UNCHANGED <<request, base, market, quote, tx, quoted>>

\* The quote's channel is not among this process's keys.
UnknownChannel(f) ==
    /\ phase = "built"
    /\ PathHolds(quote, market)
    /\ f >= Needed(quote, tx, base)
    /\ quote.channel # None
    /\ Refuse("unknown_channel")

\* The network's parameters and the market move between the calls (external).
Move ==
    /\ phase \in {"quoted", "built"}
    /\ base' \in BaseFees
    /\ market' \in Markets
    /\ UNCHANGED <<phase, request, quote, tx, envelope, answer, quoted, float>>

Next ==
    \/ SealQuote
    \/ RefusePlan
    \/ RefuseRoute
    \/ Build
    \/ RefuseBuild
    \/ RefusePath
    \/ \E f \in Floats : RefuseFloat(f) \/ UnknownChannel(f) \/ Send(f)
    \/ Move

Spec == Init /\ [][Next]_vars

-----------------------------------------------------------------------------
(* What the network makes of a transaction (external) *)

\* The account an operation acts for.
Actor(t, op) == IF op.source = Default THEN t.source ELSE op.source

TxOps(t) == {t.ops[i] : i \in DOMAIN t.ops}

\* Every account that sources the transaction or an operation has to sign it.
RequiredSigners(t) == {t.source} \cup {Actor(t, op) : op \in TxOps(t)}

\* The account a new ledger entry belongs to, and whose sponsorship (CAP-33)
\* therefore has to cover it.
Creates(op) == op.type \in {"create_account", "change_trust", "create_claimable_balance"}
Beneficiary(t, op) == IF op.type = "create_account" THEN op.to ELSE Actor(t, op)

\* Base reserves the transaction's new entries lock.
Locks(t) == ReserveUnits(t.ops)

-----------------------------------------------------------------------------
(* Properties *)

Operation == [type : {op.type : op \in UserOp} \cup {"begin_sponsoring", "end_sponsoring", "fee_payment"},
              to : Account, source : Account \cup {Default}]

TypeOK ==
    /\ phase \in {"asked", "quoted", "built", "done"}
    /\ base \in BaseFees /\ market \in Markets
    /\ quote.charge \in Nat
    /\ tx # NoTx => /\ tx.source \in Account
                    /\ tx.fee \in Nat
                    /\ \A i \in DOMAIN tx.ops : tx.ops[i] \in Operation
    /\ envelope # NoEnvelope => envelope.fee \in Nat /\ envelope.signed \subseteq Account
    /\ answer \in {None, "invalid_request", "no_path", "path_moved", "sponsor_float", "unknown_channel", "sent"}

Built == phase = "built" \/ answer = "sent"
Sent == answer = "sent"

\* The operations the plan was priced for are the operations that are built:
\* the fee written into the inner transaction is the base fee of the quote for
\* each of them, sandwich and fee payment included.
PricedIsBuilt == Built => tx.fee = quoted.base * Len(tx.ops)

\* The network takes the fee of everything that is sent: a fee bump pays the
\* minimum for one operation more, at a rate not below the inner
\* transaction's; a plain transaction pays the minimum unless the base fee
\* rose after the quote.
FeeAccepted ==
    Sent => LET n == Len(envelope.tx.ops)
            IN  IF envelope.bumped
                THEN /\ envelope.fee >= base * (n + 1)
                     /\ envelope.fee * n >= envelope.tx.fee * (n + 1)
                ELSE base <= quoted.base => envelope.fee >= base * n

\* Nobody is served at a loss: unless the base fee rose after the quote, the
\* XLM the user pays covers the fee the sponsor pays and every reserve that
\* the transaction's own operations lock.
CostCovered ==
    Sent /\ base <= quoted.base =>
        quote.charge >= envelope.fee + BaseReserve * Locks(envelope.tx)

\* Whatever acts in the transaction acts for the user; the lane and the
\* sponsor only open the sponsorship and create the account, unfunded.
OnlyTheUserActs ==
    Built => \A op \in TxOps(tx) :
        \/ Actor(tx, op) = "user"
        \/ op.type = "begin_sponsoring" /\ Actor(tx, op) = "sponsor"
        \/ op.type = "create_account" /\ Actor(tx, op) = TxSource(quote)

\* Every ledger entry of the user's that the transaction creates lies inside
\* the sponsorship: the account has no XLM to lock for it.  That the sandwich
\* is there at all hangs on the reserves the plan counted.
OwnEntriesSponsored ==
    Built => \A i \in DOMAIN tx.ops :
        Creates(tx.ops[i]) /\ Beneficiary(tx, tx.ops[i]) = "user" =>
            /\ \E b \in 1 .. i - 1 : tx.ops[b].type = "begin_sponsoring" /\ tx.ops[b].to = "user"
            /\ \E e \in i + 1 .. Len(tx.ops) : tx.ops[e].type = "end_sponsoring"
            /\ \A e \in 1 .. i - 1 : tx.ops[e].type # "end_sponsoring"

\* Every bootstrap transaction that is sent carries all the signatures the
\* network asks for.  An unused one invalidates it too, and there is one in
\* exactly one case: claims that lock no reserve, on a channel's lane, are signed
\* by the sponsor (sign_bootstrap), of whom no operation speaks.
BootstrapAuthorised ==
    Sent /\ quote.mode = "bootstrap" =>
        /\ RequiredSigners(envelope.tx) \subseteq envelope.signed
        /\ envelope.signed \ RequiredSigners(envelope.tx) =
               IF quote.reserve = 0 /\ quote.channel # None THEN {"sponsor"} ELSE {}

\* The sponsor can pay for what it signs: the float that passed the gate
\* covers the fee of the envelope and the reserves it locks, unless the base
\* fee fell after the quote (the bump then keeps the inner rate).
GateCoversSend ==
    Sent /\ base >= quoted.base =>
        float >= envelope.fee + BaseReserve * Locks(envelope.tx)

\* A quote is refused for its route only if the market moved against it: the
\* sendMax scaled from a larger size still buys the charge at the old price.
StillMarketNotRefused ==
    answer = "path_moved" =>
        \/ quote.route \notin Listed(market)
        \/ market[quote.route] > quoted.market[quote.route]

\* "Accounts whose signature the network will require": the account build()
\* names and what the service adds are all the network asks for.
SignersComplete == Sent => RequiredSigners(envelope.tx) \subseteq envelope.signed
=============================================================================
