# Verification of Cavos Reserve

Reserve is an HTTP service (Rust, `crates/`) with a TypeScript client
(`sdk/ts/`). It lets a Stellar account that holds no XLM transact: a *quote*
prices a list of operations in the caller's token, *build* returns the
unsigned transaction, and *submit* checks the signed transaction against the
quote, signs what the sponsor has to sign, and sends it to the network through
Horizon. Quotes are not stored; they travel with the client, sealed by a MAC.
The only mutable state the service keeps between requests is the table of
bootstrap leases, the rate limiter and four counters, all of it in memory.

## Inventory

| part | source | state | operations |
|---|---|---|---|
| channel pool | `api/src/channels.rs` | one `Mutex<Option<Lease>>` per lane | `lease`, `release` |
| handlers | `api/src/routes.rs` | none of their own; what they read across awaits | `quote`, `build`, `submit`, `status`, keys |
| sealed quote | `core/src/quote.rs` | held by the client | `seal`, `open`, `check_fresh`, `tx_source` |
| claim check | `core/src/claim.rs`, `horizon/src/{types,predicate}.rs` | read from Horizon | `ensure_claims`, `claimable_by`, `holds` |
| route check | `core/src/path.rs` | read from Horizon | `ensure_quoted_path` |
| plan and price | `core/src/{plan,pricing}.rs` | none | `Plan::new`, `price` |
| transaction | `core/src/{build,validate}.rs`, `signer/src/lib.rs` | none | `build_inner`, `check_signed_inner`, `co_sign`, `wrap_fee_bump` |
| limits, keys | `api/src/{limits,auth,apikey}.rs` | GCRA buckets; none for keys | `check`, `challenge`, `verify`, `mint` |
| client SDK | `sdk/ts/src` | none | `quote`, `build`, `send`, `verifyQuote`, `verifyTransaction` |
| sponsor's float | `api/src/{state,routes,metrics}.rs`, `signer/src/lib.rs` | four counters; the balance itself is on the ledger | `sponsor_funds`, the gate in `submit`, the counting |
| configuration, start | `api/src/{config,main,state}.rs`, `core/src/tokens.rs` | read once, then fixed | `Boot::from_env`, `app`, `Allowlist::allows` |
| network | external | ledger, accounts, clock | applies or rejects transactions |

### How the parts meet

* `quote()` = limits → `Plan::new` → Horizon (`network_params`, route) →
  `price` → `ensure_claims` → `ChannelPool::lease` (bootstrap only) → seal.
  Nothing but the lease is remembered by the process.
* `build()` opens the seal and calls `build_inner`; it is a pure function of
  the quote.
* `submit()` opens the seal and then, with an await between any two:
  `network_params` → `ensure_claims` → `ensure_quoted_path` →
  `check_signed_inner` → the sponsor's float → signatures and fee bump →
  `horizon.submit` → `ChannelPool::release`. A refusal on the way releases the
  lane or keeps it, by `bootstrap_lane_spent`.
* A sealed quote, a signed transaction, a challenge and a key are documents
  held by others: they come back any number of times, late, and after a restart.
* Every submit reads the same sponsor's balance, compares, signs and sends, with
  nothing reserved in between.
* Settings are read once, at the start. What one process seals or issues comes
  back to the next, which may have been started with other settings.
* The SDK compares the quote with the request and the transaction with both
  before a wallet sees it; the service compares the signed transaction with what
  it would build from the quote.

### What is hard about it

* **Concurrency.** tokio handlers interleave at every await. A lane's mutex is
  held across an HTTP request; a handler whose client goes away is dropped in
  the middle, guards included.
* **Staleness.** Time is read before a wait and used after it; the base fee, the
  market, balances and the ledger number are read at quote, again at submit, and
  matter when the network applies the transaction.
* **Failure.** Horizon fails or times out after the transaction may have been
  accepted; a restart forgets leases and keeps the quotes made from them.
* **Arithmetic.** Fees are computed from counts made in one place and
  transactions built in another, with roundings in several places that must all
  lean the same way.
* **Two implementations.** The client rebuilds in TypeScript what the service
  builds in Rust.

### What makes each part correct

| part | what has to be true | stated as |
|---|---|---|
| channel pool | a lane has one holder; a check survives the await; "busy" is honest; nobody is stranded | `OneHolderPerLane`, `CheckedLaneStaysFree`, `BusyMeansLeased`, `CallsAnswered` |
| handlers | a spent quote frees its lane, a usable one keeps it; nothing hopeless is sent | `SpentLaneFreed`, `LaneKept`, `NoHopelessTransaction` |
| plan, price, transaction | what is priced is built, accepted by the network and paid for; only the user acts; the right signatures | `PricedIsBuilt`, `FeeAccepted`, `CostCovered`, `GateCoversSend`, `OnlyTheUserActs`, `OwnEntriesSponsored`, `BootstrapAuthorised`, `StillMarketNotRefused` |
| claim check | what is cleared applies; what is refused would not have | `ClearedApplies`, `RefusedFails` |
| float | a number is paid for once; the float falls only by fees, and what is lost was counted; one submit alone is never short | `ImplementsSettlement`, `OnlyRises`, `LossesAreCounted`, `ShortOnlyByOthers` |
| configuration | no token on mainnet but a checked or a named one; what a process hands out is good with the next | `FeeTokenWasChosen`, `IssuedIsAccepted`, `SignedAsQuoted` |
| limits | limits bind per caller whatever address it uses; a refusal is the caller's own doing, or capacity | `MinuteBound`, `DenialIsEarned`, `CapacityIsReal` |
| keys | a key is earned, works when issued, and is the only one | `KeysAreEarned`, `FreshKeyWorks`, `OneKeyAtATime` |
| client SDK | only what was asked is signed, whatever is answered; an honest answer is taken | `SignedIsAsked`, `PinsHold`, `HonestIsServed` |

## Modules

```
LaneLease  <--refines--  ChannelPool   <- ChannelPoolProofs
   ^
   | extends
Bootstrap  <- BootstrapProofs

             Pricing  <- PricingProofs
              ^    ^ extends
       InnerTx    SponsorFloat  --refines-->  Settlement
          ^            ^
InnerTxProofs         SponsorFloatProofs

Client <- ClientProofs
Keys, Limits, Claims <- AccessProofs
Deployment <- DeploymentProofs
```

`MC*` modules only give constants their values and define symmetries. A
definition with `Mutant:` above it is a plausible wrong version of the one that
follows; nothing uses it, and substituting it must break the property
`PROJECT.json` names.

**LaneLease** is the abstract pool: `Grant`, `Release`, `Forget`, with time and
the ledger (`Tick`, `Consume`). **ChannelPool** is the code: `slot[l]` is the
`Option<Lease>`, `lock[l]` the mutex around it, `pc`, `now`, `at`, `read` the
locals of a `lease()` call in flight. One action is the stretch from one await
to the next: `StartLease` (clock read), `PassLane` / `TakeLane` (lock acquired,
lane leased or free), `ReadAccount` / `ReadFails` (Horizon), `GrantLane`,
`AllBusy`, `DropLease` (the handler is dropped), `StartRelease`, `ReleaseLane` /
`ReleaseNothing`, `DropRelease`, `Restart`. `held` is a ghost: the quotes whose
lease nobody has released or forgotten.

**Bootstrap** puts the handlers on top of LaneLease. `qpc`/`doc` are quote
requests and the documents they return, `spc`/`of`/`seen`/`answer` submit
requests; `net` is what became of a transaction. Horizon reads in a row that
change nothing are one step, with every outcome.

**Pricing** has the arithmetic of `pricing.rs` and of the fee bump. **InnerTx**
takes one request through `Plan::new`, `price`, `build_inner`, the gates of
`submit()` and the signatures, with the base fee and the market moving in
between (`Move`). An operation is a record of kind, account named, and source;
`tx.ops` is the sequence that is built, sandwich and fee payment included. A
market gives each route a price, or none: the quote takes the cheapest route
there is (`Cheapest`), and the submit asks what its own route costs now
(`PathHolds`, `RefuseRoute`).

**SponsorFloat** has many submits before one balance: `ReadAccount`, where the
mode and the number are frozen, `SealQuote`, `ReadFunds`, `GateAndSend`,
`RefuseFloat`, `Answer`, and the ledger that takes, fails or rejects what was sent
(`Apply`, `Fail`, `Reject`), while accounts are created, merged and used by others
and the base fee moves. What a quote promises the sponsor is **Settlement**: an
account and a number, taken at most once.

**Deployment** has the settings of an environment, what `Boot::from_env` makes of
them (`Served`, `PrefixOf`, `Lanes`, `Verifier`, `BootFails`), and what a process
hands out and is given back: `Quote`, `IssueKey`, `SubmitQuote`, with `Stop` and
`Start` with any other environment in between.

**Claims** has `ensure_claims()` and `Predicate::holds`, at quote and at submit,
next to the ledger's own rule (`HoldsOnLedger`, `Applies`, external). A predicate
is a tree: a function from paths (the numbers of the parts from the root down, so
that a node's depth is its length) to what the nodes say. `holds` and the
ledger's rule are recursive functions over its nodes, the arriving funds a running
sum over the operations, so that both can be reasoned about. **Limits**
has `caller_of`, `Limits::check` and `prune` over a budget kept as the time it is
full again; `RequestDirect` comes from the caller's own address with any header,
`RequestForwarded` from the proxy's, with the header the proxy sends. **Keys** has the challenge, its proof, the key and its use.
**Client** has the checks of the SDK against a service that deviates in one place
of the quote and one place of the transaction.

## Runs

| run | question | distinct states | result |
|---|---|---|---|
| `pool_safety` | do three quotes racing for two lanes ever collide, with drops, expiry and restarts; is every step one of LaneLease | 1 468 867 | holds |
| `pool_liveness` | is every call of the pool answered | 7 284 | holds |
| `bootstrap_safety` | which answers give the lane back and which keep it; is anything hopeless sent | 3 074 736 | holds |
| `bootstrap_numbers` | are two waiting quotes never given one number, as the comment says | 12-state trace | violated |
| `inner_safety` | is what is priced built, accepted, paid for, sponsored and signed | 1 336 024 | holds |
| `inner_signers` | does what is sent carry every signature the network asks for | 4-state trace | violated |
| `client_safety` | what can a wallet be given to sign; is an honest answer served | 969 132 | holds |
| `claims_safety` | does the claim check agree with the ledger | 1 232 832 | holds |
| `limits_safety` | who is refused, and because of whom | 698 118 | holds |
| `keys_safety` | can a key be unearned, dead on arrival, or one of two | 2 364 116 | holds |
| `float_safety` | what can submits racing for one float, late, twice or never answered, cost the sponsor | 2 362 304 | holds |
| `deploy_safety` | which tokens are taken; what are quotes and keys worth after a restart with other settings, and which signatures do their transactions get | 553 190 | holds |

Deadlock is checked where the system keeps going by itself (pool, bootstrap and
deployment: a restart is always possible; float: the base fee can always move). It
is off for the modules of one request, which ends, and for the two with a bounded
clock.

### Bounds, and why they are enough

* **pool_safety**: two lanes (passing over one and taking the next, all busy),
  three quotes (two that hold both lanes and one that is turned away or waits),
  a lease of two ticks and a clock of three (a lease is read old, expires, is
  taken over), one transaction per lane (a number is used and the next read).
  Quotes are interchangeable, and the run uses that symmetry; the liveness run,
  with two quotes, does not.
* **bootstrap_safety**: one lane (two would be two copies), two quotes and two
  submits (a duplicate of one, or one of each, around an expiry), two numbers.
  `bootstrap_numbers` needs three quotes and one submit.
* **inner_safety**: requests of up to four operations against a limit of three
  (the code's is 20: what matters is one over), all kinds; base fees 1 and 2,
  two routes with prices of 1/3, 2/3 or 4/3 tokens per stroop, so that divisions
  round, or gone; floats that suffice for none, some and all. A slippage of 0 is
  the tightest the route check can meet. The proofs cover every value of these.
* **client_safety**: two operations are enough to add, drop, swap, repeat and
  change one; prices below, at and above the ceiling.
* **claims_safety**: two operations over two balances, predicates that take every
  branch, of depth up to 6 (`MaxDepth`; the code's cap is 4), pairs that are not pairs; times before,
  at and after the deadlines.
* **limits_safety**: a minute of four ticks, rates of 1 and 2 to the minute with a
  shared 2, eight ticks: nearly two whole minutes. One host with two addresses of
  one /64, one with an IPv4 address in both spellings, one key, with and without
  a proxy, whose address is a third. The header is missing, cannot be read, has one
  address or two, and without a proxy names anybody.
* **float_safety**: two quotes and two submits (one quote sent twice, or two that
  compete for a number or for the float), one user, the sponsor and another lane
  as sources, base fees 1 and 2, a float that is enough for one opening
  transaction and not for two. Numbers stop at 2, so that one is used, and the
  next. Quotes and submits are interchangeable, and the run uses that symmetry.
* **deploy_safety**: environments that vary the networks' prefixes with the
  tokens they name, the issuer with the pinned public key, and the sponsor with
  its channels and the quote key, by value and by file, unset, empty and unusable.
  A quote opens a sponsorship or none, in either mode.
  One quote, one key and one transaction are followed: none looks at another.
* **keys_safety**: years of three ticks and challenges of two, so that a challenge
  outlives a year's end; eight ticks are more than two turns of a year; four
  challenges, signatures and keys at once.

### Fairness

Only `pool_liveness` assumes any. A tokio mutex serves its waiters in order, so a
waiter whose lock is free again and again gets it: strong fairness on the steps
that take a lock. Every Horizon request ends, because the client is built with a
15 s timeout (`horizon/src/client.rs:36-47`): weak fairness on the answer. A task
that can run is run: weak fairness on what is left. Nothing is assumed of clients,
the clock or restarts.

### Abstractions

* One clock stands for `Instant` and Unix time; a tick is as long as one wishes.
* The lanes' configuration does not change across a restart.
* In Bootstrap a quote has one balance, and every Horizon failure is one refusal;
  a sent transaction may also fail on the ledger for reasons not modelled.
* In InnerTx one submit is made per request; payment and path payment are one
  kind; each route is linear in the amount; amounts are readable or not; protocol amounts are
  far from the ends of `i64`, so sums do not saturate.
* In SponsorFloat a transaction either moves money or also opens something; what
  a submit checks before it reads the float is InnerTx's, and may have changed by
  the time the ledger applies it (`Fail`). Lanes are given any number up to the
  next one, leases being ChannelPool's. The sponsor's balance moves only by what
  the service does.
* In Deployment a key pair has one name, and whatever cannot be read or parsed is
  one value that ends the start; expiry of quotes and keys is left out.
* In Client the service deviates in at most one place of the quote and one of the
  transaction; the proofs lift this to any answer of the right shape. The fee, time bounds and memo of the transaction are not compared
  by the client and are left out; requests the plan refuses are InnerTx's.
* In Claims dates are numbers that can be read; in ClearedApplies nothing but the
  fee is paid out of the claims, and no balance is claimed twice (both are cases
  the check does not look at).
* In Limits the `governor` crate is modelled from its documentation, and the loss
  of all budgets at a restart is left out. The code takes the first address of
  `X-Forwarded-For`, and the proxy's own when there is none that can be read
  (`routes.rs:435-446`). The proxy is taken to put the caller first, as
  `README.md:159` of the repository asks; behind one that appends, a caller
  chooses its bucket and nothing here holds. A request without a readable header
  counts as the proxy's own: all such requests share one budget, and a denial
  there is earned by all of them together. Every peer has an address.
* In Keys a MAC is modelled by who made the challenge, a signature by who signed
  what for which network.

## Proofs

All proofs are for every value of the constants, under the modules' named
`ASSUME`s (positive lease length, prices and base fees; "no lease" is not a
lease; no lane is a user's account; rates that divide a minute; hosts of different
sites), which TLC evaluates in the runs.

**ChannelPoolProofs.** "No two holders" is not inductive: it says nothing of a call
that has checked a lane and not yet written its lease. `IInv` adds that such a
call holds the lane's lock (`LockHeld`), that what it checked is still so
(`CheckedLaneStaysFree`), that readings are never ahead of the clock and the
ledger (`ReadingsArePast`), and ties ghosts to slots: a live grant is what its
slot says (`LiveGrantInSlot`), whatever a slot holds was granted
(`SlotWasGranted`), lanes passed over were leased past the call's start
(`PassedIsBlocked`). One lemma per action; `TypeCorrect`, `NoDoubleHolder`,
`CheckSurvivesAwait` and `BusyIsHonest` follow. `PoolImplementsLaneLease` maps
`slot` to LaneLease's `lease`: `GrantLane` is a `Grant` because the check was made
under the lock and the reading is past, releases are `Release`, a restart is
`Forget`, everything else stutters. So what Bootstrap assumes of the pool is
proved of the code's pool. What LaneLease promises comes back along the same map:
`SlotsComeBack` takes `LeaseEnds` from it, that every lease of the code ends within
one lease's length of any moment and is for no number beyond the lane's next,
however calls are dropped.

**BootstrapProofs.** A lease names no holder, so nothing that is wanted of the
handlers is inductive alone: `SpentLaneFreed` and `LaneKept` compare what a quote
says with a lease that another quote may have been given since. `OwnerSays` ties
every lease to the latest quote its lane was given to, `Carried` every submit to a
sealed quote, `AnswersFollow` every answer to where the submit stands, and
`Checked` every step of a submit to what the last look saw (a balance that is
there now was there before). With them a release clears the lease of its own
number only, and a lease that stands is the latest quote's. `SpentLanesFreed`,
`LanesKept`, `NothingHopeless` follow, for any lanes, quotes and submits.
`PoolIsUsed` says that every step of the handlers, the network and a restart is a
step of LaneLease or leaves the leases alone; with `PoolTyped` and
`PoolImplementsLaneLease`, the abstract pool is met from both sides, and
`LanesComeBack` is the same promise on the bootstrap path.

**PricingProofs.** Ceiling division, then: the charge covers fee and reserves
(`ChargeCovers`), a fee bump meets the network's two conditions
(`FeeBumpAccepted`), costs what was priced while the base fee has not risen
(`FeeBumpAsPriced`), and an amount scaled down from the reference size still buys
the charge (`ScaledIsEnough`). All of these would hold of amounts far too large;
`ChargeIsLeast`, `FeeBumpIsLeast` and `ScaledIsLeast` say that each is the least
that will do, so that the roundings, which all lean the same way, never add up to
a whole unit more than they must.

**InnerTxProofs.** `IInv` says where each document comes from: the quote from an
accepted plan at the base fee and the cheapest route of its time, the transaction
from the quote, the envelope from both. `BuiltOps` says where every asked operation stands
in what `build_inner` builds, `BuiltCount` that counting the built operations of a
kind gives the plan's count, by a bijection of positions. With the arithmetic,
every property of `inner_safety` follows, for requests of any length; that
documents keep their types (`InnerTyped`) is part of the same induction.
`BootstrapIsAuthorised` has the signatures both ways, none missing and which one is
too many; that a channel's lane needs the sponsor's signature is `BuiltOps` again,
the opening being there when a reserve was counted.

**AccessProofs** proves Keys, Limits and Claims, each of its own specification. Of the keys,
`IInv`: issued keys are rounded up from a time in the past, on a
signature that proved the account while its challenge was good; types
(`KeysTyped`) are part of it. Two keys good at
once were both rounded up to the year of the present (`SameYear`), hence equal.
Of the limits, none of what is wanted is inductive, because a request that leaves
the minute is forgotten by the ghosts and not by the budget. `Accounted` bounds the
time a budget is full again from below by each request of the last minute and
those after it (`FillsNoSooner`, which gives `MinuteBound`), and from above by the
number of them (`FullByNow`, which gives `DenialIsEarned` and `CapacityIsReal`).
The upper bound survives a request's leaving because a budget is full at most a
minute after anything was taken from it (`FullAfter`); pruning drops only budgets
that are full (`ForgottenIsAccounted`). `OneBudgetEach` says that whatever address
a host uses or claims, it has one budget and shares it with nobody: an end site is
one host, with one IPv4 address or one /64 (`SitesAssumption`).

Of the claims, the state is simple: `ClaimsInv` has types, that only a new account
that claims something has a need, and that the verdict is that of the last look,
since when nothing moved (`Verdict`). The work is in what the look computes. A
recursive function is known to satisfy its equation only when one exists:
`RunningSum` and `Valuation` build them, for a sum and for a tree, from partial
ones that agree where they overlap, by induction over sets of numbers
(`SetInduction`, from a least counterexample). Then induction from the leaves up
gives `EvaluationAgrees`, that at every node of a tree the ledger can hold the code
and the ledger say the same, and `EvaluationFailsClosed`, that in a tree without
`not`, of any depth and shape, what the code finds open is open. With the sums that
`ensure_claims` and the ledger make of the same operations (`SumsOfClaims`),
`ClearedOperationsApply` and `RefusedOperationsFail` follow, for any predicates,
balances, amounts and requests. `ClaimsAssumption` asks only that the trees are
finite, to a depth (`MaxDepth`) of any size.

**SponsorFloatProofs.** That a number is paid for once rests on numbers that never
fall: `SettledIsBehind` says that a settled quote's number is not above its
account's, so no transaction of a quote with that number is valid again, and every
step is one of Settlement or a stutter (`SettlesOnce`). That one submit alone is
never short rests on the gate: `SeenStands` says that what a submit read is still
there while no other has spent, `GatePassed` that it was enough. `PricedAsMade`
with the arithmetic gives `FloatRises`: a transaction that lands while the base
fee it was quoted at holds brings in what it costs. `LossesCounted` counts the
failures against the submits that ended in one. `FloatRises` is about one step;
`FloatFloor` adds the steps up: over any history the sponsor is never down by more
than the highest fee offered, once for each transaction that failed, or that landed
and had been quoted before the base fee rose. It rests on what was sent keeping its
fee, its quote and, once on the ledger, its outcome (`SentStays`). What Settlement promises comes back
along the refinement: `OneQuotePerSlot` says that of the quotes given one number of
one account one is charged for at most.

**DeploymentProofs.** Three facts are kept: a process runs only on settings that
did not fail (`RunsOnGoodSettings`), and what was handed out is what such
settings make (`QuotesAreMade`, `KeysAreIssued`). A wildcard on mainnet fails the
start, so a mainnet quote's token was checked or named; the verifier is the
issuer's own key unless another is pinned; and a transaction that is sent has its
lane among the configured ones, or the sponsor. `QuotesSigned` compares what is
signed with what the built transaction names: equal, but for the two kinds of
quotes listed below, one without the sponsor's signature and one with it for
nothing.

**ClientProofs.** `IInv` keeps what each phase has established: a quote that was
taken passed `verifyQuote` (`Given`), a transaction that was taken passed
`verifyTransaction` against that quote (`Established`), and what was refused
failed one of them (`Refused`). What the client asked for is matched to what it
signs by position: once the sandwich is cut off and the fee paid last, operation
*i* of the request is operation *i + k* of the transaction, and the operations
have only the fields of their type. `SignedIsWhatWasAsked`, `PinsAlwaysHold` and
`HonestIsAlwaysServed` follow. The first two need nothing of the service but the
shape of its answers: `AnyAnswerIsChecked` states them for `AnySpec`, where quote
and transaction are any of the right shape, related to the request or not, where
the run changes one place of each. The sponsor a quote names is never the user
itself.

Only model-checked: liveness (`CallsAnswered`), which with fairness is out of the
prover's reach. The two runs that end in a violation are counterexamples, and have
nothing to prove.

## Where code and comments disagree

* `bootstrap_numbers`: a lease is recognised at release by its number only. A late
  submit of an expired quote releases the lease of the next quote, which was given
  the same number, and a third quote is given it too.
* `inner_signers`: in sponsored mode with reserves the sponsor is the source of an
  operation of the inner transaction, which the sponsor does not sign. The other
  runs do not hide it: `SignedAsQuoted` names these quotes (`SponsorMissing`).

Seen while modelling, and not run:

* `creates_account` follows from the mode, not from the operations
  (`routes.rs:752`); a bootstrap quote that only claims is announced as creating
  the account.
* The sponsor signs every bootstrap transaction (`routes.rs:1055`). When it only
  claims, on a channel's lane, no reserve is counted, no operation names the
  sponsor, and the signature is one too many, which the network refuses
  (`txBAD_AUTH_EXTRA`) if the account has come into being since the quote; without
  an account it is refused anyway. `BootstrapAuthorised` and `SignedAsQuoted`
  (`SponsorUnasked`) state exactly these cases.
* The sponsorship is opened for the quote's source only (`build.rs:39`), while
  `create_account` takes any destination, with a starting balance of 0.
* `verifyQuote` folds the case of balance ids (`verify.ts:139`), `verifyOp` does
  not (`verify.ts:360`): an id in capitals passes the first check and fails the
  second.
* `not` over a relative deadline that cannot be placed in time is claimable
  (`predicate.rs:65`), against "fail-closed" in the module's head; `ClearedApplies`
  therefore asks for trees without `not`, or deadlines that can be placed.
* A key is good until the end of a fixed year (`routes.rs:596-598`), which may be
  much less than "a year".
* A caller refused at capacity has spent a cell of its own (`limits.rs:109`).
* A lease is counted from a clock reading taken before the lock and a Horizon
  request (`channels.rs:80`), its quote's `max_time` from a later one
  (`routes.rs:722`). The lane can be handed out while the first transaction is
  still valid, against `channels.rs:72-74`; the loser costs nothing but its
  caller's time, because a number is used once (`ImplementsSettlement`).
* One balance claimed twice passes the claim check, its amount counted twice
  (`claim.rs:38-60`), and fails on the ledger.
* A channel secret listed twice makes two lanes of one account
  (`config.rs:290-299`).
* The unprefixed settings of a network are ignored without a word once any
  network has a sponsor of its own (`config.rs:103`).
* A pinned public key wins over the issuer's own (`config.rs:148`): keys issued
  with the other pair are refused from the start.
* A quote sealed for one network opens on the other's path; the transaction is
  hashed for the quote's network and cannot land on the other.
* After the sponsor is replaced, a sponsored quote still pays the old sponsor
  (`quote.rs:24`) while the new one pays the network (`routes.rs:907`);
  `SignedAsQuoted` says that a bootstrap quote that opens a sponsorship cannot be
  signed in full then. One that opens none asks for its lane's signature only;
  there the new sponsor's is one too many, unless the new sponsor is that lane.
* A late answer counts as a failure though the transaction landed, and a duplicate
  counts as a submission though nothing moved; `LossesAreCounted` is what remains.

## Not modelled

Key derivation (SLIP-10), XDR and strkey encodings, asset and amount parsing: data
without control. HTML pages, the end-to-end driver and scripts: no state the
service depends on. MACs and signatures: taken as unforgeable. `/v1/tokens`,
`/v1/status/{hash}`, health and metrics read and return. Of the client, what
combines calls that are modelled: `pay()`, `activate()`, `connect()`.

## What comes next

1. **Accounts that are not there yet**: `pay()` with `destinationReady()`,
   `activate()`, payments made as claimable balances (`build.rs:229-262`) and their
   reclaiming: what the client reads before the quote and is stale at the submit.
2. **Refinement** of Bootstrap and SponsorFloat together: the submits of
   SponsorFloat over the leases of LaneLease, with Settlement above both.
3. **Proofs** of these: that every step of the composition is one of LaneLease and
   of Settlement.
