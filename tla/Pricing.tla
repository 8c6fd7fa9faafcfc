------------------------------ MODULE Pricing ------------------------------
(***************************************************************************)
(* The arithmetic of crates/core/src/pricing.rs and of the sponsor's fee   *)
(* bump in crates/signer/src/lib.rs.  Amounts are stroops.  The code works *)
(* in i64 with i128 products and saturating sums; the amounts of a request *)
(* of at most 20 operations stay far below 2^63, so they are integers here.*)
(***************************************************************************)
EXTENDS Integers

CONSTANTS
    MarginBps,    \* PricingConfig.margin_bps
    SlippageBps,  \* the fee token's slippage_bps
    MinCharge,    \* PricingConfig.min_charge_stroops
    Reference     \* REFERENCE_STROOPS: rates are read at this size or above

ASSUME PricingAssumption ==
    /\ MarginBps \in Nat
    /\ SlippageBps \in Nat
    /\ MinCharge \in Nat
    /\ Reference \in Nat \ {0}

AtLeast(a, b) == IF a < b THEN b ELSE a

\* (a + b - 1) / b
CeilDiv(a, b) == (a + b - 1) \div b

\* apply_bps: the value and so many basis points of it, rounded up.
ApplyBps(v, bps) == v + CeilDiv(v * bps, 10000)

\* One operation more than the inner transaction's, for the fee bump.
NetworkFee(base, ops) == base * (ops + 1)

\* Mutant: the floor swallows the reserves.
ChargeFloorOnly(fee, reserve) ==
    AtLeast(ApplyBps(fee, MarginBps), MinCharge + reserve)

\* What the sponsor is owed in XLM: cost and margin, the reserves and the
\* floor at least.
Charge(fee, reserve) ==
    AtLeast(ApplyBps(fee + reserve, MarginBps), MinCharge + reserve)

\* The size at which the rate is read.
ReadAt(xlm) == AtLeast(Reference, xlm)

\* Mutant: rounded down.
ScaledDown(xlm, cost) == AtLeast(1, (xlm * cost) \div ReadAt(xlm))

\* token_amount_for_xlm: what Horizon asked at ReadAt(xlm), scaled to xlm.
Scaled(xlm, cost) == AtLeast(1, CeilDiv(xlm * cost, ReadAt(xlm)))

\* Mutant: the bump pays for the operation it adds at the network minimum only.
FeeBumpFlat(inner, ops, base) == AtLeast(inner + base, base * (ops + 1))

\* wrap_fee_bump: one operation more than the inner transaction has, at its
\* own rate and at the network's.
FeeBump(inner, ops, base) ==
    AtLeast(inner + AtLeast(CeilDiv(inner, ops), base), base * (ops + 1))
=============================================================================
