--------------------------- MODULE PricingProofs ---------------------------
(***************************************************************************)
(* What the arithmetic of Pricing guarantees for every amount, every       *)
(* configuration and every number of operations.                           *)
(***************************************************************************)
EXTENDS Pricing, TLAPS

USE PricingAssumption

\* Rounding up: the least multiple that reaches the amount, and no further.
LEMMA CeilDivBounds ==
  ASSUME NEW a \in Nat, NEW b \in Nat \ {0}
  PROVE  /\ CeilDiv(a, b) \in Nat
         /\ b * CeilDiv(a, b) >= a
         /\ b * CeilDiv(a, b) < a + b
<1> DEFINE x == a + b - 1
<1>1. x \in Nat
  OBVIOUS
<1>2. x \div b \in Nat /\ x = b * (x \div b) + (x % b) /\ x % b \in 0 .. b - 1
  BY <1>1
<1> QED BY <1>2 DEF CeilDiv

LEMMA CeilDivLeast ==
  ASSUME NEW a \in Nat, NEW b \in Nat \ {0}, NEW v \in Int, b * v >= a
  PROVE  v >= CeilDiv(a, b)
<1> DEFINE c == CeilDiv(a, b)
<1>1. c \in Nat /\ b * c < a + b
  BY CeilDivBounds
<1> HIDE DEF c
<1>2. SUFFICES ASSUME v <= c - 1 PROVE FALSE
  BY <1>1 DEF c
<1>3. b * v <= b * (c - 1)
  BY <1>1, <1>2
<1>4. b * (c - 1) = b * c - b /\ b * c \in Int /\ b * v \in Int
  BY <1>1
<1> QED BY <1>1, <1>3, <1>4

\* A multiple divides without a remainder.
LEMMA CeilDivExact ==
  ASSUME NEW k \in Nat, NEW b \in Nat \ {0}
  PROVE  CeilDiv(k * b, b) = k
<1> DEFINE c == CeilDiv(k * b, b)
<1>1. k * b \in Nat
  OBVIOUS
<1>2. c \in Nat /\ b * c >= k * b /\ b * c < k * b + b
  BY <1>1, CeilDivBounds
<1> HIDE DEF c
<1>3. c >= k
  <2>1. SUFFICES ASSUME c < k PROVE FALSE
    BY <1>2
  <2>2. c <= k - 1
    BY <2>1, <1>2
  <2>3. b * c <= b * (k - 1)
    BY <2>2, <1>2
  <2> QED BY <2>3, <1>2
<1>4. c <= k
  <2>1. SUFFICES ASSUME c >= k + 1 PROVE FALSE
    BY <1>2
  <2>2. b * c >= b * (k + 1)
    BY <2>1, <1>2
  <2> QED BY <2>2, <1>2
<1> QED BY <1>2, <1>3, <1>4 DEF c

\* Basis points only ever add.
LEMMA ApplyBpsAdds ==
  ASSUME NEW v \in Nat, NEW bps \in Nat
  PROVE  ApplyBps(v, bps) \in Nat /\ ApplyBps(v, bps) >= v
<1>1. v * bps \in Nat
  OBVIOUS
<1>2. CeilDiv(v * bps, 10000) \in Nat
  BY <1>1, CeilDivBounds
<1> QED BY <1>2 DEF ApplyBps

(***************************************************************************)
(* The charge covers the network fee and the reserves, and never falls     *)
(* below the floor on top of the reserves: price() of pricing.rs.          *)
(***************************************************************************)
THEOREM ChargeCovers ==
  ASSUME NEW fee \in Nat, NEW reserve \in Nat
  PROVE  /\ Charge(fee, reserve) \in Nat
         /\ Charge(fee, reserve) >= fee + reserve
         /\ Charge(fee, reserve) >= MinCharge + reserve
<1>1. fee + reserve \in Nat /\ MarginBps \in Nat
  OBVIOUS
<1>2. ApplyBps(fee + reserve, MarginBps) \in Nat
      /\ ApplyBps(fee + reserve, MarginBps) >= fee + reserve
  BY <1>1, ApplyBpsAdds
<1> QED BY <1>2 DEF Charge, AtLeast

(***************************************************************************)
(* The network takes every fee bump: it pays the minimum for one operation *)
(* more than the inner transaction has, at a rate not below the inner      *)
(* transaction's own: wrap_fee_bump of signer/lib.rs.                      *)
(***************************************************************************)
THEOREM FeeBumpAccepted ==
  ASSUME NEW inner \in Nat, NEW ops \in Nat \ {0}, NEW base \in Nat
  PROVE  /\ FeeBump(inner, ops, base) \in Nat
         /\ FeeBump(inner, ops, base) >= base * (ops + 1)
         /\ FeeBump(inner, ops, base) * ops >= inner * (ops + 1)
<1> DEFINE rate == CeilDiv(inner, ops)
           bump == FeeBump(inner, ops, base)
<1>1. rate \in Nat /\ ops * rate >= inner
  BY CeilDivBounds
<1>2. base * (ops + 1) \in Nat
  OBVIOUS
<1>3. bump \in Nat /\ bump >= base * (ops + 1) /\ bump >= inner + rate
  BY <1>1, <1>2 DEF FeeBump, AtLeast
<1> HIDE DEF bump, rate
<1>4. bump * ops >= (inner + rate) * ops
  BY <1>1, <1>3
<1>5. (inner + rate) * ops >= inner * ops + inner
  BY <1>1
<1>6. bump * ops >= inner * (ops + 1)
  BY <1>1, <1>3, <1>4, <1>5
<1> QED BY <1>3, <1>6 DEF bump

(***************************************************************************)
(* Unless the base fee rose, a bump costs exactly what the quote was       *)
(* priced at: the base fee of the quote for each operation and one more.   *)
(***************************************************************************)
THEOREM FeeBumpAsPriced ==
  ASSUME NEW rate \in Nat, NEW ops \in Nat \ {0}, NEW base \in Nat, base <= rate
  PROVE  FeeBump(rate * ops, ops, base) = NetworkFee(rate, ops)
<1>1. CeilDiv(rate * ops, ops) = rate
  BY CeilDivExact
<1>2. base * (ops + 1) <= rate * (ops + 1)
  OBVIOUS
<1>3. rate * ops + rate = rate * (ops + 1)
  OBVIOUS
<1>4. rate * ops \in Nat /\ base * (ops + 1) \in Nat /\ rate * (ops + 1) \in Nat
  OBVIOUS
<1> QED BY <1>1, <1>2, <1>3, <1>4 DEF FeeBump, NetworkFee, AtLeast

(***************************************************************************)
(* Scaling errs to the safe side: an amount scaled down from a larger one  *)
(* still buys the charge at the larger one's price (token_amount_for_xlm). *)
(***************************************************************************)
THEOREM ScaledIsEnough ==
  ASSUME NEW xlm \in Nat, NEW cost \in Nat
  PROVE  Scaled(xlm, cost) \in Nat /\ Scaled(xlm, cost) * ReadAt(xlm) >= xlm * cost
<1> DEFINE size == ReadAt(xlm)
           up == CeilDiv(xlm * cost, size)
<1>1. size \in Nat \ {0} /\ xlm * cost \in Nat
  BY DEF ReadAt, AtLeast
<1>2. up \in Nat /\ size * up >= xlm * cost
  BY <1>1, CeilDivBounds
<1>3. Scaled(xlm, cost) \in Nat /\ Scaled(xlm, cost) >= up
  BY <1>2 DEF Scaled, AtLeast
<1> HIDE DEF size, up
<1>4. Scaled(xlm, cost) * size >= up * size
  BY <1>1, <1>2, <1>3
<1> QED BY <1>1, <1>2, <1>3, <1>4 DEF size

(***************************************************************************)
(* And no more than that.  The charge is the least amount that has the     *)
(* margin on top of fee and reserves and the floor on top of the reserves: *)
(* rounding never costs the user a whole stroop.                           *)
(***************************************************************************)
THEOREM ChargeIsLeast ==
  ASSUME NEW fee \in Nat, NEW reserve \in Nat, NEW v \in Nat,
         10000 * v >= (fee + reserve) * (10000 + MarginBps),
         v >= MinCharge + reserve
  PROVE  v >= Charge(fee, reserve)
<1> DEFINE amount == fee + reserve
<1>1. amount \in Nat /\ amount * MarginBps \in Nat
  OBVIOUS
<1>2. amount * (10000 + MarginBps) = 10000 * amount + amount * MarginBps
  BY <1>1
<1>3. 10000 * (v - amount) >= amount * MarginBps
  BY <1>1, <1>2
<1>4. v - amount >= CeilDiv(amount * MarginBps, 10000)
  BY <1>1, <1>3, CeilDivLeast
<1>5. CeilDiv(amount * MarginBps, 10000) \in Nat
  BY <1>1, CeilDivBounds
<1>6. v >= ApplyBps(amount, MarginBps)
  BY <1>1, <1>4, <1>5 DEF ApplyBps
<1> QED BY <1>6 DEF Charge, AtLeast

\* The charge has the margin that the theorem above says it is the least to have.
THEOREM ChargeHasMargin ==
  ASSUME NEW fee \in Nat, NEW reserve \in Nat
  PROVE  10000 * Charge(fee, reserve) >= (fee + reserve) * (10000 + MarginBps)
<1> DEFINE amount == fee + reserve
           up == CeilDiv(amount * MarginBps, 10000)
<1>1. amount \in Nat /\ amount * MarginBps \in Nat
  OBVIOUS
<1>2. up \in Nat /\ 10000 * up >= amount * MarginBps
  BY <1>1, CeilDivBounds
<1>3. Charge(fee, reserve) \in Nat
  BY ChargeCovers
<1> HIDE DEF up
<1>4. Charge(fee, reserve) >= amount + up
  BY <1>1, <1>2 DEF Charge, ApplyBps, AtLeast, up
<1>5. amount * (10000 + MarginBps) = 10000 * amount + amount * MarginBps
  BY <1>1
<1> QED BY <1>1, <1>2, <1>3, <1>4, <1>5

(***************************************************************************)
(* The sponsor offers the least fee that the network's two conditions      *)
(* allow, and not a stroop more, whatever the base fee has done since the  *)
(* quote.                                                                  *)
(***************************************************************************)
THEOREM FeeBumpIsLeast ==
  ASSUME NEW inner \in Nat, NEW ops \in Nat \ {0}, NEW base \in Nat, NEW v \in Nat,
         v >= base * (ops + 1), v * ops >= inner * (ops + 1)
  PROVE  v >= FeeBump(inner, ops, base)
<1> DEFINE rate == CeilDiv(inner, ops)
<1>1. rate \in Nat /\ ops * rate >= inner /\ inner * ops \in Nat
  BY CeilDivBounds
<1>2. ops * (v - inner) >= inner
  <2>1. inner * (ops + 1) = ops * inner + inner /\ ops * (v - inner) = v * ops - ops * inner
    OBVIOUS
  <2> QED BY <2>1
<1>3. v - inner >= rate
  BY <1>2, CeilDivLeast
<1> HIDE DEF rate
<1>4. ASSUME base > rate PROVE v >= inner + base
  <2>1. ops * base >= ops * rate
    BY <1>1, <1>4
  <2>2. base * (ops + 1) = ops * base + base /\ ops * base \in Nat
    OBVIOUS
  <2> QED BY <1>1, <2>1, <2>2
<1>5. v >= inner + AtLeast(rate, base)
  BY <1>1, <1>3, <1>4 DEF AtLeast
<1>6. base * (ops + 1) \in Nat
  OBVIOUS
<1> QED BY <1>5, <1>6 DEF FeeBump, AtLeast, rate

\* A scaled amount is the least, from one unit up, that still buys the charge.
THEOREM ScaledIsLeast ==
  ASSUME NEW xlm \in Nat, NEW cost \in Nat, NEW v \in Nat \ {0}, v * ReadAt(xlm) >= xlm * cost
  PROVE  v >= Scaled(xlm, cost)
<1> DEFINE size == ReadAt(xlm)
<1>1. size \in Nat \ {0} /\ xlm * cost \in Nat
  BY DEF ReadAt, AtLeast
<1>2. size * v >= xlm * cost
  BY <1>1
<1> HIDE DEF size
<1>3. ASSUME NEW a \in Nat, a = xlm * cost
      PROVE  v >= CeilDiv(a, size) /\ CeilDiv(a, size) \in Nat
  <2>1. size \in Nat \ {0} /\ v \in Int /\ size * v >= a
    BY <1>1, <1>2, <1>3
  <2>2. v >= CeilDiv(a, size)
    BY <2>1, CeilDivLeast, Zenon
  <2>3. CeilDiv(a, size) \in Nat
    BY <2>1, CeilDivBounds, Zenon
  <2> QED BY <2>2, <2>3
<1>4. v >= CeilDiv(xlm * cost, size) /\ CeilDiv(xlm * cost, size) \in Nat
  BY <1>1, <1>3
<1> QED BY <1>4 DEF Scaled, AtLeast, size
=============================================================================
