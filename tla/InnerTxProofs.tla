--------------------------- MODULE InnerTxProofs ---------------------------
(***************************************************************************)
(* Proofs about InnerTx, for any bound on the requests, any base fees and  *)
(* markets and any configuration of the pricing.                           *)
(*                                                                         *)
(* The inductive invariant says where each document comes from: the quote  *)
(* from an accepted plan at the base fee and market of its time, the       *)
(* transaction from the quote, the envelope from both at the base fee of   *)
(* the submit.  BuiltOps and BuiltCount say what build_inner() makes of    *)
(* the operations; with the arithmetic of PricingProofs the properties     *)
(* follow.                                                                 *)
(***************************************************************************)
EXTENDS InnerTx, PricingProofs, FiniteSetTheorems

-----------------------------------------------------------------------------
(* The operations of a quote and of the transaction built from it *)

\* A request's operations, as they stand in the quote.
Asked(ops, n) == n \in Nat /\ ops \in [1 .. n -> UserOp]

\* The operations build_inner() puts before the user's.
Before(q) == IF q.reserve > 0 THEN 1 ELSE 0

Begin(q) == [type |-> "begin_sponsoring", to |-> "user", source |-> SponsorshipSource(q)]
End == [type |-> "end_sponsoring", to |-> "user", source |-> "user"]

\* The built operations are the asked ones in their order, inside the sandwich
\* when there are reserves, and then the fee payment.
LEMMA BuiltOps ==
  ASSUME NEW q, NEW n, Asked(q.ops, n)
  PROVE  LET ops == BuildInner(q).ops
             k == Before(q)
         IN  /\ Len(ops) = n + 2 * k + 1
             /\ DOMAIN ops = 1 .. n + 2 * k + 1
             /\ \A i \in 1 .. n : ops[i + k] = InnerOp(q, q.ops[i])
             /\ ops[n + 2 * k + 1] = FeePayment(q)
             /\ k = 1 => ops[1] = Begin(q) /\ ops[n + 2] = End
<1> DEFINE asked == [i \in DOMAIN q.ops |-> InnerOp(q, q.ops[i])]
           Op == {InnerOp(q, q.ops[i]) : i \in 1 .. n} \cup {Begin(q), End, FeePayment(q)}
           begin == Begin(q)
           end == End
           pay == FeePayment(q)
           wrapped == <<begin>> \o asked \o <<end>>
           ops == BuildInner(q).ops
<1>1. n \in Nat /\ DOMAIN q.ops = 1 .. n
  BY DEF Asked
<1>2. /\ asked \in [1 .. n -> Op]
      /\ \A i \in 1 .. n : asked[i] = InnerOp(q, q.ops[i])
      /\ begin \in Op /\ end \in Op /\ pay \in Op
  BY <1>1
<1>3. ops = Append(IF q.reserve > 0 THEN wrapped ELSE asked, pay)
  BY DEF BuildInner, Begin, End
<1> HIDE DEF asked, Op, begin, end, pay, ops
<1>4. asked \in Seq(Op) /\ Len(asked) = n
  BY <1>1, <1>2
<1>5. CASE q.reserve > 0
  <2>1. /\ wrapped \in Seq(Op) /\ Len(wrapped) = n + 2
        /\ wrapped[1] = begin /\ wrapped[n + 2] = end
        /\ \A i \in 1 .. n : wrapped[i + 1] = asked[i]
    BY <1>1, <1>2, <1>4
  <2>2. ops = Append(wrapped, pay)
    BY <1>3, <1>5
  <2> HIDE DEF wrapped
  <2>3. /\ Len(ops) = n + 3 /\ DOMAIN ops = 1 .. n + 3
        /\ ops[n + 3] = pay
        /\ \A i \in 1 .. n + 2 : ops[i] = wrapped[i]
    BY <1>1, <1>2, <2>1, <2>2
  <2>4. \A i \in 1 .. n : ops[i + 1] = asked[i]
    BY <1>1, <2>1, <2>3
  <2>5. ops[1] = begin /\ ops[n + 2] = end
    BY <1>1, <2>1, <2>3
  <2>6. Before(q) = 1
    BY <1>5 DEF Before
  <2> QED BY <1>1, <1>2, <2>3, <2>4, <2>5, <2>6 DEF ops, begin, end, pay
<1>6. CASE ~(q.reserve > 0)
  <2>1. ops = Append(asked, pay)
    BY <1>3, <1>6
  <2>2. /\ Len(ops) = n + 1 /\ DOMAIN ops = 1 .. n + 1
        /\ ops[n + 1] = pay
        /\ \A i \in 1 .. n : ops[i] = asked[i]
    BY <1>1, <1>2, <1>4, <2>1
  <2>3. Before(q) = 0
    BY <1>6 DEF Before
  <2> QED BY <1>1, <1>2, <2>2, <2>3 DEF ops, pay
<1> QED BY <1>5, <1>6

\* Counting operations of a request gives a number.
LEMMA CountIsNat ==
  ASSUME NEW ops, NEW n \in Nat, DOMAIN ops = 1 .. n, NEW t
  PROVE  Count(ops, t) \in Nat
<1> DEFINE S == {i \in DOMAIN ops : ops[i].type = t}
<1>1. IsFiniteSet(1 .. n)
  BY FS_Interval
<1>2. S \in SUBSET (1 .. n)
  OBVIOUS
<1>3. IsFiniteSet(S)
  BY <1>1, <1>2, FS_Subset
<1> QED BY <1>3, FS_CardinalityType DEF Count

\* Building keeps the number of operations of each kind a caller can ask for.
LEMMA BuiltCount ==
  ASSUME NEW q, NEW n, Asked(q.ops, n),
         NEW t \in {"create_account", "change_trust", "create_claimable_balance"}
  PROVE  Count(BuildInner(q).ops, t) = Count(q.ops, t)
<1> DEFINE ops == BuildInner(q).ops
           k == Before(q)
           S == {i \in DOMAIN q.ops : q.ops[i].type = t}
           T == {i \in DOMAIN ops : ops[i].type = t}
           f == [i \in S |-> i + k]
<1>1. n \in Nat /\ DOMAIN q.ops = 1 .. n /\ k \in {0, 1}
  BY DEF Asked, Before
<1>2. /\ DOMAIN ops = 1 .. n + 2 * k + 1
      /\ \A i \in 1 .. n : ops[i + k] = InnerOp(q, q.ops[i])
      /\ ops[n + 2 * k + 1] = FeePayment(q)
      /\ k = 1 => ops[1] = Begin(q) /\ ops[n + 2] = End
  BY BuiltOps
<1>3. \A i \in 1 .. n : ops[i + k].type = q.ops[i].type
  <2> HIDE DEF ops, k
  <2> TAKE i \in 1 .. n
  <2>1. ops[i + k] = InnerOp(q, q.ops[i])
    BY <1>2
  <2>2. InnerOp(q, q.ops[i]).type = q.ops[i].type
    BY DEF InnerOp
  <2> QED BY <2>1, <2>2
<1>4. ops[n + 2 * k + 1].type # t
  BY <1>2 DEF FeePayment
<1>5. k = 1 => ops[1].type # t /\ ops[n + 2].type # t
  BY <1>2 DEF Begin, End
<1> HIDE DEF ops, k
<1>6. S \subseteq 1 .. n /\ \A i \in S : i + k \in T
  BY <1>1, <1>2, <1>3
<1>7. \A j \in T : j - k \in S
  <2> TAKE j \in T
  <2>1. j \in 1 .. n + 2 * k + 1 /\ j # n + 2 * k + 1 /\ (k = 1 => j # 1 /\ j # n + 2)
    BY <1>2, <1>4, <1>5
  <2>2. j - k \in 1 .. n /\ j = (j - k) + k
    BY <1>1, <2>1
  <2> QED BY <1>1, <1>3, <2>2
<1>8. T \subseteq Int
  BY <1>1, <1>2
<1>9. f \in Bijection(S, T)
  <2>1. f \in [S -> T]
    BY <1>6
  <2>2. \A a, b \in S : f[a] = f[b] => a = b
    BY <1>1, <1>6
  <2>3. \A j \in T : \E i \in S : f[i] = j
    <3> TAKE j \in T
    <3>1. j - k \in S /\ (j - k) + k = j
      BY <1>1, <1>7, <1>8
    <3> DEFINE i == j - k
    <3>2. i \in S /\ f[i] = j
      BY <3>1
    <3> HIDE DEF i
    <3> QED BY <3>2
  <2> HIDE DEF S, T, f
  <2> QED BY <2>1, <2>2, <2>3 DEF Bijection, Injection, IsInjective, Surjection
<1>10. IsFiniteSet(S)
  <2>1. IsFiniteSet(1 .. n)
    BY <1>1, FS_Interval
  <2>2. S \in SUBSET (1 .. n)
    BY <1>6
  <2> QED BY <2>1, <2>2, FS_Subset
<1>11. Cardinality(T) = Cardinality(S)
  BY <1>9, <1>10, FS_Bijection DEF ExistsBijection
<1> QED BY <1>11 DEF Count, ops

\* What a quote says about the transaction built from it: the operations it was
\* priced for, the fee they pay, the reserves they lock, and a charge for both.
LEMMA QuoteCountsWhatIsBuilt ==
  ASSUME NEW r \in Request, NEW b \in BaseFees, NEW m \in Markets, NEW way,
         NEW q, q = QuoteFor(r, b, m, way), NEW t, t = BuildInner(q)
  PROVE  /\ Len(t.ops) \in Nat \ {0}
         /\ t.fee = b * Len(t.ops)
         /\ q.reserve \in Nat /\ BaseReserve * Locks(t) = q.reserve
         /\ q.charge \in Nat
         /\ q.charge >= NetworkFee(b, Len(t.ops)) + q.reserve
<1> DEFINE units == ReserveUnits(r.ops)
           fee == NetworkFee(b, OpCount(r.ops))
<1>1. PICK n \in 0 .. MaxAsked : r.ops \in [1 .. n -> UserOp]
  BY DEF Request
<1>2. n \in Nat /\ Asked(r.ops, n) /\ DOMAIN r.ops = 1 .. n
  BY <1>1 DEF Asked
<1>3. /\ q.ops = r.ops /\ q.mode = Mode(r.exists) /\ q.native = r.native
      /\ q.reserve = units * BaseReserve
      /\ q.inner_fee = b * OpCount(r.ops)
      /\ q.charge = Charge(fee, units * BaseReserve)
  BY DEF QuoteFor, ChargeFor
<1>4. t.fee = q.inner_fee
  BY DEF BuildInner
<1>5. units \in Nat
  <2>1. \A k \in {"create_account", "change_trust", "create_claimable_balance"} :
            Count(r.ops, k) \in Nat
    BY <1>2, CountIsNat
  <2> QED BY <2>1 DEF ReserveUnits
<1>6. q.reserve \in Nat /\ (q.reserve > 0 <=> units > 0)
  BY <1>3, <1>5, ParameterAssumption
<1>7. Len(r.ops) = n
  BY <1>2, <1>1
<1>8. Len(t.ops) = OpCount(r.ops) /\ OpCount(r.ops) \in Nat \ {0}
  <2>1. Len(t.ops) = n + 2 * Before(q) + 1
    BY <1>2, <1>3, BuiltOps
  <2>2. OpCount(r.ops) = n + 2 * Before(q) + 1
    BY <1>2, <1>5, <1>6, <1>7 DEF OpCount, Before
  <2>3. Before(q) \in {0, 1}
    BY DEF Before
  <2> QED BY <1>2, <2>1, <2>2, <2>3
<1>9. Locks(t) = units
  <2>1. \A k \in {"create_account", "change_trust", "create_claimable_balance"} :
            Count(t.ops, k) = Count(r.ops, k)
    BY <1>2, <1>3, BuiltCount
  <2> QED BY <2>1 DEF Locks, ReserveUnits
<1>10. fee \in Nat
  <2>1. b \in Nat
    BY ParameterAssumption
  <2>2. b * (OpCount(r.ops) + 1) \in Nat
    BY <1>8, <2>1
  <2> QED BY <2>2 DEF NetworkFee
<1>11. q.charge \in Nat /\ q.charge >= fee + q.reserve
  BY <1>3, <1>6, <1>10, ChargeCovers
<1>12. BaseReserve * Locks(t) = q.reserve
  BY <1>3, <1>5, <1>9, ParameterAssumption
<1> HIDE DEF units, fee
<1>13. t.fee = b * Len(t.ops) /\ fee = NetworkFee(b, Len(t.ops))
  BY <1>3, <1>4, <1>8 DEF fee
<1> QED BY <1>2, <1>3, <1>6, <1>8, <1>11, <1>12, <1>13

-----------------------------------------------------------------------------
(* The inductive invariant *)

ValuesInRange ==
    /\ request \in Request /\ base \in BaseFees /\ market \in Markets
    /\ quoted \in [base : BaseFees, market : Markets]
    /\ float \in Int
    /\ answer # None => phase = "done"

\* The quote is the one of an accepted request at its time's base fee and market.
QuoteMade ==
    phase \in {"quoted", "built"} \/ answer \in {"sent", "path_moved"} =>
        /\ PlanAccepts(request.ops, request.exists)
        /\ quote.route \in RoutesFor(request, quoted.base, quoted.market)
        /\ quote = QuoteFor(request, quoted.base, quoted.market, quote.route)

TxBuilt == Built => tx = BuildInner(quote)

EnvelopeMade ==
    Sent => /\ envelope = EnvelopeFor(quote, tx, base)
            /\ float >= Needed(quote, tx, base)

MovedMeansMoved == answer = "path_moved" => ~PathHolds(quote, market)

IInv == ValuesInRange /\ QuoteMade /\ TxBuilt /\ EnvelopeMade /\ MovedMeansMoved

(***************************************************************************)
(* Every document of a request is made from the one before it: the quote   *)
(* from the plan, the transaction from the quote, the envelope from both.  *)
(***************************************************************************)
THEOREM DocumentsFollow == Spec => []IInv
<1> USE DEF IInv, ValuesInRange, QuoteMade, TxBuilt, EnvelopeMade, MovedMeansMoved,
            Built, Sent, None
<1>1. Init => IInv
  BY DEF Init
<1>2. IInv /\ [Next]_vars => IInv'
  <2> SUFFICES ASSUME IInv, [Next]_vars PROVE IInv'
    OBVIOUS
  <2>1. CASE SealQuote
    <3>1. PICK way \in RoutesFor(request, base, market) : quote' = QuoteFor(request, base, market, way)
      BY <2>1 DEF SealQuote
    <3>2. quote'.route = way
      BY <3>1 DEF QuoteFor
    <3> QED BY <2>1, <3>1, <3>2 DEF SealQuote, RoutesFor, ChargeFor
  <2>2. CASE RefusePlan
    BY <2>2 DEF RefusePlan, Refuse
  <2>3. CASE Build
    BY <2>3 DEF Build
  <2>4. CASE RefuseBuild
    BY <2>4 DEF RefuseBuild, Refuse
  <2>5. CASE RefusePath
    BY <2>5 DEF RefusePath, Refuse
  <2>6. ASSUME NEW f \in Floats, RefuseFloat(f) PROVE IInv'
    BY <2>6 DEF RefuseFloat, Refuse
  <2>7. ASSUME NEW f \in Floats, UnknownChannel(f) PROVE IInv'
    BY <2>7 DEF UnknownChannel, Refuse
  <2>8. ASSUME NEW f \in Floats, Send(f) PROVE IInv'
    BY <2>8, ParameterAssumption DEF Send
  <2>9. CASE Move
    BY <2>9 DEF Move
  <2>10. CASE RefuseRoute
    BY <2>10 DEF RefuseRoute, Refuse
  <2>11. CASE UNCHANGED vars
    BY <2>11 DEF vars
  <2> QED BY <2>1, <2>2, <2>3, <2>4, <2>5, <2>6, <2>7, <2>8, <2>9, <2>10, <2>11 DEF Next
<1> QED BY <1>1, <1>2, PTL DEF Spec

-----------------------------------------------------------------------------
(* Types *)

\* A transaction built from the quote of a request has a source, a fee and
\* operations the network knows.
LEMMA TransactionTyped ==
  ASSUME NEW r \in Request, NEW b \in BaseFees, NEW m \in Markets, NEW way,
         NEW q, q = QuoteFor(r, b, m, way), NEW t, t = BuildInner(q)
  PROVE  /\ t.source \in Account
         /\ t.fee \in Nat
         /\ \A i \in DOMAIN t.ops : t.ops[i] \in Operation
<1>1. PICK n \in 0 .. MaxAsked : r.ops \in [1 .. n -> UserOp]
  BY DEF Request
<1>2. q.ops = r.ops /\ q.mode \in {"sponsored", "bootstrap"} /\ q.channel \in {None, "channel"}
  BY DEF QuoteFor, Mode, Request
<1>3. Asked(q.ops, n)
  BY <1>1, <1>2 DEF Asked
<1>4. t.source = TxSource(q) /\ TxSource(q) \in Account
  BY <1>2 DEF BuildInner, TxSource, Account, None
<1>5. t.fee \in Nat
  BY QuoteCountsWhatIsBuilt, ParameterAssumption
<1>6. UserSource(q) \in {Default, "user"} /\ SponsorshipSource(q) \in {Default, "sponsor"}
  BY DEF UserSource, SponsorshipSource
<1>7. \A op \in UserOp : InnerOp(q, op) \in Operation
  <2> TAKE op \in UserOp
  <2>1. op.to \in Account
    BY DEF UserOp, Account
  <2> QED BY <1>6, <2>1 DEF InnerOp, Operation, Account
<1>8. Begin(q) \in Operation /\ End \in Operation /\ FeePayment(q) \in Operation
  BY <1>6 DEF Begin, End, FeePayment, Operation, Account
<1> DEFINE k == Before(q)
<1>9. k \in {0, 1}
  BY DEF Before
<1>10. /\ DOMAIN t.ops = 1 .. n + 2 * k + 1
       /\ \A i \in 1 .. n : t.ops[i + k] = InnerOp(q, q.ops[i])
       /\ t.ops[n + 2 * k + 1] = FeePayment(q)
       /\ k = 1 => t.ops[1] = Begin(q) /\ t.ops[n + 2] = End
  BY <1>3, BuiltOps
<1>11. ASSUME NEW i \in DOMAIN t.ops PROVE t.ops[i] \in Operation
  <2> HIDE DEF k
  <2>1. i \in 1 .. n + 2 * k + 1
    BY <1>10
  <2>2. CASE i - k \in 1 .. n
    <3>1. t.ops[(i - k) + k] = InnerOp(q, q.ops[i - k])
      BY <1>10, <2>2
    <3>2. q.ops[i - k] \in UserOp /\ (i - k) + k = i
      BY <1>1, <1>2, <1>9, <2>1, <2>2
    <3> QED BY <1>7, <3>1, <3>2
  <2>3. CASE i - k \notin 1 .. n
    <3>1. i = n + 2 * k + 1 \/ (k = 1 /\ i \in {1, n + 2})
      BY <1>9, <2>1, <2>3
    <3> QED BY <1>8, <1>10, <3>1
  <2> QED BY <2>2, <2>3
<1> QED BY <1>4, <1>5, <1>11

\* Type correctness.
THEOREM InnerTyped == Spec => []TypeOK
<1>1. Init => TypeOK
  BY DEF Init, TypeOK, NoQuote, NoTx, NoEnvelope
<1>2. IInv /\ TypeOK /\ [Next]_vars => TypeOK'
  <2> SUFFICES ASSUME IInv, TypeOK, [Next]_vars PROVE TypeOK'
    OBVIOUS
  <2>1. CASE SealQuote
    <3>1. PICK way : quote' = QuoteFor(request, base, market, way)
      BY <2>1 DEF SealQuote
    <3>2. quote'.charge \in Nat
      BY <3>1, QuoteCountsWhatIsBuilt DEF IInv, ValuesInRange
    <3> QED BY <2>1, <3>2 DEF SealQuote, TypeOK
  <2>2. CASE Build
    <3>1. /\ request \in Request /\ quoted.base \in BaseFees /\ quoted.market \in Markets
          /\ quote = QuoteFor(request, quoted.base, quoted.market, quote.route)
      BY <2>2 DEF Build, IInv, ValuesInRange, QuoteMade
    <3>2. /\ tx'.source \in Account /\ tx'.fee \in Nat
          /\ \A i \in DOMAIN tx'.ops : tx'.ops[i] \in Operation
      BY <2>2, <3>1, TransactionTyped DEF Build
    <3> QED BY <2>2, <3>2 DEF Build, TypeOK
  <2>3. ASSUME NEW f \in Floats, Send(f) PROVE TypeOK'
    <3>1. /\ request \in Request /\ quoted.base \in BaseFees /\ quoted.market \in Markets
          /\ base \in Nat \ {0}
          /\ quote = QuoteFor(request, quoted.base, quoted.market, quote.route)
          /\ tx = BuildInner(quote)
      BY <2>3, ParameterAssumption DEF Send, IInv, ValuesInRange, QuoteMade, TxBuilt, Built
    <3>2. tx.fee \in Nat /\ tx.source \in Account /\ Len(tx.ops) \in Nat \ {0}
      BY <3>1, TransactionTyped, QuoteCountsWhatIsBuilt
    <3>3. tx.source = TxSource(quote)
      BY <3>1 DEF BuildInner
    <3>4. envelope'.signed \subseteq Account
      BY <2>3, <3>2, <3>3 DEF Send, EnvelopeFor, Signed, Account
    <3>5. FeeBump(tx.fee, Len(tx.ops), base) \in Nat
      BY <3>1, <3>2, FeeBumpAccepted
    <3>6. envelope'.fee \in Nat
      BY <2>3, <3>2, <3>5 DEF Send, EnvelopeFor
    <3> QED BY <2>3, <3>4, <3>6 DEF Send, TypeOK
  <2>4. ASSUME NEW code \in {"invalid_request", "no_path", "path_moved", "sponsor_float", "unknown_channel"},
               Refuse(code)
        PROVE  TypeOK'
    BY <2>4 DEF Refuse, TypeOK
  <2>5. CASE Move
    BY <2>5 DEF Move, TypeOK
  <2>6. CASE UNCHANGED vars
    BY <2>6 DEF vars, TypeOK
  <2> QED BY <2>1, <2>2, <2>3, <2>4, <2>5, <2>6
          DEF Next, RefusePlan, RefuseRoute, RefuseBuild, RefusePath, RefuseFloat, UnknownChannel
<1> QED BY <1>1, <1>2, DocumentsFollow, PTL DEF Spec

-----------------------------------------------------------------------------
(* What follows from it *)

\* What QuoteCountsWhatIsBuilt says, in a reachable state: of the quote once
\* there is one, of the transaction once it is built.
LEMMA BuiltIsPriced ==
  ASSUME IInv, Built
  PROVE  /\ quoted.base \in Nat /\ base \in Nat /\ float \in Int
         /\ Len(tx.ops) \in Nat \ {0}
         /\ tx.fee = quoted.base * Len(tx.ops)
         /\ quote.reserve \in Nat /\ BaseReserve * Locks(tx) = quote.reserve
         /\ quote.charge \in Nat
         /\ quote.charge >= NetworkFee(quoted.base, Len(tx.ops)) + quote.reserve
         /\ Sent => envelope = EnvelopeFor(quote, tx, base)
                    /\ float >= Needed(quote, tx, base)
<1>1. /\ request \in Request /\ quoted.base \in BaseFees /\ quoted.market \in Markets
      /\ base \in BaseFees
  BY DEF IInv, ValuesInRange
<1>2. quote = QuoteFor(request, quoted.base, quoted.market, quote.route) /\ tx = BuildInner(quote)
  BY DEF IInv, QuoteMade, TxBuilt, Built
<1>3. Sent => envelope = EnvelopeFor(quote, tx, base) /\ float >= Needed(quote, tx, base)
  BY DEF IInv, EnvelopeMade
<1>4. /\ Len(tx.ops) \in Nat \ {0}
      /\ tx.fee = quoted.base * Len(tx.ops)
      /\ quote.reserve \in Nat /\ BaseReserve * Locks(tx) = quote.reserve
      /\ quote.charge \in Nat
      /\ quote.charge >= NetworkFee(quoted.base, Len(tx.ops)) + quote.reserve
  <2>1. PICK r \in Request, b \in BaseFees, m \in Markets, way \in {quote.route} :
            b = quoted.base /\ quote = QuoteFor(r, b, m, way) /\ tx = BuildInner(quote)
    BY <1>1, <1>2
  <2>2. Len(tx.ops) \in Nat \ {0}
    BY <2>1, QuoteCountsWhatIsBuilt
  <2>3. tx.fee = b * Len(tx.ops)
    BY <2>1, QuoteCountsWhatIsBuilt
  <2>4. quote.reserve \in Nat /\ quote.charge \in Nat
    BY <2>1, QuoteCountsWhatIsBuilt
  <2>5. BaseReserve * Locks(tx) = quote.reserve
    BY <2>1, QuoteCountsWhatIsBuilt
  <2>6. quote.charge >= NetworkFee(b, Len(tx.ops)) + quote.reserve
    BY <2>1, QuoteCountsWhatIsBuilt
  <2> QED BY <2>1, <2>2, <2>3, <2>4, <2>5, <2>6
<1>5. quoted.base \in Nat /\ base \in Nat /\ float \in Int
  BY <1>1, ParameterAssumption DEF IInv, ValuesInRange
<1> QED BY <1>3, <1>4, <1>5

(***************************************************************************)
(* What the plan was priced for is what is built.                          *)
(***************************************************************************)
THEOREM PricedOpsAreBuilt == Spec => []PricedIsBuilt
<1>1. IInv => PricedIsBuilt
  BY BuiltIsPriced DEF PricedIsBuilt
<1> QED BY <1>1, DocumentsFollow, PTL

(***************************************************************************)
(* The network takes the fee of whatever is sent.                          *)
(***************************************************************************)
THEOREM SentFeeAccepted == Spec => []FeeAccepted
<1>1. ASSUME IInv PROVE FeeAccepted
  <2> SUFFICES ASSUME Sent PROVE FeeAccepted
    BY DEF FeeAccepted
  <2> DEFINE n == Len(tx.ops)
  <2>1. Built
    BY DEF Built, Sent
  <2>2. /\ quoted.base \in Nat /\ base \in Nat /\ n \in Nat \ {0}
        /\ tx.fee = quoted.base * n
        /\ envelope = EnvelopeFor(quote, tx, base)
    BY <1>1, <2>1, BuiltIsPriced
  <2>3. tx.fee \in Nat
    BY <2>2
  <2>4. envelope.tx = tx
    BY <2>2 DEF EnvelopeFor
  <2>5. CASE envelope.bumped
    <3>1. envelope.fee = FeeBump(tx.fee, n, base)
      BY <2>2, <2>5 DEF EnvelopeFor
    <3>2. envelope.fee >= base * (n + 1) /\ envelope.fee * n >= tx.fee * (n + 1)
      BY <2>2, <2>3, <3>1, FeeBumpAccepted
    <3> QED BY <2>4, <2>5, <3>2 DEF FeeAccepted
  <2>6. CASE ~envelope.bumped
    <3>1. envelope.fee = tx.fee
      BY <2>2, <2>6 DEF EnvelopeFor
    <3>2. base <= quoted.base => quoted.base * n >= base * n
      BY <2>2
    <3> QED BY <2>2, <2>4, <2>6, <3>1, <3>2 DEF FeeAccepted
  <2> QED BY <2>5, <2>6
<1> QED BY <1>1, DocumentsFollow, PTL

\* The fee of an envelope while the base fee has not risen: at most the network
\* fee the quote was priced with.
LEMMA SentFeeAsPriced ==
  ASSUME IInv, Sent, base <= quoted.base
  PROVE  envelope.fee \in Nat /\ envelope.fee <= NetworkFee(quoted.base, Len(tx.ops))
<1> DEFINE n == Len(tx.ops)
<1>1. Built
  BY DEF Built, Sent
<1>2. /\ quoted.base \in Nat /\ base \in Nat /\ n \in Nat \ {0}
      /\ tx.fee = quoted.base * n
      /\ envelope = EnvelopeFor(quote, tx, base)
  BY <1>1, BuiltIsPriced
<1>3. quoted.base * n \in Nat /\ quoted.base * (n + 1) \in Nat
      /\ quoted.base * n <= quoted.base * (n + 1)
  BY <1>2
<1>4. envelope.fee \in {FeeBump(tx.fee, n, base), tx.fee}
  BY <1>2 DEF EnvelopeFor
<1>5. FeeBump(tx.fee, n, base) = NetworkFee(quoted.base, n)
  BY <1>2, FeeBumpAsPriced
<1> QED BY <1>2, <1>3, <1>4, <1>5 DEF NetworkFee

(***************************************************************************)
(* Nobody is served at a loss while the base fee has not risen.            *)
(***************************************************************************)
THEOREM SentCostCovered == Spec => []CostCovered
<1>1. ASSUME IInv PROVE CostCovered
  <2> SUFFICES ASSUME Sent, base <= quoted.base
               PROVE  quote.charge >= envelope.fee + BaseReserve * Locks(envelope.tx)
    BY DEF CostCovered
  <2>1. Built
    BY DEF Built, Sent
  <2>2. envelope.tx = tx
    BY <1>1, <2>1, BuiltIsPriced DEF EnvelopeFor
  <2>3. envelope.fee \in Nat /\ envelope.fee <= NetworkFee(quoted.base, Len(tx.ops))
    BY <1>1, SentFeeAsPriced
  <2>4. /\ quoted.base \in Nat /\ Len(tx.ops) \in Nat
        /\ quote.reserve \in Nat /\ BaseReserve * Locks(tx) = quote.reserve
        /\ quote.charge \in Nat
        /\ quote.charge >= NetworkFee(quoted.base, Len(tx.ops)) + quote.reserve
    BY <1>1, <2>1, BuiltIsPriced
  <2>5. NetworkFee(quoted.base, Len(tx.ops)) \in Nat
    BY <2>4 DEF NetworkFee
  <2> QED BY <2>2, <2>3, <2>4, <2>5
<1> QED BY <1>1, DocumentsFollow, PTL

(***************************************************************************)
(* The float that passed the gate pays for what is sent, unless the base   *)
(* fee fell after the quote.                                               *)
(***************************************************************************)
THEOREM GateIsEnough == Spec => []GateCoversSend
<1>1. ASSUME IInv PROVE GateCoversSend
  <2> SUFFICES ASSUME Sent, base >= quoted.base
               PROVE  float >= envelope.fee + BaseReserve * Locks(envelope.tx)
    BY DEF GateCoversSend
  <2> DEFINE n == Len(tx.ops)
  <2>1. Built
    BY DEF Built, Sent
  <2>2. /\ quoted.base \in Nat /\ base \in Nat /\ float \in Int /\ n \in Nat \ {0}
        /\ tx.fee = quoted.base * n
        /\ quote.reserve \in Nat /\ BaseReserve * Locks(tx) = quote.reserve
        /\ envelope = EnvelopeFor(quote, tx, base)
        /\ float >= quote.reserve + base * (n + 1)
    BY <1>1, <2>1, BuiltIsPriced DEF Needed
  <2>3. CeilDiv(tx.fee, n) = quoted.base
    BY <2>2, CeilDivExact
  <2>4. /\ quoted.base * n <= base * n /\ base * n + base = base * (n + 1)
        /\ quoted.base * n \in Nat /\ base * n \in Nat /\ base * (n + 1) \in Nat
    BY <2>2
  <2>5. FeeBump(tx.fee, n, base) = base * (n + 1)
    BY <2>2, <2>3, <2>4 DEF FeeBump, AtLeast
  <2>6. envelope.fee \in Nat /\ envelope.fee <= base * (n + 1) /\ envelope.tx = tx
    BY <2>2, <2>4, <2>5 DEF EnvelopeFor
  <2> QED BY <2>2, <2>4, <2>6
<1> QED BY <1>1, DocumentsFollow, PTL

\* Every operation of the built transaction is a step of the sandwich, one that
\* was asked for, or the fee payment.
LEMMA BuiltOpIsKnown ==
  ASSUME NEW r \in Request, NEW b \in BaseFees, NEW m \in Markets, NEW way,
         NEW q, q = QuoteFor(r, b, m, way), NEW t, t = BuildInner(q),
         NEW op \in TxOps(t)
  PROVE  \/ q.reserve > 0 /\ op \in {Begin(q), End}
         \/ op = FeePayment(q)
         \/ \E u \in UserOp : op = InnerOp(q, u)
<1> DEFINE k == Before(q)
<1>1. PICK n \in 0 .. MaxAsked : r.ops \in [1 .. n -> UserOp]
  BY DEF Request
<1>2. n \in Nat /\ Asked(q.ops, n) /\ q.ops \in [1 .. n -> UserOp]
  BY <1>1 DEF Asked, QuoteFor
<1>3. /\ DOMAIN t.ops = 1 .. n + 2 * k + 1
      /\ \A i \in 1 .. n : t.ops[i + k] = InnerOp(q, q.ops[i])
      /\ t.ops[n + 2 * k + 1] = FeePayment(q)
      /\ k = 1 => t.ops[1] = Begin(q) /\ t.ops[n + 2] = End
  BY <1>2, BuiltOps
<1>4. k \in {0, 1} /\ (k = 1 => q.reserve > 0)
  BY DEF Before
<1> HIDE DEF k
<1>5. PICK j \in 1 .. n + 2 * k + 1 : op = t.ops[j]
  BY <1>3 DEF TxOps
<1>6. CASE j - k \in 1 .. n
  <2> DEFINE i == j - k
  <2>1. i \in 1 .. n /\ i + k = j
    BY <1>2, <1>4, <1>5, <1>6
  <2> HIDE DEF i
  <2>2. op = InnerOp(q, q.ops[i]) /\ q.ops[i] \in UserOp
    BY <1>2, <1>3, <1>5, <2>1
  <2> QED BY <2>2
<1>7. CASE j - k \notin 1 .. n
  <2>1. j = n + 2 * k + 1 \/ (k = 1 /\ (j = 1 \/ j = n + 2))
    BY <1>2, <1>4, <1>5, <1>7
  <2> QED BY <1>3, <1>4, <1>5, <2>1
<1> QED BY <1>6, <1>7

\* Nobody but the user acts, from the invariant: for the theorems below.
LEMMA ActsFromIInv ==
  ASSUME IInv
  PROVE  OnlyTheUserActs
<1> SUFFICES ASSUME Built, NEW op \in TxOps(tx)
             PROVE  \/ Actor(tx, op) = "user"
                    \/ op.type = "begin_sponsoring" /\ Actor(tx, op) = "sponsor"
                    \/ op.type = "create_account" /\ Actor(tx, op) = TxSource(quote)
  BY DEF OnlyTheUserActs
<1>1. PICK r \in Request, b \in BaseFees, m \in Markets, way \in {quote.route} :
          quote = QuoteFor(r, b, m, way) /\ tx = BuildInner(quote)
  BY DEF IInv, ValuesInRange, QuoteMade, TxBuilt, Built
<1>2. quote.mode \in {"sponsored", "bootstrap"}
  BY <1>1 DEF QuoteFor, Mode
<1>3. tx.source = TxSource(quote)
  BY <1>1 DEF BuildInner
<1>4. Actor(tx, [type |-> op.type, to |-> op.to, source |-> UserSource(quote)]) = "user"
  BY <1>2, <1>3 DEF Actor, UserSource, TxSource, Default
<1>5. \/ op \in {Begin(quote), End}
      \/ op = FeePayment(quote)
      \/ \E u \in UserOp : op = InnerOp(quote, u)
  BY <1>1, BuiltOpIsKnown
<1>6. CASE op = Begin(quote)
  BY <1>3, <1>6 DEF Begin, SponsorshipSource, Actor, Default
<1>7. CASE op = End
  BY <1>7 DEF End, Actor, Default
<1>8. CASE op = FeePayment(quote)
  BY <1>4, <1>8 DEF FeePayment, Actor
<1>9. ASSUME NEW u \in UserOp, op = InnerOp(quote, u)
      PROVE  \/ Actor(tx, op) = "user"
             \/ op.type = "create_account" /\ Actor(tx, op) = TxSource(quote)
  <2>1. CASE u.type = "create_account"
    BY <1>3, <1>9, <2>1 DEF InnerOp, Actor
  <2>2. CASE u.type # "create_account"
    BY <1>4, <1>9, <2>2 DEF InnerOp, Actor
  <2> QED BY <2>1, <2>2
<1> QED BY <1>5, <1>6, <1>7, <1>8, <1>9

(***************************************************************************)
(* Whatever acts in a built transaction acts for the user; the lane and    *)
(* the sponsor only open the sponsorship and create the account.           *)
(***************************************************************************)
THEOREM NobodyElseActs == Spec => []OnlyTheUserActs
BY ActsFromIInv, DocumentsFollow, PTL

(***************************************************************************)
(* A bootstrap transaction that is sent carries every signature the        *)
(* network asks for, and one it does not ask for, the sponsor's, exactly   *)
(* when it locks no reserve and is on a channel's lane.                    *)
(***************************************************************************)
THEOREM BootstrapIsAuthorised == Spec => []BootstrapAuthorised
<1>1. ASSUME IInv PROVE BootstrapAuthorised
  <2> DEFINE unasked == IF quote.reserve = 0 /\ quote.channel # None THEN {"sponsor"} ELSE {}
  <2> SUFFICES ASSUME Sent, quote.mode = "bootstrap"
               PROVE  /\ RequiredSigners(envelope.tx) \subseteq envelope.signed
                      /\ envelope.signed \ RequiredSigners(envelope.tx) = unasked
    BY DEF BootstrapAuthorised
  <2>0. Built
    BY DEF Built, Sent
  <2>1. PICK r \in Request, b \in BaseFees, m \in Markets, way \in {quote.route} :
            quote = QuoteFor(r, b, m, way) /\ tx = BuildInner(quote)
    BY <1>1, <2>0 DEF IInv, ValuesInRange, QuoteMade, TxBuilt, Built
  <2>2. envelope.tx = tx /\ envelope.signed = {"user", "sponsor", TxSource(quote)}
    BY <1>1 DEF IInv, EnvelopeMade, EnvelopeFor, Signed
  <2>3. tx.source = TxSource(quote)
    BY <2>1 DEF BuildInner
  <2>4. quote.reserve \in Nat
    BY <2>1, QuoteCountsWhatIsBuilt
  <2>5. TxSource(quote) = IF quote.channel = None THEN "sponsor" ELSE "channel"
    BY <2>1 DEF QuoteFor, Request, TxSource, None
  <2>6. PICK n : n \in Nat /\ Asked(quote.ops, n)
    <3>1. PICK n \in 0 .. MaxAsked : r.ops \in [1 .. n -> UserOp]
      BY DEF Request
    <3> QED BY <2>1, <3>1 DEF Asked, QuoteFor
  <2>7. "user" \in RequiredSigners(tx)
    <3>1. FeePayment(quote) \in TxOps(tx)
      <4> DEFINE last == n + 2 * Before(quote) + 1
      <4>1. last \in DOMAIN tx.ops /\ tx.ops[last] = FeePayment(quote)
        BY <2>1, <2>6, BuiltOps DEF Before
      <4> QED BY <4>1 DEF TxOps
    <3>2. Actor(tx, FeePayment(quote)) = "user"
      BY DEF FeePayment, UserSource, Actor, Default
    <3> QED BY <3>1, <3>2 DEF RequiredSigners
  <2>8. OnlyTheUserActs
    BY <1>1, ActsFromIInv
  <2>9. CASE quote.reserve > 0
    <3>1. Begin(quote) \in TxOps(tx)
      <4> DEFINE k == Before(quote)
                 ops == BuildInner(quote).ops
      <4>1. DOMAIN ops = 1 .. n + 2 * k + 1 /\ (k = 1 => ops[1] = Begin(quote))
        BY <2>6, BuiltOps
      <4>2. k = 1
        BY <2>9 DEF Before
      <4>3. ops = tx.ops
        BY <2>1
      <4> HIDE DEF k, ops
      <4>4. 1 \in DOMAIN tx.ops /\ tx.ops[1] = Begin(quote)
        BY <2>6, <4>1, <4>2, <4>3
      <4> QED BY <4>4 DEF TxOps
    <3>2. Actor(tx, Begin(quote)) = "sponsor"
      BY <2>3 DEF Begin, SponsorshipSource, Actor, Default
    <3>3. {"user", "sponsor", TxSource(quote)} \subseteq RequiredSigners(tx)
      BY <2>3, <2>7, <3>1, <3>2 DEF RequiredSigners
    <3>4. RequiredSigners(tx) \subseteq {"user", "sponsor", TxSource(quote)}
      BY <2>0, <2>3, <2>8 DEF OnlyTheUserActs, RequiredSigners
    <3>5. unasked = {}
      BY <2>4, <2>9
    <3> QED BY <2>2, <3>3, <3>4, <3>5
  <2>10. CASE quote.reserve = 0
    <3>1. ASSUME NEW op \in TxOps(tx) PROVE op.type # "begin_sponsoring"
      <4>1. op = FeePayment(quote) \/ \E u \in UserOp : op = InnerOp(quote, u)
        BY <2>1, <2>10, BuiltOpIsKnown
      <4>2. FeePayment(quote).type # "begin_sponsoring"
        BY DEF FeePayment
      <4>3. ASSUME NEW u \in UserOp PROVE InnerOp(quote, u).type # "begin_sponsoring"
        BY DEF InnerOp, UserOp
      <4> QED BY <4>1, <4>2, <4>3
    <3>2. RequiredSigners(tx) = {"user", TxSource(quote)}
      BY <2>0, <2>3, <2>7, <2>8, <3>1 DEF OnlyTheUserActs, RequiredSigners
    <3> QED BY <2>2, <2>5, <2>10, <3>2 DEF None
  <2> QED BY <2>4, <2>9, <2>10
<1> QED BY <1>1, DocumentsFollow, PTL

\* An operation that creates an entry makes the plan count reserves.
LEMMA CreatingCosts ==
  ASSUME NEW ops, NEW n, Asked(ops, n), NEW j \in 1 .. n, Creates(ops[j])
  PROVE  ReserveUnits(ops) \in Nat \ {0}
<1>1. n \in Nat /\ DOMAIN ops = 1 .. n
  BY DEF Asked
<1>2. \A t \in {"create_account", "change_trust", "create_claimable_balance"} : Count(ops, t) \in Nat
  BY <1>1, CountIsNat
<1>3. Count(ops, ops[j].type) # 0
  <2> DEFINE S == {i \in DOMAIN ops : ops[i].type = ops[j].type}
  <2>1. j \in S
    BY <1>1
  <2>2. IsFiniteSet(S)
    <3>1. IsFiniteSet(1 .. n)
      BY <1>1, FS_Interval
    <3>2. S \in SUBSET (1 .. n)
      BY <1>1
    <3> QED BY <3>1, <3>2, FS_Subset
  <2> HIDE DEF S
  <2>3. Cardinality(S) # 0
    BY <2>1, <2>2, FS_EmptySet
  <2> QED BY <2>3 DEF Count, S
<1>4. ops[j].type \in {"create_account", "change_trust", "create_claimable_balance"}
  BY DEF Creates
<1> DEFINE accounts == Count(ops, "create_account")
           trustlines == Count(ops, "change_trust")
           balances == Count(ops, "create_claimable_balance")
<1>5. accounts \in Nat /\ trustlines \in Nat /\ balances \in Nat
  BY <1>2
<1>6. accounts # 0 \/ trustlines # 0 \/ balances # 0
  BY <1>3, <1>4, Zenon
<1>7. ReserveUnits(ops) = 2 * accounts + trustlines + 2 * balances
  BY DEF ReserveUnits
<1> HIDE DEF accounts, trustlines, balances
<1> QED BY <1>5, <1>6, <1>7

(***************************************************************************)
(* Every entry of the user's that a built transaction creates is created   *)
(* inside the sponsorship: what creates it costs a reserve, a reserve      *)
(* makes the sandwich, and the operations asked for stand within it.       *)
(***************************************************************************)
THEOREM OwnEntriesInside == Spec => []OwnEntriesSponsored
<1>1. ASSUME IInv PROVE OwnEntriesSponsored
  <2> SUFFICES ASSUME Built, NEW i \in DOMAIN tx.ops, Creates(tx.ops[i])
               PROVE  /\ \E b \in 1 .. i - 1 : tx.ops[b].type = "begin_sponsoring" /\ tx.ops[b].to = "user"
                      /\ \E e \in i + 1 .. Len(tx.ops) : tx.ops[e].type = "end_sponsoring"
                      /\ \A e \in 1 .. i - 1 : tx.ops[e].type # "end_sponsoring"
    BY DEF OwnEntriesSponsored
  <2>1. PICK r \in Request, b \in BaseFees, m \in Markets, way \in {quote.route} :
            quote = QuoteFor(r, b, m, way) /\ tx = BuildInner(quote)
    BY <1>1 DEF IInv, ValuesInRange, QuoteMade, TxBuilt, Built
  <2>2. PICK n \in 0 .. MaxAsked : r.ops \in [1 .. n -> UserOp]
    BY DEF Request
  <2>3. n \in Nat /\ quote.ops = r.ops /\ Asked(quote.ops, n)
    BY <2>1, <2>2 DEF Asked, QuoteFor
  <2>4. PICK k \in {0, 1} : k = Before(quote)
    BY DEF Before
  <2>5. PICK ops : ops = tx.ops
    OBVIOUS
  <2>6. /\ Len(ops) = n + 2 * k + 1
        /\ DOMAIN ops = 1 .. n + 2 * k + 1
        /\ \A x \in 1 .. n : ops[x + k] = InnerOp(quote, quote.ops[x])
        /\ ops[n + 2 * k + 1] = FeePayment(quote)
        /\ k = 1 => ops[1] = Begin(quote) /\ ops[n + 2] = End
    BY <2>1, <2>3, <2>4, <2>5, BuiltOps
  <2>7. /\ ~Creates(FeePayment(quote)) /\ ~Creates(Begin(quote)) /\ ~Creates(End)
    BY DEF Creates, FeePayment, Begin, End
  <2>8. PICK j \in 1 .. n : i = j + k
    <3>1. i \in 1 .. n + 2 * k + 1 /\ Creates(ops[i])
      BY <2>5, <2>6
    <3>2. i # n + 2 * k + 1 /\ (k = 1 => i # 1 /\ i # n + 2)
      BY <2>6, <2>7, <3>1
    <3>3. i - k \in 1 .. n /\ i = (i - k) + k
      BY <2>3, <2>4, <3>1, <3>2
    <3> QED BY <3>3
  <2>9. Creates(r.ops[j])
    <3>1. ops[i] = InnerOp(quote, quote.ops[j]) /\ Creates(ops[i])
      BY <2>5, <2>6, <2>8
    <3> QED BY <2>3, <3>1 DEF Creates, InnerOp
  <2>10. k = 1
    <3>1. ReserveUnits(r.ops) \in Nat \ {0}
      BY <2>3, <2>9, CreatingCosts
    <3>2. PICK u \in Nat \ {0} : u = ReserveUnits(r.ops)
      BY <3>1
    <3>3. quote.reserve = u * BaseReserve
      BY <2>1, <3>2 DEF QuoteFor
    <3>4. quote.reserve > 0
      BY <3>2, <3>3, ParameterAssumption
    <3> QED BY <2>4, <3>4 DEF Before
  <2>11. ops[1] = Begin(quote) /\ ops[n + 2] = End /\ i = j + 1 /\ Len(ops) = n + 3
    BY <2>3, <2>6, <2>8, <2>10
  <2>12. ops[1].type = "begin_sponsoring" /\ ops[1].to = "user" /\ 1 \in 1 .. i - 1
    BY <2>3, <2>11 DEF Begin
  <2>13. ops[n + 2].type = "end_sponsoring" /\ n + 2 \in i + 1 .. Len(ops)
    BY <2>3, <2>11 DEF End
  <2>14. ASSUME NEW e \in 1 .. i - 1 PROVE ops[e].type # "end_sponsoring"
    <3>1. CASE e = 1
      BY <2>12, <3>1
    <3>2. CASE e # 1
      <4>1. PICK x \in 1 .. n : e = x + 1
        <5>1. e - 1 \in 1 .. n /\ e = (e - 1) + 1
          BY <2>3, <2>11, <3>2
        <5> QED BY <5>1
      <4>2. ops[e] = InnerOp(quote, r.ops[x]) /\ r.ops[x] \in UserOp
        BY <2>2, <2>3, <2>6, <2>10, <4>1
      <4>3. r.ops[x].type # "end_sponsoring"
        BY <4>2 DEF UserOp
      <4> QED BY <4>2, <4>3 DEF InnerOp
    <3> QED BY <3>1, <3>2
  <2> QED BY <2>5, <2>12, <2>13, <2>14
<1> QED BY <1>1, DocumentsFollow, PTL

-----------------------------------------------------------------------------
(* The market *)

\* A sendMax scaled from a larger size at a price still buys the charge at any
\* price that is not above it, rounding on both sides included.
LEMMA ScaledBuysAtThePrice ==
  ASSUME NEW c \in Nat, NEW p0 \in Nat, NEW p \in Nat, p <= p0
  PROVE  MarketCost(c, p) <= Scaled(c, MarketCost(ReadAt(c), p0))
<1> DEFINE U == PriceUnit
           R == ReadAt(c)
           cost == MarketCost(R, p0)
           scaled == Scaled(c, cost)
           now == MarketCost(c, p)
<1>1. U \in Nat \ {0} /\ R \in Nat \ {0}
  BY ParameterAssumption, PricingAssumption DEF ReadAt, AtLeast
<1>2. cost \in Nat /\ U * cost >= R * p0
  <2>1. R * p0 \in Nat
    BY <1>1
  <2> HIDE DEF U, R
  <2> QED BY <1>1, <2>1, CeilDivBounds DEF MarketCost, U
<1>3. now \in Nat /\ U * now < c * p + U
  <2>1. c * p \in Nat
    OBVIOUS
  <2> QED BY <1>1, <2>1, CeilDivBounds DEF MarketCost
<1> HIDE DEF now
<1>4. scaled \in Nat /\ scaled * R >= c * cost
  <2> HIDE DEF cost
  <2> QED BY <1>2, ScaledIsEnough
<1> HIDE DEF U, R, cost, scaled
<1>5. scaled * R * U >= c * cost * U
  <2>1. scaled * R \in Nat /\ c * cost \in Nat
    BY <1>1, <1>2, <1>4
  <2> HIDE DEF U
  <2> QED BY <1>1, <1>4, <2>1
<1>6. c * cost * U >= c * (R * p0)
  <2>1. U * cost \in Nat /\ R * p0 \in Nat
    BY <1>1, <1>2
  <2>2. c * (U * cost) >= c * (R * p0)
    BY <1>2, <2>1
  <2>3. c * (U * cost) = c * cost * U
    BY <1>1, <1>2
  <2> QED BY <2>2, <2>3
<1>7. scaled * U >= c * p0
  <2> DEFINE a == scaled * U
             b == c * p0
  <2>1. a \in Nat /\ b \in Nat
    BY <1>1, <1>4
  <2>2. scaled * R * U = a * R /\ c * (R * p0) = b * R
    BY <1>1, <1>4
  <2>3. c * cost * U \in Nat /\ a * R \in Nat /\ b * R \in Nat
    BY <1>1, <1>2, <2>1
  <2>4. a * R >= b * R
    BY <1>5, <1>6, <2>2, <2>3
  <2> HIDE DEF a, b
  <2>5. a >= b
    <3>1. SUFFICES ASSUME a < b PROVE FALSE
      BY <2>1
    <3>2. a + 1 <= b
      BY <2>1, <3>1
    <3>3. (a + 1) * R <= b * R
      BY <1>1, <2>1, <3>2
    <3> QED BY <1>1, <2>1, <2>4, <3>3
  <2> QED BY <2>5 DEF a, b
<1>8. c * p0 >= c * p
  OBVIOUS
<1>9. now <= scaled
  <2>1. SUFFICES ASSUME now >= scaled + 1 PROVE FALSE
    BY <1>3, <1>4
  <2>2. U * now >= U * (scaled + 1)
    BY <1>1, <1>3, <1>4, <2>1
  <2>3. U * (scaled + 1) = scaled * U + U /\ scaled * U \in Nat /\ c * p \in Nat /\ c * p0 \in Nat
        /\ U * now \in Nat
    BY <1>1, <1>3, <1>4
  <2> QED BY <1>1, <1>3, <1>7, <1>8, <2>2, <2>3
<1> QED BY <1>9 DEF now, scaled, cost, R

(***************************************************************************)
(* A quote is refused for its route only if the market moved against it.   *)
(***************************************************************************)
THEOREM StillMarketServes == Spec => []StillMarketNotRefused
<1>1. ASSUME IInv PROVE StillMarketNotRefused
  <2> DEFINE c == quote.charge
             way == quote.route
             p0 == quoted.market[way]
             p == market[way]
             s == Scaled(c, MarketCost(ReadAt(c), p0))
  <2> SUFFICES ASSUME answer = "path_moved", way \in Listed(market), ~(p > p0) PROVE FALSE
    BY DEF StillMarketNotRefused
  <2>1. /\ request \in Request /\ quoted.base \in BaseFees
        /\ quoted.market \in Markets /\ market \in Markets
        /\ way \in RoutesFor(request, quoted.base, quoted.market)
        /\ quote = QuoteFor(request, quoted.base, quoted.market, way)
        /\ ~PathHolds(quote, market)
    BY <1>1 DEF IInv, ValuesInRange, QuoteMade, MovedMeansMoved
  <2>2. c \in Nat
    BY <2>1, QuoteCountsWhatIsBuilt
  <2>3. ~quote.native /\ ~(c <= 0) /\ ~(MarketCost(c, p) <= quote.send_max)
    BY <2>1 DEF PathHolds
  <2>4. way \in Listed(quoted.market)
    BY <2>1, <2>3 DEF RoutesFor, Cheapest, QuoteFor
  <2>5. p \in Nat /\ p0 \in Nat /\ p <= p0
    BY <2>1, <2>4, ParameterAssumption DEF Listed
  <2>6. way # None
    BY <2>4, ParameterAssumption DEF Listed, None
  <2> HIDE DEF c, p, p0
  <2>7. MarketCost(c, p) \in Nat /\ MarketCost(c, p) <= s /\ s \in Nat
    <3>1. MarketCost(c, p) <= s
      BY <2>2, <2>5, ScaledBuysAtThePrice
    <3>2. c * p \in Nat /\ ReadAt(c) \in Nat
      BY <2>2, <2>5, PricingAssumption DEF ReadAt, AtLeast
    <3>3. MarketCost(c, p) \in Nat
      BY <3>2, ParameterAssumption, CeilDivBounds DEF MarketCost
    <3>4. MarketCost(ReadAt(c), p0) \in Nat
      <4>1. ReadAt(c) * p0 \in Nat
        BY <2>5, <3>2
      <4> QED BY <4>1, ParameterAssumption, CeilDivBounds DEF MarketCost
    <3>5. s \in Nat
      BY <2>2, <3>4, ScaledIsEnough
    <3> QED BY <3>1, <3>3, <3>5
  <2>8. quote.send_max = ApplyBps(s, SlippageBps)
    BY <2>1, <2>6 DEF QuoteFor, SendMax, c, p0
  <2> HIDE DEF s
  <2>9. ApplyBps(s, SlippageBps) \in Nat /\ ApplyBps(s, SlippageBps) >= s
    BY <2>7, PricingAssumption, ApplyBpsAdds
  <2> QED BY <2>3, <2>7, <2>8, <2>9
<1> QED BY <1>1, DocumentsFollow, PTL
=============================================================================
