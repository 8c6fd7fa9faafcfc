---------------------------- MODULE ClientProofs ----------------------------
(***************************************************************************)
(* Proofs about Client, for requests of any length, any ceiling and any    *)
(* prices.                                                                 *)
(*                                                                         *)
(* IInv says what each phase has established: what was accepted passed the *)
(* checks, what was refused did not, and everything has the shape of a     *)
(* quote or of a transaction, an operation having the fields of its type   *)
(* and no others.                                                          *)
(***************************************************************************)
EXTENDS Client, SequenceTheorems, FiniteSetTheorems, TLAPS

-----------------------------------------------------------------------------
(* Sequences with one element more, less or changed *)

LEMMA InsertStays ==
  ASSUME NEW S, NEW s \in Seq(S), NEW i \in 1 .. Len(s) + 1, NEW e \in S
  PROVE  InsertAt(s, i, e) \in Seq(S)
<1>1. \A j \in 1 .. Len(s) : s[j] \in S
  BY ElementOfSeq
<1>2. Len(s) \in Nat
  BY LenProperties
<1>3. SubSeq(s, 1, i - 1) \in Seq(S) /\ SubSeq(s, i, Len(s)) \in Seq(S)
  BY <1>1, <1>2, SubSeqProperties
<1>4. <<e>> \in Seq(S)
  OBVIOUS
<1> QED BY <1>3, <1>4, ConcatProperties DEF InsertAt

LEMMA RemoveStays ==
  ASSUME NEW S, NEW s \in Seq(S), NEW i \in 1 .. Len(s)
  PROVE  RemoveAt(s, i) \in Seq(S)
<1>1. \A j \in 1 .. Len(s) : s[j] \in S
  BY ElementOfSeq
<1>2. Len(s) \in Nat
  BY LenProperties
<1>3. SubSeq(s, 1, i - 1) \in Seq(S) /\ SubSeq(s, i + 1, Len(s)) \in Seq(S)
  BY <1>1, <1>2, SubSeqProperties
<1> QED BY <1>3, ConcatProperties DEF RemoveAt

LEMMA FirstThen ==
  ASSUME NEW S, NEW s \in Seq(S), NEW e \in S
  PROVE  /\ <<e>> \o s \in Seq(S) /\ Len(<<e>> \o s) = Len(s) + 1
         /\ (<<e>> \o s)[1] = e
         /\ \A i \in 1 .. Len(s) : (<<e>> \o s)[i + 1] = s[i]
<1>1. <<e>> \in Seq(S) /\ Len(<<e>>) = 1 /\ <<e>>[1] = e /\ Len(s) \in Nat
  OBVIOUS
<1> DEFINE one == <<e>>
           u == one \o s
<1> HIDE DEF one
<1>2. one \in Seq(S) /\ Len(one) = 1 /\ one[1] = e
  BY <1>1 DEF one
<1>3. /\ u \in Seq(S) /\ Len(u) = Len(one) + Len(s)
      /\ \A i \in 1 .. Len(one) + Len(s) : u[i] = IF i <= Len(one) THEN one[i] ELSE s[i - Len(one)]
  BY <1>2, ConcatProperties
<1> HIDE DEF u
<1>4. u \in Seq(S) /\ Len(u) = Len(s) + 1 /\ u[1] = e /\ \A i \in 1 .. Len(s) : u[i + 1] = s[i]
  BY <1>1, <1>2, <1>3
<1> QED BY <1>4 DEF u, one

LEMMA ThenLast ==
  ASSUME NEW S, NEW s \in Seq(S), NEW e \in S
  PROVE  /\ s \o <<e>> \in Seq(S) /\ Len(s \o <<e>>) = Len(s) + 1
         /\ (s \o <<e>>)[Len(s) + 1] = e
         /\ \A i \in 1 .. Len(s) : (s \o <<e>>)[i] = s[i]
<1>1. <<e>> \in Seq(S) /\ Len(<<e>>) = 1 /\ <<e>>[1] = e /\ Len(s) \in Nat
  OBVIOUS
<1> DEFINE one == <<e>>
           u == s \o one
<1> HIDE DEF one
<1>2. one \in Seq(S) /\ Len(one) = 1 /\ one[1] = e
  BY <1>1 DEF one
<1>3. /\ u \in Seq(S) /\ Len(u) = Len(s) + Len(one)
      /\ \A i \in 1 .. Len(s) + Len(one) : u[i] = IF i <= Len(s) THEN s[i] ELSE one[i - Len(s)]
  BY <1>2, ConcatProperties
<1> HIDE DEF u
<1>4. /\ u \in Seq(S) /\ Len(u) = Len(s) + 1 /\ u[Len(s) + 1] = e
      /\ \A i \in 1 .. Len(s) : u[i] = s[i]
  BY <1>1, <1>2, <1>3
<1> QED BY <1>4 DEF u, one

\* Edits with elements of a kind keep to the kind.
LEMMA EditStays ==
  ASSUME NEW S, NEW s \in Seq(S), NEW more \in SUBSET S, NEW others,
         \A i \in 1 .. Len(s) : others[i] \subseteq S,
         NEW t \in Edited(s, more, others)
  PROVE  t \in Seq(S)
<1> Len(s) \in Nat /\ DOMAIN s = 1 .. Len(s)
  BY LenProperties
<1>1. ASSUME NEW i \in 1 .. Len(s) + 1, NEW e \in more, t = InsertAt(s, i, e)
      PROVE  t \in Seq(S)
  BY <1>1, InsertStays
<1>2. ASSUME NEW i \in 1 .. Len(s), t = RemoveAt(s, i)
      PROVE  t \in Seq(S)
  BY <1>2, RemoveStays
<1>3. ASSUME NEW i \in 1 .. Len(s), NEW e \in others[i], t = [s EXCEPT ![i] = e]
      PROVE  t \in Seq(S)
  BY <1>3, ExceptSeq
<1> QED BY <1>1, <1>2, <1>3 DEF Edited

-----------------------------------------------------------------------------
(* Shapes *)

\* A requested operation as a quote may carry it.
QuotedOp ==
    [type : {"create_account"}, to : Account, asset : {None}, amount : {0}]
    \cup [type : {"payment", "create_claimable_balance"}, to : Account, asset : Asset, amount : Nat]
    \cup [type : {"change_trust"}, to : {None}, asset : Asset, amount : Nat]
    \cup [type : {"claim_balance"}, to : Id \cup {UpperId}, asset : {None}, amount : {0}]

\* A quote, with any values in its fields; the sponsor it names is not the user.
PayloadShape ==
    [network : {"ours", "theirs"}, mode : {"sponsored", "bootstrap"},
     source : {"user", "other"}, sponsor : {"sponsor", "other"},
     channel : {None, "channel", "user"}, ops : Seq(QuotedOp), fee_token : Asset,
     charge : Nat, send_max : Nat, reserve : Nat, sequence : Nat]

ToAccount == {"create_account", "payment", "begin_sponsoring", "path_payment_strict_receive"}
ToNobody == {"change_trust", "create_claimable_balance", "end_sponsoring"}
WithoutAsset == {"create_account", "claim_balance", "begin_sponsoring", "end_sponsoring"}

\* Who may claim a balance, and from when.
Owners == SUBSET (Account \X {"at once", "after seven days"})

\* An operation of a transaction: only the fields its type has are set.
WireOp ==
    {op \in [type : ToAccount \cup ToNobody \cup {"claim_balance"},
             to : Account \cup Id \cup {None}, asset : Asset \cup {None},
             amount : Nat, max : Nat, gets : {"xlm", None} \cup Asset,
             claimants : Owners,
             source : Account \cup {None}] :
        /\ op.type \in ToAccount => op.to \in Account
        /\ op.type \in ToNobody => op.to = None
        /\ op.type = "claim_balance" => op.to \in Id /\ op.amount = 0
        /\ op.type \in WithoutAsset <=> op.asset = None
        /\ op.type # "path_payment_strict_receive" => op.max = 0 /\ op.gets = None
        /\ op.type # "create_claimable_balance" => op.claimants = {}}

TxShape == [source : Account, sequence : Nat, ops : Seq(WireOp)]

LEMMA AskedIsQuoted == AskedOp \subseteq QuotedOp
BY DEF AskedOp, QuotedOp, Account, Asset, Id, UpperId, None, Unset

\* The request is a sequence of askable operations.
LEMMA RequestShaped ==
  ASSUME NEW r \in Request
  PROVE  /\ r.ops \in Seq(AskedOp) /\ Len(r.ops) \in Nat \ {0}
         /\ DOMAIN r.ops = 1 .. Len(r.ops)
         /\ \A i \in DOMAIN r.ops : r.ops[i] \in AskedOp
         /\ r.fee_token = "usdc" /\ r.pinned \in BOOLEAN
<1>1. PICK n \in 1 .. MaxAsked : r.ops \in [1 .. n -> AskedOp]
  BY DEF Request
<1>2. n \in Nat \ {0}
  BY ClientAssumption
<1>3. r.ops \in Seq(AskedOp) /\ Len(r.ops) = n
  BY <1>1, <1>2
<1> QED BY <1>1, <1>2, <1>3 DEF Request

\* An edited operation has the shape of an operation of its kind.
LEMMA OtherQuotedOp ==
  ASSUME NEW op \in QuotedOp
  PROVE  OtherOp(op) \subseteq QuotedOp
<1> USE DEF QuotedOp, Account, Asset, Id, UpperId, None, MaxLimit
<1>1. CASE op.type = "create_account"
  BY <1>1 DEF OtherOp
<1>2. CASE op.type \in {"payment", "create_claimable_balance"}
  BY <1>2 DEF OtherOp
<1>3. CASE op.type = "change_trust"
  BY <1>3 DEF OtherOp
<1>4. CASE op.type = "claim_balance"
  BY <1>4 DEF OtherOp
<1> QED BY <1>1, <1>2, <1>3, <1>4

LEMMA OtherWireOp ==
  ASSUME NEW op \in WireOp
  PROVE  OtherBuiltOp(op) \subseteq WireOp
<1>0. {1, 2, MaxLimit} \subseteq Nat
  BY DEF MaxLimit
<1> USE DEF WireOp, ToAccount, ToNobody, WithoutAsset
<1>1. ASSUME NEW e \in OtherOp(op) PROVE e \in WireOp
  <2> USE DEF Account, Asset, Id, None
  <2>1. ASSUME op.to \in Account, NEW x \in {"other", "user"}
        PROVE  [op EXCEPT !.to = x] \in WireOp
    <3>1. op.type \in ToAccount /\ x \in Account
      BY <2>1
    <3>2. op.type \notin ToNobody /\ op.type # "claim_balance"
      BY <3>1
    <3> QED BY <3>1, <3>2
  <2>2. ASSUME op.to \notin Account, op.to # None, NEW x \in Id
        PROVE  [op EXCEPT !.to = x] \in WireOp
    BY <2>2
  <2>3. ASSUME op.asset # None, NEW x \in Asset
        PROVE  [op EXCEPT !.asset = x] \in WireOp
    BY <2>3
  <2>4. ASSUME op.asset # None, NEW x \in {1, 2, MaxLimit}
        PROVE  [op EXCEPT !.amount = x] \in WireOp
    <3>1. x \in Nat
      BY <1>0, <2>4
    <3>2. op.type \notin WithoutAsset
      BY <2>4
    <3>3. op.type # "claim_balance"
      BY <3>2
    <3> QED BY <3>1, <3>3
  <2> HIDE DEF WireOp, Account, Asset, Id, None
  <2> QED BY <1>1, <2>1, <2>2, <2>3, <2>4 DEF OtherOp
<1>2. ASSUME NEW x \in {None, "user", "other", "channel"}
      PROVE  [op EXCEPT !.source = x] \in WireOp
  <2>1. x \in Account \cup {None}
    BY <1>2 DEF Account
  <2> QED BY <2>1
<1>3. ASSUME op.type = "create_account" PROVE [op EXCEPT !.amount = 1] \in WireOp
  BY <1>3
<1>4. ASSUME NEW x \in SendMaxes, op.type = "path_payment_strict_receive"
      PROVE  [op EXCEPT !.max = x] \in WireOp
  BY <1>4, ClientAssumption
<1>5. ASSUME op.gets # None, NEW x \in Asset
      PROVE  [op EXCEPT !.gets = x] \in WireOp
  BY <1>5
<1>6. ASSUME op.claimants # {}, NEW x \in Owners
      PROVE  [op EXCEPT !.claimants = x] \in WireOp
  <2>1. op.type = "create_claimable_balance"
    BY <1>6
  <2> QED BY <1>6, <2>1
<1> DEFINE others == {{<<"other", "at once">>}, {<<"other", "at once">>, <<"user", "at once">>}}
<1>7. others \subseteq Owners
  <2>1. <<"other", "at once">> \in Account \X {"at once", "after seven days"}
    BY DEF Account
  <2>2. <<"user", "at once">> \in Account \X {"at once", "after seven days"}
    BY DEF Account
  <2> QED BY <2>1, <2>2 DEF Owners
<1> HIDE DEF WireOp, ToAccount, ToNobody, WithoutAsset
<1>8. OtherBuiltOp(op) =
         OtherOp(op)
         \cup {[op EXCEPT !.source = x] : x \in {None, "user", "other", "channel"}}
         \cup {[op EXCEPT !.amount = 1] : x \in {op.type} \cap {"create_account"}}
         \cup {[op EXCEPT !.max = x] :
                  x \in (IF op.type = "path_payment_strict_receive" THEN SendMaxes ELSE {})}
         \cup {[op EXCEPT !.gets = x] : x \in (IF op.gets = None THEN {} ELSE Asset)}
         \cup {[op EXCEPT !.claimants = x] : x \in (IF op.claimants = {} THEN {} ELSE others)}
  BY Zenon DEF OtherBuiltOp
<1> HIDE DEF others
<1> QED BY <1>1, <1>2, <1>3, <1>4, <1>5, <1>6, <1>7, <1>8

-----------------------------------------------------------------------------
(* What the service answers *)

LEMMA HonestShaped ==
  ASSUME NEW m \in Nat, request \in Request,
         account \in [exists : BOOLEAN, channel : {None, "channel"}]
  PROVE  Honest(m) \in PayloadShape
<1>1. /\ request.ops \in Seq(AskedOp) /\ DOMAIN request.ops = 1 .. Len(request.ops)
      /\ Len(request.ops) \in Nat /\ request.fee_token \in Asset
  BY RequestShaped DEF Asset
<1>2. request.ops \in Seq(QuotedOp)
  BY <1>1, AskedIsQuoted, SeqMonotonic
<1> DEFINE reserved == {i \in DOMAIN request.ops : request.ops[i].type \in
                           {"create_account", "change_trust", "create_claimable_balance"}}
<1>3. Cardinality(reserved) \in Nat
  <2>1. IsFiniteSet(1 .. Len(request.ops))
    BY <1>1, FS_Interval
  <2>2. IsFiniteSet(reserved)
    BY <1>1, <2>1, FS_Subset
  <2> QED BY <2>2, FS_CardinalityType
<1> HIDE DEF reserved
<1>4. account.exists \in BOOLEAN /\ account.channel \in {None, "channel"}
  OBVIOUS
<1>5. Payload(request, account, m) =
        [network |-> "ours", mode |-> IF account.exists THEN "sponsored" ELSE "bootstrap",
         source |-> "user", sponsor |-> "sponsor",
         channel |-> IF account.exists THEN None ELSE account.channel,
         ops |-> request.ops, fee_token |-> request.fee_token, charge |-> 1, send_max |-> m,
         reserve |-> Cardinality(reserved), sequence |-> 1]
  BY DEF Payload, reserved
<1> QED BY <1>1, <1>2, <1>3, <1>4, <1>5 DEF Honest, PayloadShape

\* Whatever is changed in one place of a quote leaves a quote, to the sponsor
\* or somebody else.
LEMMA OtherPayloadShaped ==
  ASSUME NEW p \in PayloadShape, NEW e \in OtherPayload(p)
  PROVE  e \in PayloadShape
<1>1. CASE e \in {[p EXCEPT !.network = "theirs"], [p EXCEPT !.source = "other"],
                  [p EXCEPT !.sponsor = "other"], [p EXCEPT !.fee_token = "eurc"],
                  [p EXCEPT !.charge = 2], [p EXCEPT !.sequence = 2],
                  [p EXCEPT !.mode = IF @ = "sponsored" THEN "bootstrap" ELSE "sponsored"],
                  [p EXCEPT !.reserve = IF @ > 0 THEN 0 ELSE 1]}
  BY <1>1 DEF PayloadShape, Asset
<1>2. ASSUME NEW c \in {None, "channel", "user"}, e = [p EXCEPT !.channel = c]
      PROVE  e \in PayloadShape
  BY <1>2 DEF PayloadShape
<1>3. ASSUME NEW m \in SendMaxes, e = [p EXCEPT !.send_max = m]
      PROVE  e \in PayloadShape
  BY <1>3, ClientAssumption DEF PayloadShape
<1>4. ASSUME NEW ops \in Edited(p.ops,
                             [type : {"payment"}, to : {"other"}, asset : {"usdc"}, amount : {1}],
                             [i \in DOMAIN p.ops |-> OtherOp(p.ops[i])]),
             e = [p EXCEPT !.ops = ops]
      PROVE  e \in PayloadShape
  <2> DEFINE more == [type : {"payment"}, to : {"other"}, asset : {"usdc"}, amount : {1}]
             others == [i \in DOMAIN p.ops |-> OtherOp(p.ops[i])]
  <2>1. p.ops \in Seq(QuotedOp)
    BY DEF PayloadShape
  <2>2. more \in SUBSET QuotedOp
    BY DEF QuotedOp, Account, Asset
  <2>3. \A i \in 1 .. Len(p.ops) : others[i] \subseteq QuotedOp
    <3>1. DOMAIN p.ops = 1 .. Len(p.ops)
      BY <2>1, LenProperties
    <3> QED BY <2>1, <3>1, ElementOfSeq, OtherQuotedOp
  <2>4. ops \in Edited(p.ops, more, others)
    BY <1>4
  <2> HIDE DEF more, others
  <2>5. ops \in Seq(QuotedOp)
    BY <2>1, <2>2, <2>3, <2>4, EditStays
  <2> QED BY <1>4, <2>5 DEF PayloadShape
<1> QED BY <1>1, <1>2, <1>3, <1>4 DEF OtherPayload

\* Element by element what build_inner() builds.
LEMMA BuiltOpShaped ==
  ASSUME NEW p \in PayloadShape, NEW op \in QuotedOp
  PROVE  BuiltOp(p, op) \in WireOp
<1> DEFINE source == IF op.type = "create_account" THEN None ELSE UserSource(p)
<1>1. source \in Account \cup {None}
  BY DEF UserSource, PayloadShape, Account
<1>7. {} \in Owners
  BY DEF Owners
<1> USE <1>7 DEF QuotedOp, WireOp, ToAccount, ToNobody, WithoutAsset, BuiltOp, Op,
                 Account, Asset, Id, UpperId, None
<1>2. CASE op.type = "create_account"
  <2>1. BuiltOp(p, op) = Op("create_account", op.to, None, 0, 0, None)
    BY <1>2 DEF LowerCase
  <2> QED BY <1>2, <2>1
<1>6. CASE op.type = "payment"
  <2>1. BuiltOp(p, op) = Op("payment", op.to, op.asset, op.amount, 0, UserSource(p))
    BY <1>6 DEF LowerCase
  <2> QED BY <1>1, <1>6, <2>1
<1>3. CASE op.type = "change_trust"
  BY <1>1, <1>3 DEF Limit, MaxLimit
<1>4. CASE op.type = "claim_balance"
  BY <1>1, <1>4 DEF LowerCase
<1>5. CASE op.type = "create_claimable_balance"
  <2>1. <<op.to, "at once">> \in Account \X {"at once", "after seven days"}
    BY <1>5
  <2>2. <<p.source, "after seven days">> \in Account \X {"at once", "after seven days"}
    BY DEF PayloadShape
  <2>3. {<<op.to, "at once">>, <<p.source, "after seven days">>}
           \in Owners
    BY <2>1, <2>2 DEF Owners
  <2> QED BY <1>1, <1>5, <2>3
<1> QED BY <1>2, <1>3, <1>4, <1>5, <1>6

\* Where everything is in what build_inner() builds: the opening first, the
\* requested operations in their order, the closing, the fee last.
LEMMA BuiltTransaction ==
  ASSUME NEW p \in PayloadShape
  PROVE  LET t == BuildInner(p)
             k == IF p.reserve > 0 THEN 1 ELSE 0
             n == Len(t.ops)
         IN  /\ t \in TxShape
             /\ t.source = TxSource(p) /\ t.sequence = p.sequence
             /\ n = Len(p.ops) + 2 * k + 1
             /\ k = 1 => t.ops[1] = Begin(p) /\ t.ops[n - 1] = End(p)
             /\ t.ops[n] = Fee(p)
             /\ \A i \in 1 .. Len(p.ops) : t.ops[i + k] = BuiltOp(p, p.ops[i])
<1> DEFINE asked == [i \in DOMAIN p.ops |-> BuiltOp(p, p.ops[i])]
           body == IF p.reserve > 0 THEN <<Begin(p)>> \o asked \o <<End(p)>> ELSE asked
           k == IF p.reserve > 0 THEN 1 ELSE 0
<1>1. /\ p.ops \in Seq(QuotedOp) /\ Len(p.ops) \in Nat /\ DOMAIN p.ops = 1 .. Len(p.ops)
      /\ \A i \in 1 .. Len(p.ops) : p.ops[i] \in QuotedOp
  <2>1. p.ops \in Seq(QuotedOp)
    BY DEF PayloadShape
  <2> QED BY <2>1, LenProperties, ElementOfSeq
<1>2. asked \in Seq(WireOp) /\ Len(asked) = Len(p.ops)
  <2>1. \A i \in 1 .. Len(p.ops) : BuiltOp(p, p.ops[i]) \in WireOp
    BY <1>1, BuiltOpShaped
  <2>2. asked \in [1 .. Len(p.ops) -> WireOp]
    BY <1>1, <2>1
  <2> QED BY <1>1, <2>2
<1>3. \A i \in 1 .. Len(p.ops) : asked[i] = BuiltOp(p, p.ops[i])
  BY <1>1
<1>4. TxSource(p) \in Account
  BY DEF TxSource, Lane, PayloadShape, Account
<1>18. {} \in Owners
  BY DEF Owners
<1>5. Begin(p) \in WireOp
  BY <1>18 DEF Begin, Op, WireOp, PayloadShape, ToAccount, ToNobody, WithoutAsset, Account
<1>6. End(p) \in WireOp
  BY <1>18 DEF End, Op, WireOp, PayloadShape, ToAccount, ToNobody, WithoutAsset, Account
<1>7. Fee(p) \in WireOp
  BY <1>18 DEF Fee, Op, UserSource, WireOp, PayloadShape, ToAccount, ToNobody, WithoutAsset,
         Account, Asset, None
<1> HIDE DEF asked
<1>8. /\ body \in Seq(WireOp) /\ Len(body) = Len(p.ops) + 2 * k
      /\ k = 1 => body[1] = Begin(p) /\ body[Len(body)] = End(p)
      /\ \A i \in 1 .. Len(p.ops) : body[i + k] = BuiltOp(p, p.ops[i])
  <2>1. CASE p.reserve > 0
    <3> DEFINE opened == <<Begin(p)>> \o asked
               closed == opened \o <<End(p)>>
    <3>1. /\ opened \in Seq(WireOp) /\ Len(opened) = Len(p.ops) + 1
          /\ opened[1] = Begin(p) /\ \A i \in 1 .. Len(p.ops) : opened[i + 1] = asked[i]
      BY <1>2, <1>5, FirstThen
    <3> HIDE DEF opened
    <3>2. /\ closed \in Seq(WireOp) /\ Len(closed) = Len(opened) + 1
          /\ closed[Len(opened) + 1] = End(p) /\ \A i \in 1 .. Len(opened) : closed[i] = opened[i]
      BY <1>6, <3>1, ThenLast
    <3>3. body = closed /\ k = 1
      BY <2>1 DEF opened
    <3> HIDE DEF closed, body, k
    <3>4. closed[1] = Begin(p) /\ \A i \in 1 .. Len(p.ops) : closed[i + 1] = asked[i]
      BY <1>1, <3>1, <3>2
    <3> QED BY <1>1, <1>3, <3>1, <3>2, <3>3, <3>4
  <2>2. CASE ~(p.reserve > 0)
    <3>1. body = asked /\ k = 0
      BY <2>2
    <3> HIDE DEF body, k
    <3> QED BY <1>1, <1>2, <1>3, <3>1
  <2> QED BY <2>1, <2>2
<1> DEFINE all == body \o <<Fee(p)>>
<1>9. BuildInner(p) = [source |-> TxSource(p), sequence |-> p.sequence, ops |-> all]
  BY DEF BuildInner, asked
<1>10. k \in {0, 1} /\ p.sequence \in Nat
  BY DEF PayloadShape
<1>11. k = IF p.reserve > 0 THEN 1 ELSE 0
  OBVIOUS
<1> HIDE DEF body, k
<1>12. /\ all \in Seq(WireOp) /\ Len(all) = Len(body) + 1
       /\ all[Len(body) + 1] = Fee(p) /\ \A i \in 1 .. Len(body) : all[i] = body[i]
  BY <1>7, <1>8, ThenLast
<1> HIDE DEF all
<1>13. BuildInner(p) \in TxShape
  BY <1>4, <1>9, <1>10, <1>12 DEF TxShape
<1> DEFINE n == Len(BuildInner(p).ops)
<1>14. n = Len(p.ops) + 2 * k + 1 /\ BuildInner(p).ops[n] = Fee(p)
  BY <1>1, <1>8, <1>9, <1>10, <1>12
<1>15. k = 1 => BuildInner(p).ops[1] = Begin(p) /\ BuildInner(p).ops[n - 1] = End(p)
  BY <1>1, <1>8, <1>9, <1>12, <1>14
<1>16. \A i \in 1 .. Len(p.ops) : BuildInner(p).ops[i + k] = BuiltOp(p, p.ops[i])
  <2> TAKE i \in 1 .. Len(p.ops)
  <2>1. i + k \in 1 .. Len(body)
    <3>1. Len(p.ops) \in Nat /\ Len(body) = Len(p.ops) + 2 * k
      BY <1>1, <1>8
    <3>2. CASE k = 0
      BY <3>1, <3>2
    <3>3. CASE k = 1
      BY <3>1, <3>3
    <3> QED BY <1>10, <3>2, <3>3
  <2>2. all[i + k] = body[i + k] /\ body[i + k] = BuiltOp(p, p.ops[i])
    BY <1>8, <1>12, <2>1
  <2> QED BY <1>9, <2>2
<1>17. BuildInner(p).source = TxSource(p) /\ BuildInner(p).sequence = p.sequence
  BY <1>9
<1> QED BY <1>11, <1>13, <1>14, <1>15, <1>16, <1>17

\* Whatever is changed in one place of a transaction leaves a transaction.
LEMMA OtherTxShaped ==
  ASSUME NEW t \in TxShape, NEW e \in OtherTx(t)
  PROVE  e \in TxShape
<1>1. ASSUME NEW x \in Account, e = [t EXCEPT !.source = x]
      PROVE  e \in TxShape
  BY <1>1 DEF TxShape
<1>2. ASSUME e = [t EXCEPT !.sequence = 2]
      PROVE  e \in TxShape
  BY <1>2 DEF TxShape
<1>3. ASSUME NEW ops \in Edited(t.ops,
                             {Op("payment", "other", "usdc", 1, 0, x) : x \in {None, "user"}},
                             [i \in DOMAIN t.ops |-> OtherBuiltOp(t.ops[i])]),
             e = [t EXCEPT !.ops = ops]
      PROVE  e \in TxShape
  <2> DEFINE more == {Op("payment", "other", "usdc", 1, 0, x) : x \in {None, "user"}}
             others == [i \in DOMAIN t.ops |-> OtherBuiltOp(t.ops[i])]
  <2>1. t.ops \in Seq(WireOp)
    BY DEF TxShape
  <2>2. more \in SUBSET WireOp
    <3>1. ASSUME NEW x \in {None, "user"} PROVE Op("payment", "other", "usdc", 1, 0, x) \in WireOp
      BY DEF Op, WireOp, Owners, ToAccount, ToNobody, WithoutAsset, Account, Asset, None
    <3> QED BY <3>1
  <2>3. \A i \in 1 .. Len(t.ops) : others[i] \subseteq WireOp
    <3>1. DOMAIN t.ops = 1 .. Len(t.ops)
      BY <2>1, LenProperties
    <3> QED BY <2>1, <3>1, ElementOfSeq, OtherWireOp
  <2>4. ops \in Edited(t.ops, more, others)
    BY <1>3
  <2> HIDE DEF more, others
  <2>5. ops \in Seq(WireOp)
    BY <2>1, <2>2, <2>3, <2>4, EditStays
  <2> QED BY <1>3, <2>5 DEF TxShape
<1> QED BY <1>1, <1>2, <1>3 DEF OtherTx

-----------------------------------------------------------------------------
(* What the client accepts of it *)

\* A quote as it should be is refused for its price only.
LEMMA HonestQuoteAccepted ==
  ASSUME NEW m \in Nat, request \in Request
  PROVE  VerifyQuote(Honest(m), request) <=> m <= Cap
<1>1. /\ Honest(m).network = "ours" /\ Honest(m).sponsor = "sponsor"
      /\ Honest(m).source = "user" /\ Honest(m).fee_token = request.fee_token
      /\ Honest(m).send_max = m /\ Honest(m).ops = request.ops
  BY DEF Honest, Payload
<1> QED BY <1>1 DEF VerifyQuote, PinsMatch, UnderCap, SameOp

\* One operation as it should be is the one that was asked for.
LEMMA BuiltOpAccepted ==
  ASSUME NEW p \in PayloadShape, NEW op \in AskedOp, op.to # UpperId
  PROVE  /\ BuiltOp(p, op).source \in {None, p.source}
         /\ VerifyOp(BuiltOp(p, op), op, p.source)
<1> USE DEF AskedOp, BuiltOp, Op, VerifyOp, UserSource, None
<1>1. LowerCase(op.to) = op.to
  BY DEF LowerCase
<1>2. CASE op.type = "create_account"
  BY <1>1, <1>2
<1>3. CASE op.type = "payment"
  BY <1>1, <1>3
<1>4. CASE op.type = "claim_balance"
  BY <1>1, <1>4
<1>5. CASE op.type = "change_trust"
  BY <1>5 DEF Limit
<1>6. CASE op.type = "create_claimable_balance"
  BY <1>6
<1> QED BY <1>2, <1>3, <1>4, <1>5, <1>6

\* The transaction built from a quote as it should be is accepted.
LEMMA HonestTransactionAccepted ==
  ASSUME NEW m \in Nat, m <= Cap, request \in Request,
         account \in [exists : BOOLEAN, channel : {None, "channel"}],
         \A i \in DOMAIN request.ops : request.ops[i].to # UpperId
  PROVE  VerifyTransaction(BuildInner(Honest(m)), Honest(m), request)
<1> DEFINE p == Honest(m)
           t == BuildInner(p)
           k == IF p.reserve > 0 THEN 1 ELSE 0
           n == Len(t.ops)
<1>1. p \in PayloadShape /\ VerifyQuote(p, request) /\ p.ops = request.ops
  BY HonestShaped, HonestQuoteAccepted DEF Honest, Payload
<1> HIDE DEF p
<1>2. /\ t.source = TxSource(p) /\ t.sequence = p.sequence
      /\ n = Len(p.ops) + 2 * k + 1
      /\ k = 1 => t.ops[1] = Begin(p) /\ t.ops[n - 1] = End(p)
      /\ t.ops[n] = Fee(p)
      /\ \A i \in 1 .. Len(p.ops) : t.ops[i + k] = BuiltOp(p, p.ops[i])
  BY <1>1, BuiltTransaction
<1> HIDE DEF t, k, n
<1>3. t.source = ExpectedSource(p)
  BY <1>1, <1>2 DEF ExpectedSource, TxSource, Lane, PayloadShape
<1>4. Opens(Begin(p), t, p) /\ Closes(End(p), p) /\ PaysFee(Fee(p), p)
  <2>1. p.sponsor # None
    BY <1>1 DEF PayloadShape, None
  <2> QED BY <1>2, <2>1 DEF Opens, Closes, PaysFee, Begin, End, Fee, Op, UserSource
<1>5. \A i \in DOMAIN request.ops : /\ t.ops[i + k].source \in {None, p.source}
                                    /\ VerifyOp(t.ops[i + k], request.ops[i], p.source)
  <2>1. DOMAIN request.ops = 1 .. Len(p.ops) /\ \A i \in DOMAIN request.ops : request.ops[i] \in AskedOp
    BY <1>1, RequestShaped
  <2> QED BY <1>1, <1>2, <2>1, BuiltOpAccepted
<1>6. VerifyOps(t, p, request.ops)
  BY <1>1, <1>2, <1>4, <1>5 DEF VerifyOps, k, n
<1> QED BY <1>1, <1>2, <1>3, <1>6 DEF VerifyTransaction, p, t

-----------------------------------------------------------------------------
(* The inductive invariant *)

\* What the caller asks and the service knows does not change.
Given ==
    /\ request \in Request
    /\ account \in [exists : BOOLEAN, channel : {None, "channel"}]

\* What each phase has established of the quote and the transaction.
Established ==
    /\ phase \in {"asked", "quoted", "signed", "refused", "served", "mismatch"}
    /\ phase = "asked" => payload = NoPayload
    /\ phase \in {"asked", "quoted"} => tx = NoTx
    /\ phase # "asked" => payload \in PayloadShape
    /\ phase = "quoted" \/ Signed => VerifyQuote(payload, request)
    /\ Signed => /\ tx \in TxShape /\ VerifyTransaction(tx, payload, request)
                 /\ passphrase = payload.network

\* A refusal, of the quote or of the transaction, has its reason.
Refused ==
    /\ phase = "refused" =>
          \/ ~VerifyQuote(payload, request)
          \/ /\ tx # NoTx
             /\ ~(VerifyTransaction(tx, payload, request) /\ passphrase = payload.network)
    /\ phase = "mismatch" => tx # NoTx /\ tx # BuildInner(payload)

IInv == Given /\ Established /\ Refused

LEMMA ATransactionIsSome ==
  ASSUME NEW t \in TxShape
  PROVE  t # NoTx
<1>1. DOMAIN t = {"source", "sequence", "ops"}
  BY DEF TxShape
<1>2. DOMAIN NoTx = {"source"}
  BY DEF NoTx
<1> QED BY <1>1, <1>2

LEMMA QuoteKeeps ==
  ASSUME IInv, NEW p \in PayloadShape, Quote(p)
  PROVE  IInv'
<1> USE DEF Quote
<1>1. Given'
  BY DEF IInv, Given
<1>2. phase = "asked" /\ phase' = IF VerifyQuote(p, request) THEN "quoted" ELSE "refused"
  OBVIOUS
<1>3. tx' = NoTx /\ payload' = p /\ request' = request
  BY DEF IInv, Established
<1>4. VerifyQuote(payload, request)' <=> VerifyQuote(p, request)
  BY <1>3 DEF VerifyQuote, PinsMatch, UnderCap
<1>5. Established'
  BY <1>2, <1>3, <1>4 DEF Established, Signed
<1>6. Refused'
  BY <1>2, <1>4 DEF Refused
<1> QED BY <1>1, <1>5, <1>6 DEF IInv

LEMMA BuildKeeps ==
  ASSUME IInv, NEW t \in TxShape, NEW w \in {"ours", "theirs"}, Build(t, w)
  PROVE  IInv'
<1>1. /\ phase = "quoted" /\ tx' = t /\ passphrase' = w
      /\ phase' = IF VerifyTransaction(t, payload, request) /\ w = payload.network
                  THEN "signed" ELSE "refused"
      /\ UNCHANGED <<request, account, payload>>
  BY DEF Build
<1>2. VerifyTransaction(tx, payload, request)' <=> VerifyTransaction(t, payload, request)
  BY <1>1
<1>3. VerifyQuote(payload, request)' <=> VerifyQuote(payload, request)
  BY <1>1
<1>4. Given'
  BY <1>1 DEF IInv, Given
<1>5. Established'
  BY <1>1, <1>2, <1>3 DEF IInv, Established, Signed
<1>6. Refused'
  BY <1>1, <1>2, ATransactionIsSome DEF Refused
<1> QED BY <1>4, <1>5, <1>6 DEF IInv

LEMMA SubmitKeeps ==
  ASSUME IInv, Submit
  PROVE  IInv'
<1>1. /\ phase = "signed" /\ phase' = IF tx = BuildInner(payload) THEN "served" ELSE "mismatch"
      /\ UNCHANGED <<request, account, payload, tx, passphrase>>
  BY DEF Submit
<1>2. /\ VerifyTransaction(tx, payload, request)' <=> VerifyTransaction(tx, payload, request)
      /\ VerifyQuote(payload, request)' <=> VerifyQuote(payload, request)
      /\ BuildInner(payload)' = BuildInner(payload)
  BY <1>1
<1>3. Given'
  BY <1>1 DEF IInv, Given
<1>4. Established'
  BY <1>1, <1>2 DEF IInv, Established, Signed
<1>5. Refused'
  BY <1>1, <1>2, ATransactionIsSome DEF IInv, Established, Signed, Refused
<1> QED BY <1>3, <1>4, <1>5 DEF IInv

\* The client in front of a service that answers anything at all of the right
\* shape, not only what it should with one place changed.
AnyNext ==
    \/ \E p \in PayloadShape : Quote(p)
    \/ \E t \in TxShape, w \in {"ours", "theirs"} : Build(t, w)
    \/ Submit

AnySpec == Init /\ [][AnyNext]_vars

LEMMA AnyNextInvariant == IInv /\ [AnyNext]_vars => IInv'
<1> SUFFICES ASSUME IInv, [AnyNext]_vars PROVE IInv'
  OBVIOUS
<1>1. CASE UNCHANGED vars
  <2>1. UNCHANGED <<phase, request, account, payload, tx, passphrase>>
    BY <1>1 DEF vars
  <2>2. /\ VerifyTransaction(tx, payload, request)' <=> VerifyTransaction(tx, payload, request)
        /\ VerifyQuote(payload, request)' <=> VerifyQuote(payload, request)
        /\ BuildInner(payload)' = BuildInner(payload)
    BY <2>1
  <2>3. Given'
    BY <2>1 DEF IInv, Given
  <2>4. Established'
    BY <2>1, <2>2 DEF IInv, Established, Signed
  <2>5. Refused'
    BY <2>1, <2>2 DEF IInv, Refused
  <2> QED BY <2>3, <2>4, <2>5 DEF IInv
<1> QED BY <1>1, QuoteKeeps, BuildKeeps, SubmitKeeps DEF AnyNext

\* The answers Client enumerates are among them.
LEMMA NextIsAnyNext == IInv /\ [Next]_vars => [AnyNext]_vars
<1> SUFFICES ASSUME IInv, Next PROVE AnyNext
  OBVIOUS
<1>1. ASSUME NEW m \in SendMaxes, NEW p \in {Honest(m)} \cup OtherPayload(Honest(m)), Quote(p)
      PROVE  AnyNext
  <2>1. m \in Nat
    BY ClientAssumption
  <2>2. Honest(m) \in PayloadShape
    BY <2>1, HonestShaped DEF IInv, Given
  <2>3. p \in PayloadShape
    BY <2>2, OtherPayloadShaped
  <2> QED BY <1>1, <2>3 DEF AnyNext
<1>2. ASSUME phase = "quoted", NEW w \in {"ours", "theirs"},
             NEW t \in {BuildInner(payload)} \cup OtherTx(BuildInner(payload)), Build(t, w)
      PROVE  AnyNext
  <2>1. BuildInner(payload) \in TxShape
    BY <1>2, BuiltTransaction DEF IInv, Established
  <2>2. t \in TxShape
    BY <2>1, OtherTxShaped
  <2> QED BY <1>2, <2>2 DEF AnyNext
<1>3. CASE Submit
  BY <1>3 DEF AnyNext
<1> QED BY <1>1, <1>2, <1>3 DEF Next

LEMMA InitInvariant == Init => IInv
BY DEF Init, IInv, Given, Established, Refused, Signed

\* What was accepted passed the checks, whatever the service answers.
THEOREM AnyInvariant == AnySpec => []IInv
<1> QED BY InitInvariant, AnyNextInvariant, PTL DEF AnySpec

\* The same before the service of Client, which changes one place of its answers:
\* those answers have the right shape.
THEOREM ClientInvariant == Spec => []IInv
<1> QED BY InitInvariant, AnyNextInvariant, NextIsAnyNext, PTL DEF Spec

-----------------------------------------------------------------------------
(* What follows *)

\* The parts of a transaction that was accepted.
LEMMA SignedParts ==
  ASSUME IInv, Signed
  PROVE  LET k == IF payload.reserve > 0 THEN 1 ELSE 0
             n == Len(tx.ops)
         IN  /\ payload.source = "user" /\ k \in {0, 1}
             /\ n = Len(request.ops) + 2 * k + 1
             /\ n \in Nat \ {0}
             /\ \A i \in 1 .. n : tx.ops[i] \in WireOp
             /\ k = 1 => Opens(tx.ops[1], tx, payload) /\ Closes(tx.ops[n - 1], payload)
             /\ PaysFee(tx.ops[n], payload)
             /\ \A i \in 1 .. n : \/ i = n
                                  \/ k = 1 /\ (i = 1 \/ i = n - 1)
                                  \/ i - k \in DOMAIN request.ops
             /\ \A i \in 1 .. n : i - k \in DOMAIN request.ops =>
                    /\ request.ops[i - k] \in AskedOp
                    /\ tx.ops[i].source \in {None, "user"}
                    /\ VerifyOp(tx.ops[i], request.ops[i - k], "user")
<1> DEFINE k == IF payload.reserve > 0 THEN 1 ELSE 0
           n == Len(tx.ops)
<1>1. /\ VerifyQuote(payload, request) /\ tx \in TxShape
      /\ VerifyOps(tx, payload, request.ops)
  BY DEF IInv, Established, VerifyTransaction
<1>2. /\ DOMAIN request.ops = 1 .. Len(request.ops) /\ Len(request.ops) \in Nat \ {0}
      /\ \A i \in DOMAIN request.ops : request.ops[i] \in AskedOp
  BY RequestShaped DEF IInv, Given
<1>3. payload.source = "user"
  BY <1>1 DEF VerifyQuote
<1>4. /\ n = Len(request.ops) + 2 * k + 1
      /\ k = 1 => Opens(tx.ops[1], tx, payload) /\ Closes(tx.ops[n - 1], payload)
      /\ PaysFee(tx.ops[n], payload)
      /\ \A i \in DOMAIN request.ops : /\ tx.ops[i + k].source \in {None, "user"}
                                       /\ VerifyOp(tx.ops[i + k], request.ops[i], "user")
  BY <1>1, <1>3 DEF VerifyOps
<1>5. tx.ops \in Seq(WireOp)
  BY <1>1 DEF TxShape
<1>6. \A i \in 1 .. n : tx.ops[i] \in WireOp
  BY <1>5, ElementOfSeq
<1>7. k \in {0, 1} /\ k = IF payload.reserve > 0 THEN 1 ELSE 0
  OBVIOUS
<1> HIDE DEF k, n
<1>8. n \in Nat \ {0}
  <2>1. n = Len(request.ops) + 2 * k + 1 /\ Len(request.ops) \in Nat
    BY <1>2, <1>4
  <2>2. CASE k = 0
    BY <2>1, <2>2
  <2>3. CASE k = 1
    BY <2>1, <2>3
  <2> QED BY <1>7, <2>2, <2>3
<1>9. \A i \in 1 .. n : i = n \/ (k = 1 /\ (i = 1 \/ i = n - 1)) \/ i - k \in DOMAIN request.ops
  <2>1. n = Len(request.ops) + 2 * k + 1 /\ Len(request.ops) \in Nat
    BY <1>2, <1>4
  <2>2. \A i \in 1 .. n : \/ i = n \/ (k = 1 /\ (i = 1 \/ i = n - 1))
                         \/ i - k \in 1 .. Len(request.ops)
    <3>1. CASE k = 0
      BY <2>1, <3>1
    <3>2. CASE k = 1
      BY <2>1, <3>2
    <3> QED BY <1>7, <3>1, <3>2
  <2> QED BY <1>2, <2>2
<1>10. ASSUME NEW i \in 1 .. n, i - k \in DOMAIN request.ops
       PROVE  /\ request.ops[i - k] \in AskedOp
              /\ tx.ops[i].source \in {None, "user"}
              /\ VerifyOp(tx.ops[i], request.ops[i - k], "user")
  <2>1. (i - k) + k = i
    BY <1>7, <1>8
  <2> QED BY <1>2, <1>4, <1>10, <2>1
<1> QED BY <1>3, <1>4, <1>6, <1>7, <1>8, <1>9, <1>10 DEF n, k

\* An accepted operation does what was asked and nothing else.
LEMMA AcceptedIsAsked ==
  ASSUME NEW op \in WireOp, NEW want \in AskedOp, VerifyOp(op, want, "user"),
         payload.source = "user"
  PROVE  IsAsked(op, want)
<1> DEFINE b == BuiltOp(payload, want)
<1>1. op.type = want.type /\ op.to # UpperId
  BY DEF VerifyOp, WireOp, Account, Id, UpperId, None
<1>2. SUFFICES ASSUME ~(want.type = "change_trust" /\ want.amount = Unset)
               PROVE  Does(op) = Does(b)
  BY <1>1 DEF IsAsked, VerifyOp
<1> DEFINE Plain(type, to, asset, amount, claimants) ==
             [type |-> type, to |-> to, asset |-> asset, amount |-> amount, max |-> 0,
              gets |-> None, claimants |-> claimants, source |-> None]
<1>3. op.max = 0 /\ op.gets = None => Does(op) = Plain(op.type, op.to, op.asset, op.amount, op.claimants)
  <2>1. op = [type |-> op.type, to |-> op.to, asset |-> op.asset, amount |-> op.amount,
              max |-> op.max, gets |-> op.gets, claimants |-> op.claimants, source |-> op.source]
    BY DEF WireOp
  <2>2. [op EXCEPT !.source = None] =
             [type |-> op.type, to |-> op.to, asset |-> op.asset, amount |-> op.amount,
              max |-> op.max, gets |-> op.gets, claimants |-> op.claimants, source |-> None]
    BY <2>1
  <2> QED BY <2>2 DEF Does
<1>4. CASE want.type = "create_account"
  <2>1. /\ op.type = "create_account" /\ op.to = want.to /\ op.asset = None
        /\ op.amount = 0 /\ op.max = 0 /\ op.gets = None /\ op.claimants = {}
    BY <1>1, <1>2, <1>4 DEF VerifyOp, AskedOp, WireOp, ToAccount, ToNobody, WithoutAsset
  <2>2. Does(b) = Plain("create_account", want.to, None, 0, {})
    BY <1>1, <1>2, <1>4 DEF BuiltOp, Does, Op, LowerCase, AskedOp, UpperId
  <2> QED BY <1>3, <2>1, <2>2
<1>5. CASE want.type = "payment"
  <2>1. /\ op.type = "payment" /\ op.to = want.to /\ op.asset = want.asset
        /\ op.amount = want.amount /\ op.max = 0 /\ op.gets = None /\ op.claimants = {}
    BY <1>1, <1>2, <1>5 DEF VerifyOp, AskedOp, WireOp, ToAccount, ToNobody, WithoutAsset
  <2>2. Does(b) = Plain("payment", want.to, want.asset, want.amount, {})
    BY <1>1, <1>2, <1>5 DEF BuiltOp, Does, Op, LowerCase, AskedOp, UpperId
  <2> QED BY <1>3, <2>1, <2>2
<1>6. CASE want.type = "claim_balance"
  <2>1. /\ op.type = "claim_balance" /\ op.to = want.to /\ op.asset = None
        /\ op.amount = 0 /\ op.max = 0 /\ op.gets = None /\ op.claimants = {}
    <3>1. op.type = "claim_balance" /\ op.to = want.to
      BY <1>1, <1>6 DEF VerifyOp
    <3>2. /\ op.asset = None /\ op.amount = 0 /\ op.max = 0 /\ op.gets = None /\ op.claimants = {}
      BY <3>1 DEF WireOp, WithoutAsset
    <3> QED BY <3>1, <3>2
  <2>2. Does(b) = Plain("claim_balance", want.to, None, 0, {})
    <3>1. LowerCase(want.to) = want.to /\ want.asset = None /\ want.amount = 0
      BY <1>1, <1>6, <2>1 DEF LowerCase, AskedOp
    <3>2. b = Op("claim_balance", want.to, None, 0, 0, UserSource(payload))
      BY <1>6, <3>1 DEF BuiltOp
    <3> QED BY <3>2 DEF Does, Op
  <2> QED BY <1>3, <2>1, <2>2
<1>7. CASE want.type = "change_trust"
  <2>1. /\ op.type = "change_trust" /\ op.to = None /\ op.asset = want.asset
        /\ op.amount = want.amount /\ op.max = 0 /\ op.gets = None /\ op.claimants = {}
    BY <1>1, <1>2, <1>7 DEF VerifyOp, AskedOp, WireOp, ToAccount, ToNobody, WithoutAsset
  <2>2. Does(b) = Plain("change_trust", None, want.asset, want.amount, {})
    BY <1>1, <1>2, <1>7 DEF BuiltOp, Does, Op, Limit, AskedOp, LowerCase, UpperId, None
  <2> QED BY <1>3, <2>1, <2>2
<1>8. CASE want.type = "create_claimable_balance"
  <2>1. /\ op.type = "create_claimable_balance" /\ op.to = None /\ op.asset = want.asset
        /\ op.amount = want.amount /\ op.max = 0 /\ op.gets = None
        /\ op.claimants = {<<want.to, "at once">>, <<"user", "after seven days">>}
    <3>1. /\ op.type = "create_claimable_balance"
          /\ op.asset = want.asset /\ op.amount = want.amount
          /\ op.claimants = {<<want.to, "at once">>, <<"user", "after seven days">>}
      BY <1>1, <1>8 DEF VerifyOp
    <3>2. op.to = None /\ op.max = 0 /\ op.gets = None
      BY <3>1 DEF WireOp, ToNobody
    <3> QED BY <3>1, <3>2
  <2>2. Does(b) = Plain("create_claimable_balance", None, want.asset, want.amount,
                        {<<want.to, "at once">>, <<"user", "after seven days">>})
    <3> DEFINE owners == {<<want.to, "at once">>, <<"user", "after seven days">>}
               bare == Op("create_claimable_balance", None, want.asset, want.amount, 0,
                          UserSource(payload))
    <3>1. b = [bare EXCEPT !.claimants = owners]
      BY <1>8 DEF BuiltOp
    <3> HIDE DEF owners
    <3>2. b = [type |-> "create_claimable_balance", to |-> None, asset |-> want.asset,
               amount |-> want.amount, max |-> 0, gets |-> None, claimants |-> owners,
               source |-> UserSource(payload)]
      BY <3>1 DEF Op
    <3>3. Does(b) = Plain("create_claimable_balance", None, want.asset, want.amount, owners)
      BY <3>2 DEF Does
    <3> QED BY <3>3 DEF owners
  <2> QED BY <1>3, <2>1, <2>2
<1>9. want.type \in {"create_account", "payment", "claim_balance", "change_trust",
                    "create_claimable_balance"}
  BY DEF AskedOp
<1> QED BY <1>4, <1>5, <1>6, <1>7, <1>8, <1>9

\* What passed the checks does what was asked and pays a fee under the ceiling.
LEMMA AcceptedMeansAsked == IInv => SignedIsAsked
<1>1. ASSUME IInv, Signed
      PROVE  LET n == Len(tx.ops)
                 mine == {i \in 1 .. n : ActsForUser(tx.ops[i]) /\ tx.ops[i].type # "end_sponsoring"}
             IN  /\ n \in mine
                 /\ tx.ops[n].type = "path_payment_strict_receive"
                 /\ tx.ops[n].max <= Cap /\ tx.ops[n].asset = request.fee_token
                 /\ tx.ops[n].gets = "xlm"
                 /\ \E at \in [mine \ {n} -> DOMAIN request.ops] :
                       /\ \A i \in mine \ {n} : IsAsked(tx.ops[i], request.ops[at[i]])
                       /\ \A i, j \in mine \ {n} : i < j => at[i] < at[j]
  <2> DEFINE k == IF payload.reserve > 0 THEN 1 ELSE 0
             n == Len(tx.ops)
             mine == {i \in 1 .. n : ActsForUser(tx.ops[i]) /\ tx.ops[i].type # "end_sponsoring"}
             at == [i \in mine \ {n} |-> i - k]
  <2>1. /\ VerifyQuote(payload, request) /\ payload \in PayloadShape
        /\ tx.source = ExpectedSource(payload)
    BY <1>1 DEF IInv, Established, VerifyTransaction, Signed
  <2>2. /\ payload.source = "user" /\ k \in {0, 1}
        /\ n \in Nat \ {0}
        /\ \A i \in 1 .. n : tx.ops[i] \in WireOp
        /\ k = 1 => Opens(tx.ops[1], tx, payload) /\ Closes(tx.ops[n - 1], payload)
        /\ PaysFee(tx.ops[n], payload)
        /\ \A i \in 1 .. n : \/ i = n
                             \/ k = 1 /\ (i = 1 \/ i = n - 1)
                             \/ i - k \in DOMAIN request.ops
        /\ \A i \in 1 .. n : i - k \in DOMAIN request.ops =>
               /\ request.ops[i - k] \in AskedOp
               /\ tx.ops[i].source \in {None, "user"}
               /\ VerifyOp(tx.ops[i], request.ops[i - k], "user")
    BY <1>1, SignedParts
  <2> HIDE DEF n, k
  <2>3. n \in mine
    <3>1. payload.mode # "bootstrap" => tx.source = "user"
      BY <2>1, <2>2 DEF ExpectedSource
    <3>2. (IF tx.ops[n].source = None THEN tx.source ELSE tx.ops[n].source) = "user"
      BY <2>2, <3>1 DEF PaysFee, None
    <3>3. tx.ops[n].type = "path_payment_strict_receive"
      BY <2>2 DEF PaysFee
    <3> QED BY <2>2, <3>2, <3>3 DEF ActsForUser
  <2>4. /\ tx.ops[n].type = "path_payment_strict_receive"
        /\ tx.ops[n].max <= Cap /\ tx.ops[n].asset = request.fee_token
        /\ tx.ops[n].gets = "xlm"
    BY <2>1, <2>2 DEF PaysFee, VerifyQuote, UnderCap
  <2>5. \A i \in mine \ {n} : i \in 1 .. n /\ i - k \in DOMAIN request.ops
    <3> SUFFICES ASSUME NEW i \in mine \ {n} PROVE i \in 1 .. n /\ i - k \in DOMAIN request.ops
      OBVIOUS
    <3>1. i \in 1 .. n /\ i # n /\ ActsForUser(tx.ops[i]) /\ tx.ops[i].type # "end_sponsoring"
      OBVIOUS
    <3>2. ~(k = 1 /\ i = n - 1)
      BY <2>2, <3>1 DEF Closes
    <3>3. ~(k = 1 /\ i = 1)
      <4>1. payload.sponsor # "user"
        BY <2>1 DEF PayloadShape
      <4> QED BY <2>2, <3>1, <4>1 DEF Opens, ActsForUser
    <3> QED BY <2>2, <3>1, <3>2, <3>3
  <2>6. at \in [mine \ {n} -> DOMAIN request.ops]
    BY <2>5
  <2>7. \A i \in mine \ {n} : IsAsked(tx.ops[i], request.ops[at[i]])
    BY <2>2, <2>5, AcceptedIsAsked
  <2>8. \A i, j \in mine \ {n} : i < j => at[i] < at[j]
    <3>1. \A i, j \in 1 .. n : i < j => i - k < j - k
      BY <2>2
    <3> QED BY <2>5, <3>1
  <2> QED BY <2>3, <2>4, <2>6, <2>7, <2>8 DEF n
<1> QED BY <1>1 DEF SignedIsAsked

\* Whatever the service answers, the wallet signs what was asked for and a fee
\* under the caller's ceiling (verifyClassic in verify.ts).
THEOREM SignedIsWhatWasAsked == Spec => []SignedIsAsked
<1> QED BY AcceptedMeansAsked, ClientInvariant, PTL

LEMMA PinsAreKept == IInv => PinsHold
<1>1. ASSUME IInv, Signed, request.pinned
      PROVE  /\ passphrase = "ours"
             /\ \A i \in DOMAIN tx.ops :
                   tx.ops[i].type = "path_payment_strict_receive" => tx.ops[i].to = "sponsor"
  <2> DEFINE k == IF payload.reserve > 0 THEN 1 ELSE 0
             n == Len(tx.ops)
  <2>1. /\ payload.network = "ours" /\ payload.sponsor = "sponsor" /\ passphrase = payload.network
        /\ tx \in TxShape
    BY <1>1 DEF IInv, Established, VerifyQuote, PinsMatch, Signed
  <2>2. DOMAIN tx.ops = 1 .. n
    BY <2>1 DEF TxShape
  <2>3. /\ k = 1 => Opens(tx.ops[1], tx, payload) /\ Closes(tx.ops[n - 1], payload)
        /\ PaysFee(tx.ops[n], payload)
        /\ \A i \in 1 .. n : \/ i = n
                             \/ k = 1 /\ (i = 1 \/ i = n - 1)
                             \/ i - k \in DOMAIN request.ops
        /\ \A i \in 1 .. n : i - k \in DOMAIN request.ops =>
               /\ request.ops[i - k] \in AskedOp
               /\ VerifyOp(tx.ops[i], request.ops[i - k], "user")
    BY <1>1, SignedParts
  <2> HIDE DEF n, k
  <2>4. ASSUME NEW i \in 1 .. n, tx.ops[i].type = "path_payment_strict_receive"
        PROVE  tx.ops[i].to = "sponsor"
    <3>1. CASE i = n
      BY <2>1, <2>3, <3>1 DEF PaysFee
    <3>2. CASE k = 1 /\ (i = 1 \/ i = n - 1)
      BY <2>3, <2>4, <3>2 DEF Opens, Closes
    <3>3. CASE i - k \in DOMAIN request.ops
      <4>1. tx.ops[i].type = request.ops[i - k].type /\ request.ops[i - k] \in AskedOp
        BY <2>3, <3>3 DEF VerifyOp
      <4> QED BY <2>4, <4>1 DEF AskedOp
    <3> QED BY <2>3, <3>1, <3>2, <3>3
  <2> QED BY <2>1, <2>2, <2>4
<1> QED BY <1>1 DEF PinsHold

\* With the network and the sponsor pinned, the wallet is asked for no other
\* network and pays no other sponsor (the pins of verifyQuote).
THEOREM PinsAlwaysHold == Spec => []PinsHold
<1> QED BY PinsAreKept, ClientInvariant, PTL

\* Both hold before any service, even one that answers with a quote and a
\* transaction that have nothing to do with the request.
THEOREM AnyAnswerIsChecked == AnySpec => [](SignedIsAsked /\ PinsHold)
<1> QED BY AcceptedMeansAsked, PinsAreKept, AnyInvariant, PTL

\* What the service should answer is signed, unless it costs too much, and what
\* is signed of it is served: verify.ts expects what build_inner() builds.
THEOREM HonestIsAlwaysServed == Spec => []HonestIsServed
<1>1. ASSUME IInv, HonestAnswers, \A i \in DOMAIN request.ops : request.ops[i].to # UpperId
      PROVE  /\ phase = "refused" => payload.send_max > Cap
             /\ phase # "mismatch"
  <2> DEFINE m == payload.send_max
  <2>1. /\ payload \in PayloadShape /\ payload = Honest(m) /\ m \in Nat
        /\ tx # NoTx => tx = BuildInner(payload) /\ passphrase = "ours"
    <3>1. payload # NoPayload /\ payload = Honest(m)
      BY <1>1 DEF HonestAnswers
    <3>2. payload \in PayloadShape
      BY <1>1, <3>1 DEF IInv, Established
    <3> QED BY <1>1, <3>1, <3>2 DEF HonestAnswers, PayloadShape
  <2>2. phase # "mismatch"
    BY <1>1, <2>1 DEF IInv, Refused
  <2>3. ASSUME phase = "refused" PROVE m > Cap
    <3> SUFFICES ASSUME m <= Cap PROVE FALSE
      BY <2>1, ClientAssumption
    <3>1. VerifyQuote(payload, request)
      BY <1>1, <2>1, HonestQuoteAccepted DEF IInv, Given
    <3>2. VerifyTransaction(BuildInner(payload), payload, request)
      BY <1>1, <2>1, HonestTransactionAccepted DEF IInv, Given
    <3>3. payload.network = "ours"
      BY <2>1 DEF Honest, Payload
    <3> QED BY <1>1, <2>1, <2>3, <3>1, <3>2, <3>3 DEF IInv, Refused
  <2> QED BY <2>2, <2>3
<1>2. IInv => HonestIsServed
  BY <1>1 DEF HonestIsServed
<1> QED BY <1>2, ClientInvariant, PTL
=============================================================================
