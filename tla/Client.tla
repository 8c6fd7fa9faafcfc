------------------------------- MODULE Client -------------------------------
(***************************************************************************)
(* The client's side of one request (sdk/ts/src/client.ts, verify.ts): the *)
(* quote it accepts, the transaction it signs, and what the service's own  *)
(* gate makes of that.  The service answers what it should, or something   *)
(* else in one place of the quote and one place of the transaction.        *)
(*                                                                         *)
(* Operations keep the fields the checks compare.  Payments and swaps are  *)
(* compared alike, all fields of them, and are one kind here; an asset     *)
(* stands for its route too, an amount for what is spelled either way.     *)
(* The fee alone has a second asset, the one the sponsor gets.             *)
(***************************************************************************)
EXTENDS Integers, Sequences, FiniteSets, SequencesExt

CONSTANTS
    MaxAsked,  \* bound: the longest request
    Cap,       \* the caller's ceiling on what may leave its balance
    SendMaxes  \* bound: the prices the service may name

ASSUME ClientAssumption == MaxAsked \in Nat /\ Cap \in Nat /\ SendMaxes \subseteq Nat

VARIABLES
    phase,     \* "asked", "quoted", "signed", "refused", "served", "mismatch"
    request,   \* what the caller asks, and what it pins beforehand
    account,   \* what the service knows: is there an account, which lane is free
    payload,   \* the quote the service sealed, or NoPayload
    tx,        \* the transaction the service built, or NoTx
    passphrase \* the network the wallet was asked to sign for

vars == <<phase, request, account, payload, tx, passphrase>>

Account == {"user", "other", "sponsor", "channel"}
Asset == {"usdc", "eurc"}
None == "none"
Unset == 0
MaxLimit == 9

\* Balance ids, as the ledger renders them and as a caller may write them.
Id == {"id", "id2"}
UpperId == "ID"
LowerCase(id) == IF id = UpperId THEN "id" ELSE id

AskedOp ==
    [type : {"create_account"}, to : {"user", "other"}, asset : {None}, amount : {0}]
    \cup [type : {"payment", "create_claimable_balance"}, to : {"other"}, asset : {"usdc"}, amount : {1}]
    \cup [type : {"change_trust"}, to : {None}, asset : {"usdc"}, amount : {Unset, 1}]
    \cup [type : {"claim_balance"}, to : {"id", UpperId}, asset : {None}, amount : {0}]

Request ==
    [ops : UNION {[1 .. n -> AskedOp] : n \in 1 .. MaxAsked},
     fee_token : {"usdc"}, pinned : BOOLEAN]

NoPayload == [mode |-> None]
NoTx == [source |-> None]

-----------------------------------------------------------------------------
(* What the service answers: quote() and build_inner() *)

Payload(r, a, sendMax) ==
    [network |-> "ours",
     mode |-> IF a.exists THEN "sponsored" ELSE "bootstrap",
     source |-> "user", sponsor |-> "sponsor",
     channel |-> IF a.exists THEN None ELSE a.channel,
     ops |-> r.ops, fee_token |-> r.fee_token, charge |-> 1, send_max |-> sendMax,
     reserve |-> Cardinality({i \in DOMAIN r.ops : r.ops[i].type \in
                    {"create_account", "change_trust", "create_claimable_balance"}}),
     sequence |-> 1]

Lane(p) == IF p.channel = None THEN p.sponsor ELSE p.channel
TxSource(p) == IF p.mode = "bootstrap" THEN Lane(p) ELSE p.source
UserSource(p) == IF p.mode = "bootstrap" THEN p.source ELSE None

Op(type, to, asset, amount, max, source) ==
    [type |-> type, to |-> to, asset |-> asset, amount |-> amount, max |-> max,
     gets |-> None, claimants |-> {}, source |-> source]

\* An open limit is the largest one.
Limit(amount) == IF amount = Unset THEN MaxLimit ELSE amount

\* One operation of build_inner(): ids are decoded from hex, and the sender of a
\* claimable balance can take it back.
BuiltOp(p, op) ==
    LET source == IF op.type = "create_account" THEN None ELSE UserSource(p)
    IN  CASE op.type = "change_trust" ->
                Op(op.type, op.to, op.asset, Limit(op.amount), 0, source)
          [] op.type = "create_claimable_balance" ->
                [Op(op.type, None, op.asset, op.amount, 0, source) EXCEPT
                 !.claimants = {<<op.to, "at once">>, <<p.source, "after seven days">>}]
          [] OTHER -> Op(op.type, LowerCase(op.to), op.asset, op.amount, 0, source)

Begin(p) == Op("begin_sponsoring", p.source, None, 0, 0,
               IF TxSource(p) = p.sponsor THEN None ELSE p.sponsor)
End(p) == Op("end_sponsoring", None, None, 0, 0, p.source)
Fee(p) == [Op("path_payment_strict_receive", p.sponsor, p.fee_token, p.charge, p.send_max,
              UserSource(p)) EXCEPT !.gets = "xlm"]

BuildInner(p) ==
    LET asked == [i \in DOMAIN p.ops |-> BuiltOp(p, p.ops[i])]
    IN  [source |-> TxSource(p), sequence |-> p.sequence,
         ops |-> (IF p.reserve > 0 THEN <<Begin(p)>> \o asked \o <<End(p)>> ELSE asked)
                 \o <<Fee(p)>>]

-----------------------------------------------------------------------------
(* What it might answer instead (external) *)

\* A sequence with one element more, one less, or one changed into one of others[i].
Edited(s, more, others) ==
    {InsertAt(s, i, e) : i \in 1 .. Len(s) + 1, e \in more}
    \cup {RemoveAt(s, i) : i \in DOMAIN s}
    \cup UNION {{[s EXCEPT ![i] = e] : e \in others[i]} : i \in DOMAIN s}

\* An operation with another value in a field it has.
OtherOp(op) ==
    {[op EXCEPT !.to = x] : x \in (IF op.to \in Account THEN {"other", "user"}
                                   ELSE IF op.to = None THEN {} ELSE Id)}
    \cup {[op EXCEPT !.asset = x] : x \in (IF op.asset = None THEN {} ELSE Asset)}
    \cup {[op EXCEPT !.amount = x] : x \in (IF op.asset = None THEN {} ELSE {1, 2, MaxLimit})}

OtherPayload(p) ==
    {[p EXCEPT !.network = "theirs"], [p EXCEPT !.source = "other"],
     [p EXCEPT !.sponsor = "other"], [p EXCEPT !.fee_token = "eurc"],
     [p EXCEPT !.charge = 2], [p EXCEPT !.sequence = 2],
     [p EXCEPT !.mode = IF @ = "sponsored" THEN "bootstrap" ELSE "sponsored"],
     [p EXCEPT !.reserve = IF @ > 0 THEN 0 ELSE 1]}
    \cup {[p EXCEPT !.channel = c] : c \in {None, "channel", "user"}}
    \cup {[p EXCEPT !.send_max = m] : m \in SendMaxes}
    \cup {[p EXCEPT !.ops = ops] : ops \in Edited(p.ops,
              [type : {"payment"}, to : {"other"}, asset : {"usdc"}, amount : {1}],
              [i \in DOMAIN p.ops |-> OtherOp(p.ops[i])])}

OtherBuiltOp(op) ==
    OtherOp(op)
    \cup {[op EXCEPT !.source = x] : x \in {None, "user", "other", "channel"}}
    \cup {[op EXCEPT !.amount = 1] : x \in {op.type} \cap {"create_account"}}
    \cup {[op EXCEPT !.max = x] :
             x \in (IF op.type = "path_payment_strict_receive" THEN SendMaxes ELSE {})}
    \cup {[op EXCEPT !.gets = x] : x \in (IF op.gets = None THEN {} ELSE Asset)}
    \cup {[op EXCEPT !.claimants = x] :
             x \in (IF op.claimants = {} THEN {}
                    ELSE {{<<"other", "at once">>}, {<<"other", "at once">>, <<"user", "at once">>}})}

OtherTx(t) ==
    {[t EXCEPT !.source = x] : x \in Account}
    \cup {[t EXCEPT !.sequence = 2]}
    \cup {[t EXCEPT !.ops = ops] : ops \in Edited(t.ops,
              {Op("payment", "other", "usdc", 1, 0, x) : x \in {None, "user"}},
              [i \in DOMAIN t.ops |-> OtherBuiltOp(t.ops[i])])}

-----------------------------------------------------------------------------
(* What the client makes of it: verify.ts *)

\* sameOp
SameOp(got, want) ==
    /\ got.type = want.type
    /\ LowerCase(got.to) = LowerCase(want.to)
    /\ got.asset = want.asset
    /\ got.amount = want.amount

\* Mutant: the pinned sponsor is not looked at.
PinsMatchNetwork(p, r) == r.pinned => p.network = "ours"

PinsMatch(p, r) == r.pinned => p.network = "ours" /\ p.sponsor = "sponsor"

\* Mutant: compared with the price, which bounds nothing.
UnderCapCharge(p) == p.charge <= Cap

UnderCap(p) == p.send_max <= Cap

VerifyQuote(p, r) ==
    /\ PinsMatch(p, r)
    /\ p.source = "user"
    /\ p.fee_token = r.fee_token
    /\ UnderCap(p)
    /\ Len(p.ops) = Len(r.ops)
    /\ \A i \in DOMAIN r.ops : SameOp(p.ops[i], r.ops[i])

\* Mutant: the lane is taken for the sponsor's.
ExpectedSourceNoChannel(p) == IF p.mode = "bootstrap" THEN p.sponsor ELSE p.source

ExpectedSource(p) ==
    IF p.mode # "bootstrap" THEN p.source
    ELSE IF p.channel = None THEN p.sponsor ELSE p.channel

Opens(op, t, p) ==
    /\ op.type = "begin_sponsoring"
    /\ op.to = p.source
    /\ (IF op.source = None THEN t.source ELSE op.source) = p.sponsor

Closes(op, p) == op.type = "end_sponsoring" /\ op.source = p.source

PaysFee(op, p) ==
    /\ op.type = "path_payment_strict_receive"
    /\ op.source = IF p.mode = "bootstrap" THEN p.source ELSE None
    /\ op.to = p.sponsor /\ op.gets = "xlm"
    /\ op.amount = p.charge /\ op.max = p.send_max /\ op.asset = p.fee_token

VerifyOp(op, want, source) ==
    /\ op.type = want.type
    /\ CASE want.type = "create_account" -> op.to = want.to /\ op.amount = 0
         [] want.type = "payment" -> op.to = want.to /\ op.asset = want.asset /\ op.amount = want.amount
         [] want.type = "claim_balance" -> op.to = want.to
         [] want.type = "change_trust" ->
               op.asset = want.asset /\ (want.amount # Unset => op.amount = want.amount)
         [] want.type = "create_claimable_balance" ->
               /\ op.asset = want.asset /\ op.amount = want.amount
               /\ op.claimants = {<<want.to, "at once">>, <<source, "after seven days">>}

\* verifyClassic: the sandwich, the fee, and what is left against the request.
VerifyOps(t, p, asked) ==
    LET k == IF p.reserve > 0 THEN 1 ELSE 0
        n == Len(t.ops)
    IN  /\ n = Len(asked) + 2 * k + 1
        /\ k = 1 => Opens(t.ops[1], t, p) /\ Closes(t.ops[n - 1], p)
        /\ PaysFee(t.ops[n], p)
        /\ \A i \in DOMAIN asked : /\ t.ops[i + k].source \in {None, p.source}
                                   /\ VerifyOp(t.ops[i + k], asked[i], p.source)

VerifyTransaction(t, p, r) ==
    /\ VerifyQuote(p, r)
    /\ t.source = ExpectedSource(p)
    /\ t.sequence = p.sequence
    /\ VerifyOps(t, p, r.ops)

-----------------------------------------------------------------------------
(* client.ts: send() is quote(), build(), the wallet, submit() *)

Init ==
    /\ phase = "asked"
    /\ request \in Request
    /\ account \in [exists : BOOLEAN, channel : {None, "channel"}]
    /\ payload = NoPayload
    /\ tx = NoTx
    /\ passphrase = None

Honest(sendMax) == Payload(request, account, sendMax)

Quote(p) ==
    /\ phase = "asked"
    /\ payload' = p
    /\ phase' = IF VerifyQuote(p, request) THEN "quoted" ELSE "refused"
    /\ UNCHANGED <<request, account, tx, passphrase>>

Build(t, w) ==
    /\ phase = "quoted"
    /\ tx' = t
    /\ passphrase' = w
    /\ phase' = IF VerifyTransaction(t, payload, request) /\ w = payload.network
                THEN "signed" ELSE "refused"
    /\ UNCHANGED <<request, account, payload>>

\* The service's gate takes exactly what it builds from the quote.
Submit ==
    /\ phase = "signed"
    /\ phase' = IF tx = BuildInner(payload) THEN "served" ELSE "mismatch"
    /\ UNCHANGED <<request, account, payload, tx, passphrase>>

Next ==
    \/ \E m \in SendMaxes : \E p \in {Honest(m)} \cup OtherPayload(Honest(m)) : Quote(p)
    \/ phase = "quoted" /\ \E t \in {BuildInner(payload)} \cup OtherTx(BuildInner(payload)),
                              w \in {"ours", "theirs"} : Build(t, w)
    \/ Submit

Spec == Init /\ [][Next]_vars

-----------------------------------------------------------------------------
(* Properties *)

Signed == phase \in {"signed", "served", "mismatch"}

\* What the transaction does in the user's name.
ActsForUser(op) == (IF op.source = None THEN tx.source ELSE op.source) = "user"

\* What an operation does, whoever built it.
Does(op) == [op EXCEPT !.source = None]

\* An operation that was asked for, at the trustline limit it may have.
IsAsked(op, want) ==
    \/ Does(op) = Does(BuiltOp(payload, want))
    \/ want.type = "change_trust" /\ want.amount = Unset /\ op.type = "change_trust" /\ op.asset = want.asset

\* Nothing the wallet signs does more in the user's name than was asked: the
\* fee at the end, within the caller's ceiling, in its token and for lumens, the
\* closing of the sponsorship, and each requested operation at most once, in the order of
\* the request; whatever the service answered.
SignedIsAsked ==
    Signed =>
        LET n == Len(tx.ops)
            mine == {i \in 1 .. n : ActsForUser(tx.ops[i]) /\ tx.ops[i].type # "end_sponsoring"}
        IN  /\ n \in mine
            /\ tx.ops[n].type = "path_payment_strict_receive"
            /\ tx.ops[n].max <= Cap /\ tx.ops[n].asset = request.fee_token
            /\ tx.ops[n].gets = "xlm"
            /\ \E at \in [mine \ {n} -> DOMAIN request.ops] :
                  /\ \A i \in mine \ {n} : IsAsked(tx.ops[i], request.ops[at[i]])
                  /\ \A i, j \in mine \ {n} : i < j => at[i] < at[j]

\* A caller that pinned the network and the sponsor signs for no other network
\* and pays nobody else.
PinsHold ==
    Signed /\ request.pinned =>
        /\ passphrase = "ours"
        /\ \A i \in DOMAIN tx.ops :
              tx.ops[i].type = "path_payment_strict_receive" => tx.ops[i].to = "sponsor"

\* The service answered what quote() and build_inner() answer.
HonestAnswers ==
    /\ payload # NoPayload /\ payload = Honest(payload.send_max)
    /\ tx # NoTx => tx = BuildInner(payload) /\ passphrase = "ours"

\* What the service builds is what the client expects: an answer the service
\* should give is refused for its price only, and what is signed is served
\* (ids in the ledger's spelling).
HonestIsServed ==
    HonestAnswers /\ (\A i \in DOMAIN request.ops : request.ops[i].to # UpperId) =>
        /\ phase = "refused" => payload.send_max > Cap
        /\ phase # "mismatch"
=============================================================================
