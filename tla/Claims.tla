------------------------------- MODULE Claims -------------------------------
(***************************************************************************)
(* The check of claimed balances (core/src/claim.rs,                       *)
(* horizon/src/predicate.rs): made when the operations are quoted, and     *)
(* made again, with time passed and balances gone, when they are           *)
(* submitted.  What it lets through is compared with what the ledger would *)
(* do with the operations at that moment.                                  *)
(*                                                                         *)
(* A predicate is a tree: a function from its nodes to what they say.  A   *)
(* node is the path to it, the numbers of the parts from the root down, so *)
(* that its depth is its length.  Dates are small numbers, and readable.   *)
(* Operations are claims and payments in the fee token.                    *)
(*                                                                         *)
(* Some names are longer than they need be, for modules that extend Keys   *)
(* and Limits as well.                                                     *)
(***************************************************************************)
EXTENDS Integers, Sequences, FiniteSets

CONSTANTS
    Ids,         \* balance ids
    Predicates,  \* bound: which predicates the user may have on the balances
    MaxDepth,    \* bound: how deep they are
    Amounts,     \* bound: what a balance holds
    SendMaxes,   \* bound: what the fee payment may take
    EndTime,     \* bound on the clock
    MaxOps       \* bound on the length of a request

Root == <<>>

\* The nodes right below a node.
Parts(p, s) == {r \in DOMAIN p : Len(r) = Len(s) + 1 /\ SubSeq(r, 1, Len(s)) = s}

Gate == [kind : {"and", "or", "not"}]
Leaf == [kind : {"unconditional"}, flag : BOOLEAN]
        \cup [kind : {"abs_before"}, at : Int] \cup [kind : {"rel_before"}, rel : Int]

IsPredicate(p) ==
    /\ Root \in DOMAIN p
    /\ \A s \in DOMAIN p :
          /\ s \in Seq(Nat \ {0}) /\ Len(s) <= MaxDepth
          /\ p[s] \in Gate \cup Leaf
          /\ s # Root => SubSeq(s, 1, Len(s) - 1) \in DOMAIN p
          /\ p[s] \in Leaf => Parts(p, s) = {}
          /\ p[s].kind = "not" => Cardinality(Parts(p, s)) = 1

ASSUME ClaimsAssumption ==
    /\ \A f \in Predicates : DOMAIN f = Ids /\ \A id \in Ids : IsPredicate(f[id])
    /\ Amounts \subseteq Nat /\ SendMaxes \subseteq Nat \ {0}
    /\ MaxDepth \in Nat /\ EndTime \in Nat /\ MaxOps \in Nat

VARIABLES
    phase,   \* "asked", "quoted", "cleared" to be signed and sent, "refused"
    ops,     \* the operations of the request
    mode,    \* "sponsored" or "bootstrap"
    ledger,  \* the claimable balances, by id
    shown,   \* does Horizon show when the balances were last modified
    time,
    need     \* what the quote's fee may take of the claims, or NoNeed

claimsVars == <<phase, ops, mode, ledger, shown, time, need>>

NoNeed == 0
Created == 0     \* every balance was created at time 0
Unknown == -1

Claim(id) == [type |-> "claim_balance", id |-> id]
Pay == [type |-> "payment"]

-----------------------------------------------------------------------------
(* predicate.rs *)

\* Mutant: the cap one level up.
DeepestThree == 3

\* The deepest node that is looked at; the root is at 0.
Deepest == 4

\* What a node comes to at time t, when its parts come to at.
NodeHolds(p, s, at, t, created) ==
    LET Pair == Cardinality(Parts(p, s)) = 2
    IN  IF Len(s) > Deepest THEN FALSE
        ELSE CASE p[s].kind = "and" -> Pair /\ \A r \in Parts(p, s) : at[r]
               [] p[s].kind = "or" -> Pair /\ \E r \in Parts(p, s) : at[r]
               [] p[s].kind = "not" -> \A r \in Parts(p, s) : ~at[r]
               [] p[s].kind = "unconditional" -> p[s].flag
               [] p[s].kind = "abs_before" -> t < p[s].at
               [] p[s].kind = "rel_before" -> created # Unknown /\ t < created + p[s].rel

HoldsAt(p, t, created) ==
    LET at[s \in DOMAIN p] == NodeHolds(p, s, at, t, created) IN at

\* The balance's claimable_by(source, now), as Horizon shows it.
ClaimableBy(id) == HoldsAt(ledger[id].predicate, time, IF shown THEN Created ELSE Unknown)[Root]

-----------------------------------------------------------------------------
(* claim.rs *)

Claims == {i \in DOMAIN ops : ops[i].type = "claim_balance"}
InFeeToken == {i \in Claims : ledger[ops[i].id].asset = "fee"}

\* What has been added up after the first i operations.
Arriving[i \in 0 .. Len(ops)] ==
    IF i = 0 THEN 0
    ELSE Arriving[i - 1] + (IF i \in InFeeToken THEN ledger[ops[i].id].amount ELSE 0)

Payable == Arriving[Len(ops)]

\* Mutant: funds in another token are taken for enough.
CoversUnseen(n) == n # NoNeed /\ InFeeToken # {} => Payable >= n

\* The arriving funds pay for the transaction, when the account has nothing else.
Covers(n) ==
    n # NoNeed =>
        /\ mode = "bootstrap" /\ Claims # {} => InFeeToken # {}
        /\ InFeeToken # {} => Payable >= n

EnsureClaims(n) ==
    /\ \A i \in Claims : ledger[ops[i].id].exists /\ ClaimableBy(ops[i].id)
    /\ Covers(n)

NeedFor(sendMax) == IF mode = "bootstrap" THEN sendMax ELSE NoNeed

-----------------------------------------------------------------------------

Operation == {Pay} \cup {Claim(id) : id \in Ids}

ClaimsInit ==
    /\ phase = "asked"
    /\ mode \in {"sponsored", "bootstrap"}
    /\ ops \in UNION {[1 .. n -> Operation] : n \in 1 .. MaxOps}
    /\ mode = "bootstrap" => Claims # {}
    /\ \E asset \in [Ids -> {"fee", "other"}], amount \in [Ids -> Amounts], f \in Predicates :
          ledger = [id \in Ids |-> [exists |-> TRUE, asset |-> asset[id], amount |-> amount[id],
                                    predicate |-> f[id]]]
    /\ shown \in BOOLEAN
    /\ time = Created
    /\ need = NoNeed

Quote(sendMax) ==
    /\ phase = "asked"
    /\ need' = NeedFor(sendMax)
    /\ phase' = IF EnsureClaims(need') THEN "quoted" ELSE "refused"
    /\ UNCHANGED <<ops, mode, ledger, shown, time>>

\* The last look before the transaction is signed, with the quote's need.
Submit ==
    /\ phase = "quoted"
    /\ phase' = IF EnsureClaims(need) THEN "cleared" ELSE "refused"
    /\ UNCHANGED <<ops, mode, ledger, shown, time, need>>

\* Somebody claims a balance (external).
Vanish(id) ==
    /\ phase \in {"asked", "quoted"} /\ ledger[id].exists
    /\ ledger' = [ledger EXCEPT ![id].exists = FALSE]
    /\ UNCHANGED <<phase, ops, mode, shown, time, need>>

\* The clock (external).
Elapse ==
    /\ phase \in {"asked", "quoted"} /\ time < EndTime
    /\ time' = time + 1
    /\ UNCHANGED <<phase, ops, mode, ledger, shown, need>>

ClaimsNext ==
    \/ \E sendMax \in SendMaxes : Quote(sendMax)
    \/ Submit
    \/ \E id \in Ids : Vanish(id)
    \/ Elapse

ClaimsSpec == ClaimsInit /\ [][ClaimsNext]_claimsVars

-----------------------------------------------------------------------------
(* What the ledger makes of the operations (external, CAP-23) *)

NodeHoldsOnLedger(p, s, at) ==
    CASE p[s].kind = "and" -> \A r \in Parts(p, s) : at[r]
      [] p[s].kind = "or" -> \E r \in Parts(p, s) : at[r]
      [] p[s].kind = "not" -> \A r \in Parts(p, s) : ~at[r]
      [] p[s].kind = "unconditional" -> p[s].flag
      [] p[s].kind = "abs_before" -> time < p[s].at
      [] p[s].kind = "rel_before" -> time < Created + p[s].rel

HoldsOnLedger(p) ==
    LET at[s \in DOMAIN p] == NodeHoldsOnLedger(p, s, at) IN at

\* What the operations up to the i-th leave of the fee token.
Purse(i) == Arriving[i] - Cardinality({j \in 1 .. i : ops[j].type = "payment"})

\* Every claim finds its balance, once and open; a new account never runs short
\* and can pay the fee at the end.
Applies ==
    /\ \A i \in Claims : ledger[ops[i].id].exists /\ HoldsOnLedger(ledger[ops[i].id].predicate)[Root]
    /\ \A i, j \in Claims : ops[i] = ops[j] => i = j
    /\ need # NoNeed => /\ \A i \in DOMAIN ops : Purse(i) >= 0
                        /\ Purse(Len(ops)) >= need

-----------------------------------------------------------------------------
(* Properties *)

\* A predicate the ledger can hold.
OnLedger(p) ==
    \A s \in DOMAIN p :
        Len(s) <= 4 /\ (p[s].kind \in {"and", "or"} => Cardinality(Parts(p, s)) = 2)

\* One whose deadlines can all be placed in time.
Placed(p) == OnLedger(p) /\ (shown \/ \A s \in DOMAIN p : p[s].kind # "rel_before")

\* One in which a false that stands for "cannot tell" stays false.
Monotone(p) == \A s \in DOMAIN p : p[s].kind # "not"

Readable == \A i \in Claims : Placed(ledger[ops[i].id].predicate)
FailsClosed == \A i \in Claims : LET p == ledger[ops[i].id].predicate IN Placed(p) \/ Monotone(p)

\* "The last look before we sign" (routes.rs): claims of different balances,
\* with nothing paid out of them but the fee, apply when they are cleared.
\* What the evaluation cannot tell (a tree too deep, an `and` that is not a
\* pair, an unknown creation time) counts as closed, except under `not`.
ClearedApplies ==
    phase = "cleared" /\ FailsClosed /\ (\A i \in DOMAIN ops : ops[i] # Pay)
             /\ (\A i, j \in Claims : ops[i] = ops[j] => i = j)
        => Applies

\* Nobody is turned away whose operations would have applied.
RefusedFails == phase = "refused" /\ Readable => ~Applies

\* The inductive invariant: types; a new account claims something, and only it
\* has a need; and the verdict is that of the last look, since when nothing moved.
Held == {f[id] : f \in Predicates, id \in Ids}

ClaimsTypeOK ==
    /\ phase \in {"asked", "quoted", "cleared", "refused"}
    /\ ops \in Seq(Operation)
    /\ mode \in {"sponsored", "bootstrap"}
    /\ ledger \in [Ids -> [exists : BOOLEAN, asset : {"fee", "other"}, amount : Amounts, predicate : Held]]
    /\ shown \in BOOLEAN
    /\ time \in Nat
    /\ need \in {NoNeed} \cup SendMaxes

NewAccountClaims ==
    /\ mode = "bootstrap" => Claims # {}
    /\ need # NoNeed => mode = "bootstrap"

Verdict ==
    /\ phase = "cleared" => EnsureClaims(need)
    /\ phase = "refused" => ~EnsureClaims(need)

ClaimsInv == ClaimsTypeOK /\ NewAccountClaims /\ Verdict
=============================================================================
