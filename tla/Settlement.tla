----------------------------- MODULE Settlement -----------------------------
(***************************************************************************)
(* What sponsoring promises, without the service, the network or the money *)
(* in between: a quote names one slot, an account and a number of it, for  *)
(* good; of all quotes that name a slot one settles at most, and once.  A  *)
(* quote that settles is paid for, or its fee is lost.                     *)
(***************************************************************************)
EXTENDS Integers

CONSTANTS
    Quote,
    NoSlot  \* of a quote that is not made yet

VARIABLES
    slot,    \* slot[q]: the account and the number q names
    settled, \* settled[q]: how often q took its slot on the ledger
    paid     \* the quotes whose user paid

settlementVars == <<slot, settled, paid>>

SettlementInit ==
    /\ slot = [q \in Quote |-> NoSlot]
    /\ settled = [q \in Quote |-> 0]
    /\ paid = {}

Offer(q) ==
    /\ slot[q] = NoSlot
    /\ slot' = [slot EXCEPT ![q] = slot'[q]]
    /\ UNCHANGED <<settled, paid>>

Unsettled(q) == \A p \in Quote : slot[p] = slot[q] => settled[p] = 0

Settle(q) ==
    /\ slot[q] # NoSlot
    /\ Unsettled(q)
    /\ settled' = [settled EXCEPT ![q] = 1]
    /\ paid' \in {paid, paid \cup {q}}
    /\ UNCHANGED slot

SettlementNext == \E q \in Quote : Offer(q) \/ Settle(q)

SettlementSpec == SettlementInit /\ [][SettlementNext]_settlementVars

-----------------------------------------------------------------------------
(* Properties *)

\* What a reader of the specification relies on: of the quotes that name a slot
\* one settles, and nobody pays for a quote that does not.
OneSettles ==
    /\ \A p, q \in Quote : settled[p] # 0 /\ settled[q] # 0 /\ slot[p] = slot[q] => p = q
    /\ \A q \in paid : settled[q] = 1

\* Inductive with it: what has settled names a slot.
SettlementInv ==
    /\ DOMAIN slot = Quote /\ settled \in [Quote -> {0, 1}] /\ paid \subseteq Quote
    /\ \A q \in Quote : settled[q] # 0 => slot[q] # NoSlot
    /\ OneSettles
=============================================================================
