-------------------------------- MODULE Keys --------------------------------
(***************************************************************************)
(* Keys for integrators (routes.rs challenge, issue_key; auth.rs;          *)
(* apikey.rs): an account is proved by signing a challenge, and is given a *)
(* key.  The service stores neither; challenges and keys are with whoever  *)
(* got them, and are tried again at any later time.                        *)
(*                                                                         *)
(* A MAC is modelled by who made the challenge, a signature by who signed  *)
(* what for which network.  Two networks share the issuer of the keys.     *)
(***************************************************************************)
EXTENDS Integers, FiniteSets

CONSTANTS
    Accounts,  \* the accounts of the network
    ValidFor,  \* how long a challenge may be answered
    Year,      \* what a key is rounded up to
    LastTime,  \* bound on the clock
    MaxOut     \* bound on challenges, signatures and keys that are out

ASSUME KeysAssumption ==
    ValidFor \in Nat \ {0} /\ Year \in Nat \ {0} /\ LastTime \in Nat /\ MaxOut \in Nat

VARIABLES
    now,
    challenges,  \* challenges that are out
    signed,      \* challenges that came back from a wallet
    keys,        \* keys that are out
    issuedAt     \* ghost: when and on which signature each key was last issued

vars == <<now, challenges, signed, keys, issuedAt>>

Networks == {"ours", "theirs"}

Challenge == [account : Accounts, expires_at : Nat, ours : BOOLEAN]
Signature == [challenge : Challenge, by : Accounts, network : Networks]
IssuedKey == [id : Accounts, network : Networks, expires_at : Nat \ {0}]

-----------------------------------------------------------------------------
(* auth.rs *)

ChallengeFor(a) == [account |-> a, expires_at |-> now + ValidFor, ours |-> TRUE]

\* Mutant: an answered challenge stays good.
ProvesAnytime(s) ==
    /\ s.challenge.ours
    /\ s.by = s.challenge.account /\ s.network = "ours"

\* verify(): our challenge, not expired, signed by the account it is for.
Proves(s) ==
    /\ s.challenge.ours
    /\ now < s.challenge.expires_at
    /\ s.by = s.challenge.account /\ s.network = "ours"

-----------------------------------------------------------------------------
(* apikey.rs *)

\* Mutant: a year from now.
ExpiryInAYear == now + Year

\* Mutant: rounded down.
ExpiryFloor == (now \div Year) * Year

\* The next multiple of a year.
Expiry == (now \div Year + 1) * Year

KeyFor(a) == [id |-> a, network |-> "ours", expires_at |-> Expiry]

\* verify() of a key; its id then names the caller.
Usable(k) == now < k.expires_at /\ k.network = "ours"

-----------------------------------------------------------------------------

Out == Cardinality(challenges) + Cardinality(signed) + Cardinality(keys)

Init ==
    /\ now = 0
    /\ challenges = {}
    /\ signed = {}
    /\ keys \in SUBSET {[id |-> a, network |-> "theirs", expires_at |-> Year] : a \in Accounts}
    /\ issuedAt = [k \in {} |-> <<>>]

\* challenge(): for any address that is one.
Ask(a) ==
    /\ Out < MaxOut
    /\ challenges' = challenges \cup {ChallengeFor(a)}
    /\ UNCHANGED <<now, signed, keys, issuedAt>>

\* A wallet signs a challenge, or a look-alike of its own making, for one of the
\* networks (external).
Sign(a, n) ==
    /\ Out < MaxOut
    /\ \E c \in challenges \cup {[account |-> b, expires_at |-> now + Year, ours |-> FALSE] : b \in Accounts} :
          signed' = signed \cup {[challenge |-> c, by |-> a, network |-> n]}
    /\ UNCHANGED <<now, challenges, keys, issuedAt>>

\* issue_key(): the address that is proved gets its key.
IssueKey(s) ==
    /\ Proves(s)
    /\ LET k == KeyFor(s.challenge.account)
       IN  /\ keys' = keys \cup {k}
           /\ issuedAt' = [x \in DOMAIN issuedAt \cup {k} |->
                              IF x = k THEN [at |-> now, on |-> s] ELSE issuedAt[x]]
    /\ UNCHANGED <<now, challenges, signed>>

\* The clock (external).
Pass ==
    /\ now < LastTime
    /\ now' = now + 1
    /\ UNCHANGED <<challenges, signed, keys, issuedAt>>

Next ==
    \/ \E a \in Accounts : Ask(a)
    \/ \E a \in Accounts, n \in Networks : Sign(a, n)
    \/ \E s \in signed : IssueKey(s)
    \/ Pass

Spec == Init /\ [][Next]_vars

-----------------------------------------------------------------------------
(* Properties *)

TypeOK ==
    /\ now \in 0 .. LastTime
    /\ \A k \in keys : k.id \in Accounts /\ k.network \in Networks /\ k.expires_at > 0
    /\ DOMAIN issuedAt \subseteq keys

Earned(k) ==
    LET s == issuedAt[k].on
    IN  /\ s.by = k.id /\ s.challenge.account = k.id /\ s.network = "ours"
        /\ s.challenge.ours
        /\ issuedAt[k].at \in s.challenge.expires_at - ValidFor .. s.challenge.expires_at - 1

\* However often an account signs, and whenever: it never holds two keys that are
\* good at the same time ("signing again is handed the same key rather than a
\* second one", with nothing stored).
OneKeyAtATime ==
    \A k, l \in keys : Usable(k) /\ Usable(l) /\ k.id = l.id => k = l

\* Nobody is known by an account's name who did not have that account sign a
\* challenge of ours, for this network, and answer it while it was good.
KeysAreEarned == \A k \in keys : Usable(k) => k \in DOMAIN issuedAt /\ Earned(k)

\* A key just issued can be used, and no key is good for more than a year.
FreshKeyWorks ==
    \A k \in DOMAIN issuedAt :
        k.expires_at > issuedAt[k].at /\ k.expires_at <= issuedAt[k].at + Year

\* The inductive invariant of the proofs: keys of this network were issued, in the
\* past, rounded up from their time, on a signature that proved the account; no
\* challenge of ours is good for longer than from now.
InRange ==
    /\ now \in 0 .. LastTime
    /\ challenges \subseteq Challenge /\ signed \subseteq Signature /\ keys \subseteq IssuedKey
ShortLived ==
    \A c \in challenges \cup {s.challenge : s \in signed} : c.ours => c.expires_at <= now + ValidFor
KeysWereIssued == \A k \in keys : k.network = "ours" => k \in DOMAIN issuedAt
IssuedKeysAreRight ==
    \A k \in DOMAIN issuedAt :
        /\ k \in keys /\ Earned(k)
        /\ issuedAt[k].at \in 0 .. now
        /\ k.expires_at = (issuedAt[k].at \div Year + 1) * Year
IInv == InRange /\ ShortLived /\ KeysWereIssued /\ IssuedKeysAreRight
=============================================================================
